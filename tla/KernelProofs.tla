----------------------------- MODULE KernelProofs -----------------------------
(***************************************************************************)
(* The parts of the kernel that rest on the scheduler, for any number of   *)
(* tasks: the registers and the receive path of the network card, the      *)
(* barrier, the table of mailboxes, condition variables, mailboxes and the *)
(* processes on the linked lists.                                          *)
(***************************************************************************)
EXTENDS Kernel, PcbQueueProofs

-----------------------------------------------------------------------------
(* Registers and the receive path of the network card                      *)

\* The instance defines them again.
LEMMA SameOperators ==
  /\ \A S : Card!Cardinality(S) = Cardinality(S)
  /\ \A S : Card!IsFiniteSet(S) = IsFiniteSet(S)
  /\ \A s : Card!Members(s) = Members(s)
  /\ \A s : Card!Distinct(s) <=> Distinct(s)
<1>1. \A S : Card!Cardinality(S) = Cardinality(S)
  BY DEF Card!Cardinality, Cardinality
<1>2. \A S : Card!IsFiniteSet(S) = IsFiniteSet(S)
  BY DEF Card!IsFiniteSet, IsFiniteSet
<1>3. \A s : Card!Members(s) = Members(s)
  BY DEF Card!Members, Members
<1>4. \A s : Card!Distinct(s) <=> Distinct(s)
  BY DEF Card!Distinct, Distinct
<1>5. QED  BY <1>1, <1>2, <1>3, <1>4

LEMMA NetSizes ==
  /\ Receiver \in NetTask /\ Idle \notin NetTask /\ IsFiniteSet(NetTask)
  /\ PNUM \in Nat \ {0} /\ Interval \in Nat \ {0}
BY KernelAssumption, SameOperators DEF Card!NetAssumption

\* The places of a task are different ones.
LEMMA PlacesDiffer ==
  /\ Card!InUser # Card!Interrupt
  /\ Card!InUser \notin Card!Checking /\ Card!Interrupt \notin Card!Checking
  /\ \A m, n \in 0 .. PNUM : <<"check", m>> = <<"check", n>> => m = n
  /\ \A n \in 0 .. PNUM : <<"check", n>> \in Card!Checking
<1>1. Card!InUser[1] = "user" /\ Card!Interrupt[1] = "interrupt"
  BY DEF Card!InUser, Card!Interrupt
<1>2. \A x \in Card!Checking : x[1] = "check"
  BY DEF Card!Checking
<1>3. \A n \in 0 .. PNUM : <<"check", n>>[2] = n
  OBVIOUS
<1>4. QED  BY <1>1, <1>2, <1>3 DEF Card!Checking

\* What a switch to the next task of a line does: somebody else, or the only one.
LEMMA SwitchMans ==
  ASSUME Card!TypeOK, NEW again \in Seq(Card!Everyone), Idle \in Members(ready) \cup Members(again),
         NEW saved, Card!Switch(again, saved)
  PROVE  /\ current' \in Card!Everyone /\ ready' \in Seq(Card!Everyone)
         /\ Idle \in Members(ready') \cup {current'}
<1> DEFINE rd == ready \o again
<1>1. rd \in Seq(Card!Everyone) /\ Members(rd) = Members(ready) \cup Members(again)
  BY ConcatFacts DEF Card!TypeOK
<1>2. current' = Head(rd) /\ ready' = Tail(rd)
  BY DEF Card!Switch, Card!Line
<1> HIDE DEF rd
<1>3. rd # <<>>
  BY <1>1 DEF Members
<1>4. QED  BY <1>1, <1>2, <1>3, HeadAndTail

\* And with the registers: the task that leaves keeps all of them or all but v0.
LEMMA SwitchKeeps ==
  ASSUME Card!TypeOK, NEW again, NEW saved \in [Card!Everyone -> Card!Registers], Card!Switch(again, saved)
  PROVE  /\ c' \in [Card!Everyone -> Card!Registers] /\ j' \in [Card!Everyone -> Card!Timed]
         /\ \A t \in Card!Everyone : saved[t] = Card!Kept(t) => c'[t] = Card!Kept(t)'
<1>1. PICK sleepers \in BOOLEAN : Card!GetTimer(saved, sleepers)
  BY DEF Card!Switch
<1>2. /\ c' = [saved EXCEPT ![current].v0 = IF sleepers THEN Card!Time ELSE @]
      /\ j' = [j EXCEPT ![current].timed = @ \/ sleepers]
  BY <1>1 DEF Card!GetTimer
<1>3. current \in Card!Everyone /\ j \in [Card!Everyone -> Card!Timed]
  BY DEF Card!TypeOK
<1>4. saved[current] \in Card!Registers /\ j[current] \in Card!Timed
  BY <1>3
<1>5. /\ c' = [saved EXCEPT ![current] = [saved[current] EXCEPT !.v0 = IF sleepers THEN Card!Time ELSE @]]
      /\ j' = [j EXCEPT ![current] = [j[current] EXCEPT !.timed = @ \/ sleepers]]
  BY <1>2, <1>3
<1> DEFINE r == [saved[current] EXCEPT !.v0 = IF sleepers THEN Card!Time ELSE @]
           stamp == [j[current] EXCEPT !.timed = @ \/ sleepers]
<1>6. r \in Card!Registers /\ stamp \in Card!Timed
  BY <1>1, <1>4 DEF Card!Registers, Card!Timed, Card!Time
<1>7. /\ r.v0 = (IF sleepers THEN Card!Time ELSE saved[current].v0) /\ r.rest = saved[current].rest
      /\ stamp.set = j[current].set /\ stamp.timed = (j[current].timed \/ sleepers)
      /\ r = [v0 |-> r.v0, rest |-> r.rest]
  BY <1>1, <1>4 DEF Card!Registers, Card!Timed
<1>8. /\ c' = [saved EXCEPT ![current] = r] /\ j' = [j EXCEPT ![current] = stamp]
  BY <1>5
<1> HIDE DEF r, stamp
<1>9. /\ c' \in [Card!Everyone -> Card!Registers] /\ j' \in [Card!Everyone -> Card!Timed]
  BY <1>3, <1>6, <1>8
<1>10. ASSUME NEW t \in Card!Everyone, saved[t] = Card!Kept(t)
       PROVE  c'[t] = Card!Kept(t)'
  <2>1. CASE t = current
    <3>1. c'[t] = r /\ j'[t] = stamp
      BY <1>3, <1>8, <2>1
    <3>2. saved[t].v0 = (IF j[t].timed THEN Card!Time ELSE j[t].set) /\ saved[t].rest = j[t].set
      BY <1>10 DEF Card!Kept
    <3>3. /\ r.v0 = IF stamp.timed THEN Card!Time ELSE stamp.set
          /\ r.rest = stamp.set
      BY <1>7, <2>1, <3>2
    <3>4. QED  BY <1>7, <3>1, <3>3 DEF Card!Kept
  <2>2. CASE t # current
    <3>1. c'[t] = saved[t] /\ j'[t] = j[t]
      BY <1>3, <1>8, <2>2
    <3>2. QED  BY <1>10, <3>1 DEF Card!Kept
  <2>3. QED  BY <2>1, <2>2
<1>11. QED  BY <1>9, <1>10

LEMMA NetInit ==
  ASSUME Card!Init
  PROVE  Card!NetInv
<1>1. Cardinality(NetTask) \in Nat
  BY NetSizes, FS_CardinalityType
<1>2. ready \in Seq(Card!Everyone)
  BY <1>1, SameOperators DEF Card!Init, Card!Everyone
<1>3. /\ current = Idle /\ a = <<>> /\ b = [v0 |-> 0, rest |-> 0] /\ f = 0 /\ g = FALSE
      /\ at = [t \in Card!Everyone |-> IF t = Idle THEN Card!InUser ELSE Card!Interrupt]
      /\ c = [t \in Card!Everyone |-> b]
      /\ j = [t \in Card!Everyone |-> [set |-> 0, timed |-> FALSE]]
      /\ d = [n \in Card!Ring |-> FALSE] /\ e = [n \in Card!Ring |-> "none"]
  BY DEF Card!Init
<1>4. Card!TypeOK
  <2>1. 0 \in Card!Ring
    BY NetSizes DEF Card!Ring
  <2>2. at \in [Card!Everyone -> {Card!InUser, Card!Interrupt} \cup Card!Checking]
    BY <1>3
  <2>3. /\ b \in Card!Registers
        /\ c \in [Card!Everyone -> Card!Registers] /\ j \in [Card!Everyone -> Card!Timed]
    BY <1>3 DEF Card!Registers, Card!Timed, Card!Time
  <2>6. /\ d \in [Card!Ring -> BOOLEAN] /\ e \in [Card!Ring -> {"none", "broadcast", "other"}]
    BY <1>3
  <2>4. current \in Card!Everyone /\ a \in Seq(Card!Everyone)
    BY <1>3 DEF Card!Everyone
  <2>5. QED  BY <1>2, <1>3, <2>1, <2>2, <2>3, <2>4, <2>6 DEF Card!TypeOK
<1>5. Card!Manned /\ Card!Saves /\ Card!NoLostWakeUp
  BY <1>3, PlacesDiffer DEF Card!Manned, Card!Saves, Card!Kept, Card!NoLostWakeUp
<1>6. Card!Receiving
  <2>1. at[Receiver] = Card!Interrupt
    BY <1>3, NetSizes DEF Card!Everyone
  <2>2. QED  BY <2>1, PlacesDiffer DEF Card!Receiving
<1>7. QED  BY <1>4, <1>5, <1>6 DEF Card!NetInv

LEMMA UserStepKeeps ==
  ASSUME Card!NetInv, Card!UserStep
  PROVE  Card!NetInv'
<1>1. /\ at[current] = Card!InUser /\ b' = [v0 |-> 1 - b.rest, rest |-> 1 - b.rest]
      /\ j' = [j EXCEPT ![current] = [set |-> b'.rest, timed |-> FALSE]]
      /\ UNCHANGED <<ready, current, a, at, d, e, f, k, g, c>>
  BY DEF Card!UserStep, Card!taskVars, Card!cardVars
<1>2. Card!TypeOK'
  <2>1. b' \in Card!Registers
    BY <1>1 DEF Card!NetInv, Card!TypeOK, Card!Registers, Card!Time
  <2>4. [set |-> b'.rest, timed |-> FALSE] \in Card!Timed
    BY <2>1 DEF Card!Registers, Card!Timed
  <2>2. j' \in [Card!Everyone -> Card!Timed]
    BY <1>1, <2>4 DEF Card!NetInv, Card!TypeOK
  <2>3. QED  BY <1>1, <2>1, <2>2 DEF Card!NetInv, Card!TypeOK
<1>3. Card!Saves'
  <2>1. \A t \in Card!Everyone :
           j'[t] = IF t = current THEN [set |-> b'.rest, timed |-> FALSE] ELSE j[t]
    BY <1>1 DEF Card!NetInv, Card!TypeOK
  <2>2. \A t \in Card!Everyone : Card!Kept(t)' = IF t = current THEN b' ELSE Card!Kept(t)
    BY <1>1, <2>1 DEF Card!Kept
  <2>3. QED  BY <1>1, <2>2 DEF Card!NetInv, Card!Saves
<1>4. Card!Manned' /\ Card!Receiving' /\ Card!NoLostWakeUp'
  BY <1>1 DEF Card!NetInv, Card!Manned, Card!Receiving, Card!NoLostWakeUp
<1>5. QED  BY <1>2, <1>3, <1>4 DEF Card!NetInv

LEMMA ArriveKeeps ==
  ASSUME Card!NetInv, NEW kind \in {"broadcast", "other"}, Card!Arrive(kind)
  PROVE  Card!NetInv'
<1>1. /\ d[f] /\ d' = [d EXCEPT ![f] = FALSE] /\ e' = [e EXCEPT ![f] = kind]
      /\ f' = (f + 1) % PNUM /\ g' = TRUE
      /\ UNCHANGED <<ready, current, a, at, b, c, j>>
  BY DEF Card!Arrive, Card!taskVars, Card!regVars
<1>2. f' \in Card!Ring
  BY <1>1, NetSizes DEF Card!NetInv, Card!TypeOK, Card!Ring
<1>3. Card!TypeOK'
  BY <1>1, <1>2 DEF Card!NetInv, Card!TypeOK
<1>4. \A n \in Card!Ring : d'[n] => d[n]
  BY <1>1 DEF Card!NetInv, Card!TypeOK
<1>5. Card!Receiving'
  <2> SUFFICES ASSUME NEW n \in 0 .. PNUM, at[Receiver] = <<"check", n>>, Receiver \notin Members(a)
               PROVE  /\ \A m \in Card!Ring : m < n => ~ d'[m]
                      /\ current # Receiver => \A m \in Card!Ring : ~ d'[m] /\ e'[m] = "broadcast"
    BY <1>1, SameOperators DEF Card!Receiving, Card!Ring
  <2>1. \A m \in Card!Ring : m < n => ~ d[m]
    BY SameOperators DEF Card!NetInv, Card!Receiving
  <2>2. current = Receiver
    BY <1>1, SameOperators DEF Card!NetInv, Card!Receiving, Card!TypeOK
  <2>3. QED  BY <1>4, <2>1, <2>2
<1>6. Card!Manned' /\ Card!Saves' /\ Card!NoLostWakeUp'
  BY <1>1 DEF Card!NetInv, Card!Manned, Card!Saves, Card!Kept, Card!NoLostWakeUp
<1>7. QED  BY <1>3, <1>5, <1>6 DEF Card!NetInv

\* What an interrupt does with the task it takes the processor from.
LEMMA Enters ==
  ASSUME Card!NetInv, at[current] = Card!InUser,
         NEW place, place # Card!InUser, at' = [at EXCEPT ![current] = place]
  PROVE  /\ Card!Saved \in [Card!Everyone -> Card!Registers]
         /\ \A t \in Card!Everyone : at'[t] # Card!InUser /\ Card!Saved[t] = Card!Kept(t)
<1>1. \A t \in Card!Everyone : /\ Card!Saved[t] = IF t = current THEN b ELSE c[t]
                               /\ at'[t] = IF t = current THEN place ELSE at[t]
  BY DEF Card!NetInv, Card!TypeOK, Card!Saved
<1>2. \A t \in Card!Everyone : at'[t] # Card!InUser /\ Card!Saved[t] = Card!Kept(t)
  BY <1>1 DEF Card!NetInv, Card!Saves
<1>3. Card!Saved \in [Card!Everyone -> Card!Registers]
  BY DEF Card!NetInv, Card!TypeOK, Card!Saved
<1>4. QED  BY <1>2, <1>3

\* The same for one that keeps the processor.
LEMMA EntersAndStays ==
  ASSUME Card!NetInv, at[current] = Card!InUser, c' = Card!Saved, UNCHANGED <<b, j>>,
         NEW place, place # Card!InUser, at' = [at EXCEPT ![current] = place]
  PROVE  /\ c' \in [Card!Everyone -> Card!Registers]
         /\ Card!Saves'
<1>1. /\ c' \in [Card!Everyone -> Card!Registers]
      /\ \A t \in Card!Everyone : at'[t] # Card!InUser /\ c'[t] = Card!Kept(t)
  BY Enters
<1>2. \A t \in Card!Everyone : Card!Kept(t)' = Card!Kept(t)
  BY DEF Card!Kept
<1>3. QED  BY <1>1, <1>2 DEF Card!Saves, Card!Everyone, Card!InUser

LEMMA TimerInterruptKeeps ==
  ASSUME Card!NetInv, Card!TimerInterrupt
  PROVE  Card!NetInv'
<1> DEFINE me == <<current>>
<1>1. /\ at[current] = Card!InUser /\ at' = [at EXCEPT ![current] = Card!Interrupt]
      /\ Card!Switch(me, Card!Saved) /\ UNCHANGED <<a, d, e, f, k, g, b>>
  BY DEF Card!TimerInterrupt, Card!cardVars
<1>2. me \in Seq(Card!Everyone) /\ Members(me) = {current}
  BY DEF Card!NetInv, Card!TypeOK, Members
<1>3. Idle \in Members(ready) \cup Members(me) /\ Card!TypeOK
  BY <1>2, SameOperators DEF Card!NetInv, Card!Manned
<1> HIDE DEF me
<1>4. /\ current' \in Card!Everyone /\ ready' \in Seq(Card!Everyone)
      /\ Idle \in Members(ready') \cup {current'}
  BY <1>1, <1>2, <1>3, SwitchMans
<1>5. /\ c' \in [Card!Everyone -> Card!Registers] /\ j' \in [Card!Everyone -> Card!Timed]
      /\ Card!Saves'
  <2>1. /\ Card!Saved \in [Card!Everyone -> Card!Registers]
        /\ \A t \in Card!Everyone : at'[t] # Card!InUser /\ Card!Saved[t] = Card!Kept(t)
    BY <1>1, PlacesDiffer, Enters
  <2>2. /\ c' \in [Card!Everyone -> Card!Registers] /\ j' \in [Card!Everyone -> Card!Timed]
        /\ \A t \in Card!Everyone : Card!Saved[t] = Card!Kept(t) => c'[t] = Card!Kept(t)'
    BY <1>1, <1>3, <2>1, SwitchKeeps
  <2>3. QED  BY <2>1, <2>2 DEF Card!Saves, Card!Everyone, Card!InUser
<1>6. \A t \in Card!Everyone : at'[t] = IF t = current THEN Card!Interrupt ELSE at[t]
  BY <1>1 DEF Card!NetInv, Card!TypeOK
<1>7. at' \in [Card!Everyone -> {Card!InUser, Card!Interrupt} \cup Card!Checking]
  BY <1>1 DEF Card!NetInv, Card!TypeOK
<1>8. Card!TypeOK'
  BY <1>1, <1>4, <1>5, <1>7 DEF Card!NetInv, Card!TypeOK
<1>9. Card!Manned'
  BY <1>4, <1>6, PlacesDiffer, SameOperators DEF Card!NetInv, Card!Manned
<1>10. Card!Receiving'
  <2> SUFFICES ASSUME NEW n \in 0 .. PNUM, at'[Receiver] = <<"check", n>>, Receiver \notin Members(a)
               PROVE  \A m \in Card!Ring : ~ d[m] /\ e[m] = "broadcast"
    BY <1>1, SameOperators DEF Card!Receiving, Card!Ring
  <2>1. Receiver # current /\ at[Receiver] = <<"check", n>>
    BY <1>6, NetSizes, PlacesDiffer DEF Card!Everyone
  <2>2. QED  BY <2>1, SameOperators DEF Card!NetInv, Card!Receiving
<1>11. Card!NoLostWakeUp'
  BY <1>1 DEF Card!NetInv, Card!NoLostWakeUp, Card!Ring
<1>12. QED  BY <1>5, <1>8, <1>9, <1>10, <1>11 DEF Card!NetInv

\* Back in user code with the registers of the save area.
LEMMA Leaves ==
  ASSUME Card!NetInv, at[current] # Card!InUser, b' = Card!Restored, UNCHANGED <<c, j, current>>,
         at' = [at EXCEPT ![current] = Card!InUser]
  PROVE  /\ b' \in Card!Registers /\ at' \in [Card!Everyone -> {Card!InUser, Card!Interrupt} \cup Card!Checking]
         /\ Card!Saves'
<1>1. \A t \in Card!Everyone : at'[t] = IF t = current THEN Card!InUser ELSE at[t]
  BY DEF Card!NetInv, Card!TypeOK
<1>2. current \in Card!Everyone /\ b' = c[current] /\ b' \in Card!Registers
  BY DEF Card!NetInv, Card!TypeOK, Card!Restored
<1>3. at' \in [Card!Everyone -> {Card!InUser, Card!Interrupt} \cup Card!Checking]
  BY DEF Card!NetInv, Card!TypeOK
<1>4. \A t \in Card!Everyone : IF t = current /\ at'[t] = Card!InUser
                               THEN b' = Card!Kept(t) ELSE at'[t] # Card!InUser /\ c[t] = Card!Kept(t)
  BY <1>1, <1>2 DEF Card!NetInv, Card!Saves
<1>6. \A t \in Card!Everyone : Card!Kept(t)' = Card!Kept(t)
  BY DEF Card!Kept
<1>5. QED  BY <1>2, <1>3, <1>4, <1>6 DEF Card!Saves, Card!Everyone, Card!InUser

\* Nobody is at another check than before, and the ring is as it was.
LEMMA SameChecks ==
  ASSUME Card!NetInv, UNCHANGED <<ready, current, a, d, e, f, g>>,
         at' = [at EXCEPT ![current] = Card!InUser],
         b' \in Card!Registers, UNCHANGED <<c, j>>,
         at' \in [Card!Everyone -> {Card!InUser, Card!Interrupt} \cup Card!Checking]
  PROVE  Card!TypeOK' /\ Card!Manned' /\ Card!Receiving' /\ Card!NoLostWakeUp'
<1>1. \A t \in Card!Everyone : at'[t] = IF t = current THEN Card!InUser ELSE at[t]
  BY DEF Card!NetInv, Card!TypeOK
<1>2. Card!TypeOK'
  BY DEF Card!NetInv, Card!TypeOK
<1>3. Card!Manned'
  BY <1>1, PlacesDiffer DEF Card!NetInv, Card!Manned
<1>4. Card!Receiving'
  <2> SUFFICES ASSUME NEW n \in 0 .. PNUM, at'[Receiver] = <<"check", n>>, Receiver \notin Members(a)
               PROVE  /\ \A m \in Card!Ring : m < n => ~ d[m]
                      /\ \A m \in Card!Ring : ~ d[m] => e[m] = "broadcast" \/ g
                      /\ current # Receiver => \A m \in Card!Ring : ~ d[m] /\ e[m] = "broadcast"
    BY SameOperators DEF Card!Receiving, Card!Ring
  <2>1. at[Receiver] = <<"check", n>>
    BY <1>1, NetSizes, PlacesDiffer DEF Card!Everyone
  <2>2. QED  BY <2>1, SameOperators DEF Card!NetInv, Card!Receiving
<1>5. Card!NoLostWakeUp'
  BY DEF Card!NetInv, Card!NoLostWakeUp, Card!Ring
<1>6. QED  BY <1>2, <1>3, <1>4, <1>5

LEMMA LeaveInterruptKeeps ==
  ASSUME Card!NetInv, Card!LeaveInterrupt
  PROVE  Card!NetInv'
<1>1. /\ at[current] = Card!Interrupt /\ at' = [at EXCEPT ![current] = Card!InUser]
      /\ b' = Card!Restored /\ UNCHANGED <<ready, current, a, d, e, f, k, g, c, j>>
  BY DEF Card!LeaveInterrupt, Card!cardVars
<1>2. at[current] # Card!InUser
  BY <1>1, PlacesDiffer
<1>3. QED  BY <1>1, <1>2, Leaves, SameChecks DEF Card!NetInv

LEMMA LeaveCallKeeps ==
  ASSUME Card!NetInv, Card!LeaveCall
  PROVE  Card!NetInv'
<1>1. /\ at[current] = <<"check", PNUM>> /\ at' = [at EXCEPT ![current] = Card!InUser]
      /\ b' = Card!Restored /\ UNCHANGED <<ready, current, a, d, e, f, k, g, c, j>>
  BY DEF Card!LeaveCall, Card!cardVars
<1>2. at[current] # Card!InUser
  BY <1>1, NetSizes, PlacesDiffer
<1>3. QED  BY <1>1, <1>2, Leaves, SameChecks DEF Card!NetInv

LEMMA CardInterruptKeeps ==
  ASSUME Card!NetInv, Card!CardInterrupt
  PROVE  Card!NetInv'
<1>1. /\ at[current] = Card!InUser /\ c' = Card!Saved /\ at' = [at EXCEPT ![current] = Card!Interrupt]
      /\ g' = FALSE /\ d' = Card!RingAfter
      /\ ready' = IF Card!AllFilled THEN ready \o a ELSE ready
      /\ a' = IF Card!AllFilled THEN <<>> ELSE a
      /\ UNCHANGED <<current, e, f, k, b, j>>
  BY DEF Card!CardInterrupt
<1>2. /\ ready \in Seq(Card!Everyone) /\ a \in Seq(Card!Everyone)
      /\ d \in [Card!Ring -> BOOLEAN]
  BY DEF Card!NetInv, Card!TypeOK
<1>3. ready' \in Seq(Card!Everyone) /\ a' \in Seq(Card!Everyone) /\ Members(ready) \subseteq Members(ready')
  BY <1>1, <1>2, ConcatFacts
<1>4. c' \in [Card!Everyone -> Card!Registers] /\ Card!Saves'
  BY <1>1, PlacesDiffer, EntersAndStays
<1>5. \A t \in Card!Everyone : at'[t] = IF t = current THEN Card!Interrupt ELSE at[t]
  BY <1>1 DEF Card!NetInv, Card!TypeOK
<1>6. at' \in [Card!Everyone -> {Card!InUser, Card!Interrupt} \cup Card!Checking]
  BY <1>1 DEF Card!NetInv, Card!TypeOK
<1>7. /\ d' \in [Card!Ring -> BOOLEAN]
      /\ \A m \in Card!Ring : ~ d'[m] <=> ~ d[m] /\ e[m] = "broadcast"
  BY <1>1, <1>2 DEF Card!RingAfter, Card!GivenBack
<1>8. Card!TypeOK'
  BY <1>1, <1>3, <1>4, <1>6, <1>7 DEF Card!NetInv, Card!TypeOK
<1>9. Card!Manned'
  BY <1>1, <1>3, <1>5, PlacesDiffer, SameOperators DEF Card!NetInv, Card!Manned
<1>10. Card!AllFilled <=> \A m \in Card!Ring : ~ d'[m]
  BY <1>1 DEF Card!AllFilled
<1>11. Card!Receiving'
  <2> SUFFICES ASSUME NEW n \in 0 .. PNUM, at'[Receiver] = <<"check", n>>, Receiver \notin Members(a')
               PROVE  \A m \in Card!Ring : ~ d'[m] /\ e[m] = "broadcast"
    BY <1>1, SameOperators DEF Card!Receiving, Card!Ring
  <2>1. Receiver # current /\ at[Receiver] = <<"check", n>>
    BY <1>5, NetSizes, PlacesDiffer DEF Card!Everyone
  <2>2. CASE Card!AllFilled
    BY <1>7, <1>10, <2>2
  <2>3. CASE ~ Card!AllFilled
    <3>1. \A m \in Card!Ring : ~ d[m] /\ e[m] = "broadcast"
      BY <1>1, <2>1, <2>3, SameOperators DEF Card!NetInv, Card!Receiving
    <3>2. QED  BY <1>7, <3>1
  <2>4. QED  BY <2>2, <2>3
<1>12. Card!NoLostWakeUp'
  BY <1>1, <1>10 DEF Card!NoLostWakeUp, Card!Ring
<1>13. QED  BY <1>4, <1>8, <1>9, <1>11, <1>12 DEF Card!NetInv

LEMMA RecvKeeps ==
  ASSUME Card!NetInv, Card!Recv
  PROVE  Card!NetInv'
<1>1. /\ current = Receiver /\ at[current] = Card!InUser /\ c' = Card!Saved
      /\ at' = [at EXCEPT ![current] = <<"check", 0>>]
      /\ g' = FALSE /\ d' = [n \in Card!Ring |-> TRUE] /\ f' = 0
      /\ UNCHANGED <<ready, current, a, e, k, b, j>>
  BY DEF Card!Recv
<1>2. 0 \in 0 .. PNUM /\ 0 \in Card!Ring
  BY NetSizes DEF Card!Ring
<1>3. <<"check", 0>> # Card!InUser /\ <<"check", 0>> \in Card!Checking
  BY <1>2, PlacesDiffer
<1>4. c' \in [Card!Everyone -> Card!Registers] /\ Card!Saves'
  BY <1>1, <1>3, EntersAndStays
<1>5. \A t \in Card!Everyone : at'[t] = IF t = current THEN <<"check", 0>> ELSE at[t]
  BY <1>1 DEF Card!NetInv, Card!TypeOK
<1>6. at' \in [Card!Everyone -> {Card!InUser, Card!Interrupt} \cup Card!Checking]
  BY <1>1, <1>3 DEF Card!NetInv, Card!TypeOK
<1>7. d' \in [Card!Ring -> BOOLEAN] /\ \A m \in Card!Ring : d'[m]
  BY <1>1
<1>8. Card!TypeOK'
  BY <1>1, <1>2, <1>4, <1>6, <1>7 DEF Card!NetInv, Card!TypeOK
<1>9. Card!Manned'
  BY <1>1, <1>5 DEF Card!NetInv, Card!Manned
<1>10. Card!Receiving'
  <2> SUFFICES ASSUME NEW n \in 0 .. PNUM, at'[Receiver] = <<"check", n>>
               PROVE  \A m \in Card!Ring : m < n => ~ d'[m]
    BY <1>1, <1>7 DEF Card!Receiving, Card!Ring
  <2>1. n = 0
    BY <1>1, <1>2, <1>5, NetSizes, PlacesDiffer DEF Card!Everyone
  <2>2. QED  BY <2>1, NetSizes DEF Card!Ring
<1>11. Card!NoLostWakeUp'
  BY <1>2, <1>7 DEF Card!NoLostWakeUp, Card!Ring
<1>12. QED  BY <1>4, <1>8, <1>9, <1>10, <1>11 DEF Card!NetInv

LEMMA CheckKeeps ==
  ASSUME Card!NetInv, Card!Check
  PROVE  Card!NetInv'
<1>1. PICK n \in Card!Ring :
        /\ at[current] = <<"check", n>>
        /\ at' = [at EXCEPT ![current] = <<"check", n + 1>>]
        /\ IF d[n] THEN Card!Switch(<<>>, c) /\ a' = Append(a, current)
                   ELSE UNCHANGED <<ready, current, a, c, j>>
        /\ UNCHANGED <<d, e, f, k, g, b>>
  BY DEF Card!Check, Card!cardVars
<1>2. n \in 0 .. PNUM /\ n + 1 \in 0 .. PNUM
  BY NetSizes DEF Card!Ring
<1>3. <<"check", n>> \in Card!Checking /\ <<"check", n + 1>> \in Card!Checking
  BY <1>2, PlacesDiffer
<1>4. current = Receiver /\ current \in Card!Everyone /\ at[current] # Card!InUser
  BY <1>1, <1>3, PlacesDiffer DEF Card!NetInv, Card!TypeOK, Card!Manned
<1>15. /\ Append(a, current) \in Seq(Card!Everyone)
       /\ Members(Append(a, current)) = Members(a) \cup {current}
  <2>1. a \in Seq(Card!Everyone)
    BY DEF Card!NetInv, Card!TypeOK
  <2>2. QED  BY <1>4, <2>1, AppendFacts
<1>5. \A t \in Card!Everyone : at'[t] = IF t = Receiver THEN <<"check", n + 1>> ELSE at[t]
  BY <1>1, <1>4 DEF Card!NetInv, Card!TypeOK
<1>6. at' \in [Card!Everyone -> {Card!InUser, Card!Interrupt} \cup Card!Checking]
  BY <1>1, <1>3 DEF Card!NetInv, Card!TypeOK
<1>7. /\ ready' \in Seq(Card!Everyone) /\ current' \in Card!Everyone /\ a' \in Seq(Card!Everyone)
      /\ Idle \in Members(ready') \cup {current'}
  <2>1. CASE d[n]
    <3>1. Idle \in Members(ready) /\ <<>> \in Seq(Card!Everyone) /\ Card!TypeOK /\ Card!Switch(<<>>, c)
      BY <1>1, <1>4, <2>1, NetSizes, SameOperators DEF Card!NetInv, Card!Manned
    <3>2. a' \in Seq(Card!Everyone)
      BY <1>1, <1>15, <2>1
    <3>3. /\ current' \in Card!Everyone /\ ready' \in Seq(Card!Everyone)
          /\ Idle \in Members(ready') \cup {current'}
      BY <3>1, SwitchMans
    <3>4. QED  BY <3>2, <3>3
  <2>2. CASE ~ d[n]
    BY <1>1, <2>2, SameOperators DEF Card!NetInv, Card!TypeOK, Card!Manned
  <2>3. QED  BY <2>1, <2>2
<1>16. /\ c' \in [Card!Everyone -> Card!Registers] /\ j' \in [Card!Everyone -> Card!Timed]
       /\ \A t \in Card!Everyone : c[t] = Card!Kept(t) => c'[t] = Card!Kept(t)'
  <2>1. CASE d[n]
    BY <1>1, <2>1, SwitchKeeps DEF Card!NetInv, Card!TypeOK
  <2>2. CASE ~ d[n]
    BY <1>1, <2>2 DEF Card!NetInv, Card!TypeOK, Card!Kept
  <2>3. QED  BY <2>1, <2>2
<1>8. Card!TypeOK'
  BY <1>1, <1>6, <1>7, <1>16 DEF Card!NetInv, Card!TypeOK
<1>9. Card!Manned'
  BY <1>5, <1>7, SameOperators DEF Card!NetInv, Card!Manned
<1>10. Card!Saves'
  <2>1. \A t \in Card!Everyone : at[t] # Card!InUser /\ c[t] = Card!Kept(t)
    BY <1>4 DEF Card!NetInv, Card!Saves
  <2>2. \A t \in Card!Everyone : at'[t] # Card!InUser /\ c'[t] = Card!Kept(t)'
    BY <1>3, <1>5, <1>16, <2>1, PlacesDiffer
  <2>3. QED  BY <1>1, <2>2 DEF Card!Saves, Card!Everyone, Card!InUser
<1>11. Card!Receiving'
  <2> SUFFICES ASSUME NEW m \in 0 .. PNUM, at'[Receiver] = <<"check", m>>, Receiver \notin Members(a')
               PROVE  /\ \A q \in Card!Ring : q < m => ~ d[q]
                      /\ \A q \in Card!Ring : ~ d[q] => e[q] = "broadcast" \/ g
                      /\ current' # Receiver => \A q \in Card!Ring : ~ d[q] /\ e[q] = "broadcast"
    BY <1>1, SameOperators DEF Card!Receiving, Card!Ring
  <2>1. m = n + 1
    BY <1>2, <1>4, <1>5, PlacesDiffer
  <2>2. ~ d[n] /\ current' = Receiver /\ a' = a
    <3>1. d[n] => Members(a') = Members(a) \cup {current}
      BY <1>1, <1>15
    <3>2. QED  BY <1>1, <1>4, <3>1
  <2>3. /\ \A q \in Card!Ring : q < n => ~ d[q]
        /\ \A q \in Card!Ring : ~ d[q] => e[q] = "broadcast" \/ g
    BY <1>1, <1>2, <1>4, <2>2, SameOperators DEF Card!NetInv, Card!Receiving
  <2>4. \A q \in Card!Ring : q < m => q < n \/ q = n
    BY <1>2, <2>1, NetSizes DEF Card!Ring
  <2>5. QED  BY <2>2, <2>3, <2>4
<1>12. Card!NoLostWakeUp'
  <2>1. CASE d[n]
    BY <1>1, <2>1 DEF Card!NoLostWakeUp, Card!Ring
  <2>2. CASE ~ d[n]
    BY <1>1, <2>2 DEF Card!NetInv, Card!NoLostWakeUp, Card!Ring
  <2>3. QED  BY <2>1, <2>2
<1>13. QED  BY <1>8, <1>9, <1>10, <1>11, <1>12 DEF Card!NetInv

LEMMA NetStep ==
  ASSUME Card!NetInv, Card!Next
  PROVE  Card!NetInv'
BY UserStepKeeps, ArriveKeeps, TimerInterruptKeeps, LeaveInterruptKeeps, LeaveCallKeeps,
   CardInterruptKeeps, RecvKeeps, CheckKeeps DEF Card!Next, Card!Kernel

LEMMA NetInvAlways == PartsSpec => [](part = "net" => Card!NetInv)
<1>1. InitParts => (part = "net" => Card!NetInv)
  BY NetInit DEF InitParts
<1>2. (part = "net" => Card!NetInv) /\ [NextOfPart]_allVars => (part = "net" => Card!NetInv)'
  <2> SUFFICES ASSUME part = "net" => Card!NetInv, [NextOfPart]_allVars, part' = "net"
               PROVE  Card!NetInv'
    OBVIOUS
  <2>1. CASE InNet(Card!Next)
    BY <2>1, NetStep DEF InNet
  <2>2. CASE UNCHANGED allVars
    <3>1. part = "net" /\ UNCHANGED <<ready, current, at, a, b, c, d, e, f, g, j>>
      BY <2>2 DEF allVars, taskVars
    <3>2. /\ Card!TypeOK' = Card!TypeOK /\ Card!Manned' = Card!Manned
          /\ Card!NoLostWakeUp' = Card!NoLostWakeUp
      BY <3>1 DEF Card!TypeOK, Card!Manned, Card!NoLostWakeUp
    <3>3. Card!Saves' = Card!Saves /\ Card!Receiving' = Card!Receiving
      BY <3>1 DEF Card!Saves, Card!Kept, Card!Receiving
    <3>4. QED  BY <3>1, <3>2, <3>3 DEF Card!NetInv
  <2>3. part = part'
    BY <2>2 DEF NextOfPart, InLists, InProcs, InBarrier, InCond, InMailbox, InNames, InNet, allVars
  <2>4. InNet(Card!Next) \/ UNCHANGED allVars
    BY <2>3 DEF NextOfPart, InLists, InProcs, InBarrier, InCond, InMailbox, InNames
  <2>5. QED  BY <2>1, <2>2, <2>4
<1>3. QED  BY <1>1, <1>2, PTL DEF PartsSpec

\* A task finds in the registers what it left there when it was last in user code,
\* through every mixture of interrupts, switches and waits (entry.S:57-181): all but
\* v0, which get_timer overwrites when it leaves while somebody sleeps (time.c:23).
THEOREM RegistersKeptAlways == PartsSpec => []RegistersKept
<1>1. (part = "net" => Card!NetInv) => RegistersKept
  <2> SUFFICES ASSUME part = "net", Card!NetInv PROVE Card!RegistersKept
    BY DEF RegistersKept
  <2>1. current \in Card!Everyone
    BY DEF Card!NetInv, Card!TypeOK
  <2>2. QED  BY <2>1 DEF Card!NetInv, Card!Saves, Card!RegistersKept
<1>2. QED  BY <1>1, NetInvAlways, PTL

\* do_net_recv returns with a frame in every buffer, and nobody waits for frames that
\* are all there (mac.c: mac_recv_handle, mac_irq_handle).
THEOREM ReturnsFramesAlways == PartsSpec => []ReturnsFrames
<1>1. (part = "net" => Card!NetInv) => ReturnsFrames
  <2> SUFFICES ASSUME part = "net", Card!NetInv PROVE Card!ReturnsFrames /\ Card!NoLostWakeUp
    BY DEF ReturnsFrames
  <2>1. PNUM \in 0 .. PNUM /\ \A m \in Card!Ring : m < PNUM
    BY NetSizes DEF Card!Ring
  <2>2. QED  BY <2>1 DEF Card!NetInv, Card!Receiving, Card!ReturnsFrames
<1>3. QED  BY <1>1, NetInvAlways, PTL

-----------------------------------------------------------------------------
(* The barrier *)


BarLine == waiting[Bar]

BarrierTyped ==
  /\ ready \in Seq(Everyone)
  /\ current \in Everyone
  /\ waiting \in [Object -> Seq(Task)]
  /\ nowNum \in Nat
  /\ arrived \in [Task -> Nat]

\* Everybody is in one place, and the idle task never waits.
BarrierPlaces ==
  /\ Distinct(ready) /\ current \notin Members(ready)
  /\ Idle \in Members(ready) \cup {current}
  /\ Distinct(BarLine)
  /\ Members(BarLine) \cap (Members(ready) \cup {current}) = {}

\* All tasks have returned equally often.
BarrierEven ==
  Cardinality(Task) = Goal =>
    /\ \A t \in Members(BarLine) : arrived[t] >= 1
    /\ \A t, u \in Task : Returned(t) = Returned(u)

BarrierInv == BarrierTyped /\ BarrierPlaces /\ CountsWaiters /\ BarrierEven

-----------------------------------------------------------------------------
\* The switch to the next task keeps everybody in one place.
LEMMA SwitchFacts ==
  ASSUME NEW rd \in Seq(Everyone), rd # <<>>, Distinct(rd)
  PROVE  /\ Head(rd) \in Everyone /\ Tail(rd) \in Seq(Everyone)
         /\ Distinct(Tail(rd)) /\ Head(rd) \notin Members(Tail(rd))
         /\ Members(Tail(rd)) \cup {Head(rd)} = Members(rd)
<1>1. Members(rd) = {Head(rd)} \cup Members(Tail(rd))
  BY TailFacts
<1>2. QED  BY <1>1, TailFacts

LEMMA LengthIsSize ==
  ASSUME NEW S, NEW s \in Seq(S), Distinct(s)
  PROVE  IsFiniteSet(Members(s)) /\ Cardinality(Members(s)) = Len(s)
<1>1. Len(s) \in Nat /\ DOMAIN s = 1..Len(s)
  OBVIOUS
<1>2. s \in Bijection(1..Len(s), Members(s))
  BY <1>1 DEF Bijection, Injection, Surjection, IsInjective, Members, Distinct
<1>3. IsFiniteSet(1..Len(s)) /\ Cardinality(1..Len(s)) = Len(s)
  <2>1. 1 \in Int /\ Len(s) \in Int
    BY <1>1
  <2>2. /\ IsFiniteSet(1..Len(s))
        /\ Cardinality(1..Len(s)) = IF 1 > Len(s) THEN 0 ELSE Len(s) - 1 + 1
    BY <2>1, FS_Interval
  <2>3. QED  BY <1>1, <2>2
<1>4. QED
  <2>1. ExistsBijection(1..Len(s), Members(s)) /\ IsFiniteSet(1..Len(s))
    BY <1>2, <1>3 DEF ExistsBijection
  <2>2. /\ IsFiniteSet(Members(s))
        /\ Cardinality(Members(s)) = Cardinality(1..Len(s))
    BY <2>1, FS_Bijection
  <2>3. QED  BY <1>3, <2>2

LEMMA BarrierInitially == Init => BarrierInv
<1> SUFFICES ASSUME Init PROVE BarrierInv
  OBVIOUS
<1> USE TasksAssumption, BarrierAssumption
<1>1. BarLine = <<>> /\ Members(BarLine) = {}
  BY DEF Init, InitTasks, BarLine, Members
<1>2. /\ ready \in Seq(Task) /\ Distinct(ready)
      /\ Members(ready) \subseteq Task
  <2>1. Cardinality(Task) \in Nat
    BY FS_CardinalityType
  <2>2. ready \in [1..Cardinality(Task) -> Task] /\ Distinct(ready)
    BY DEF Init, InitTasks
  <2>3. QED  BY <2>1, <2>2 DEF Members
<1>3. BarrierTyped
  BY <1>2 DEF Init, InitTasks, BarrierTyped, Everyone
<1>4. BarrierPlaces
  BY <1>1, <1>2 DEF Init, InitTasks, BarrierPlaces, Distinct
<1>5. CountsWaiters
  BY <1>1 DEF Init, CountsWaiters, BarLine
<1>6. BarrierEven
  BY <1>1 DEF Init, BarrierEven, Returned, BarLine
<1>7. QED  BY <1>3, <1>4, <1>5, <1>6 DEF BarrierInv

LEMMA BarrierTimer ==
  ASSUME BarrierInv, Timer, UNCHANGED <<nowNum, arrived>>
  PROVE  BarrierInv'
<1> DEFINE me == <<current>>
           rd == ready \o me
<1>1. me \in Seq(Everyone) /\ Distinct(me) /\ Members(me) = {current}
  BY DEF BarrierInv, BarrierTyped, Distinct, Members
<1>2. /\ rd \in Seq(Everyone) /\ rd # <<>> /\ Distinct(rd)
      /\ Members(rd) = Members(ready) \cup {current}
  <2>1. /\ rd \in Seq(Everyone) /\ Distinct(rd)
        /\ Members(rd) = Members(ready) \cup {current}
    <3>1. /\ ready \in Seq(Everyone) /\ Distinct(ready)
          /\ Members(ready) \cap Members(me) = {}
      BY <1>1 DEF BarrierInv, BarrierTyped, BarrierPlaces
    <3> HIDE DEF me
    <3>2. QED  BY <1>1, <3>1, ConcatFacts
  <2> HIDE DEF rd
  <2>2. rd # <<>>
    BY <2>1 DEF Members
  <2>3. QED  BY <2>1, <2>2
<1>3. current' = Head(rd) /\ ready' = Tail(rd) /\ waiting' = waiting
  BY DEF Timer, Switch
<1> HIDE DEF rd
<1>4. /\ current' \in Everyone /\ ready' \in Seq(Everyone)
      /\ Distinct(ready') /\ current' \notin Members(ready')
      /\ Members(ready') \cup {current'} = Members(ready) \cup {current}
  BY <1>2, <1>3, SwitchFacts
<1>5. BarLine' = BarLine
  BY <1>3 DEF BarLine
<1>6. BarrierTyped' /\ BarrierPlaces' /\ CountsWaiters' /\ BarrierEven'
  BY <1>3, <1>4, <1>5 DEF BarrierInv, BarrierTyped, BarrierPlaces, CountsWaiters, BarrierEven, Returned, BarLine
<1>7. QED  BY <1>6 DEF BarrierInv

LEMMA BarrierWaits ==
  ASSUME BarrierInv, BarrierWait, WaitForOthers
  PROVE  BarrierInv'
<1> USE TasksAssumption, BarrierAssumption
<1>1. /\ current \in Task /\ current # Idle
      /\ arrived' = [arrived EXCEPT ![current] = @ + 1]
      /\ nowNum + 1 < Goal /\ nowNum' = nowNum + 1
      /\ waiting' = [waiting EXCEPT ![Bar] = Append(@, current)]
  BY DEF BarrierWait, WaitForOthers, Last, Block, Switch, BarrierInv, BarrierTyped
<1>2. BarLine \in Seq(Task) /\ BarLine' = Append(BarLine, current)
  BY <1>1 DEF BarrierInv, BarrierTyped, BarLine
<1>3. /\ BarLine' \in Seq(Task) /\ Distinct(BarLine')
      /\ Members(BarLine') = Members(BarLine) \cup {current}
      /\ Len(BarLine') = Len(BarLine) + 1
      /\ current \notin Members(BarLine)
  BY <1>1, <1>2, AppendFacts DEF BarrierInv, BarrierPlaces
<1>4. ready \o <<>> = ready /\ ready # <<>>
  BY <1>1 DEF BarrierInv, BarrierTyped, BarrierPlaces, Members
<1>5. current' = Head(ready) /\ ready' = Tail(ready)
  BY <1>4 DEF BarrierWait, WaitForOthers, Block, Switch
<1>6. /\ current' \in Everyone /\ ready' \in Seq(Everyone)
      /\ Distinct(ready') /\ current' \notin Members(ready')
      /\ Members(ready') \cup {current'} = Members(ready)
  BY <1>4, <1>5, SwitchFacts DEF BarrierInv, BarrierTyped, BarrierPlaces
<1>7. BarrierTyped'
  BY <1>1, <1>6 DEF BarrierInv, BarrierTyped
<1>8. BarrierPlaces'
  BY <1>1, <1>3, <1>6 DEF BarrierInv, BarrierPlaces
<1>9. CountsWaiters'
  BY <1>1, <1>3 DEF BarrierInv, CountsWaiters, BarLine
<1>10. \A t \in Task : Returned(t)' = Returned(t)
  BY <1>1, <1>3 DEF BarrierInv, BarrierTyped, Returned, BarLine
<1>11. BarrierEven'
  <2> SUFFICES ASSUME Cardinality(Task) = Goal
               PROVE  /\ \A t \in Members(BarLine') : arrived'[t] >= 1
                      /\ \A t, u \in Task : Returned(t)' = Returned(u)'
    BY DEF BarrierEven
  <2>1. \A t \in Members(BarLine) : t \in Task /\ arrived[t] >= 1
    BY <1>2 DEF BarrierInv, BarrierEven, Members
  <2>2. \A t \in Members(BarLine') : arrived'[t] >= 1
    BY <1>1, <1>3, <2>1 DEF BarrierInv, BarrierTyped
  <2>3. QED  BY <1>10, <2>2 DEF BarrierInv, BarrierEven
<1>12. QED  BY <1>7, <1>8, <1>9, <1>11 DEF BarrierInv

\* The last task to arrive and those in the queue are all there are.
LEMMA EverybodyArrived ==
  ASSUME BarrierInv, current \in Task, Last, Cardinality(Task) = Goal
  PROVE  Task = Members(BarLine) \cup {current}
<1> USE TasksAssumption, BarrierAssumption
<1>1. /\ BarLine \in Seq(Task) /\ Distinct(BarLine) /\ current \notin Members(BarLine)
      /\ Len(BarLine) = Goal - 1
  BY DEF BarrierInv, BarrierTyped, BarrierPlaces, CountsWaiters, BarLine, Last
<1>2. IsFiniteSet(Members(BarLine)) /\ Cardinality(Members(BarLine)) = Goal - 1
  BY <1>1, LengthIsSize
<1>3. /\ Members(BarLine) \cup {current} \subseteq Task
      /\ IsFiniteSet(Members(BarLine) \cup {current})
      /\ Cardinality(Members(BarLine) \cup {current}) = Goal
  <2>1. Cardinality(Members(BarLine) \cup {current}) = Goal - 1 + 1
    <3>1. Cardinality(Members(BarLine) \cup {current}) = Cardinality(Members(BarLine)) + 1
      BY <1>1, <1>2, FS_AddElement
    <3>2. QED  BY <1>2, <3>1
  <2>2. Members(BarLine) \subseteq Task
    BY <1>1 DEF Members
  <2>3. QED  BY <1>2, <2>1, <2>2, FS_AddElement
<1>4. QED  BY <1>3, FS_Subset

LEMMA BarrierOpens ==
  ASSUME BarrierInv, BarrierWait, Open
  PROVE  BarrierInv'
<1> USE TasksAssumption, BarrierAssumption
<1> DEFINE me == <<current>>
           both == ready \o BarLine
           rd == both \o me
<1>1. /\ current \in Task
      /\ arrived' = [arrived EXCEPT ![current] = @ + 1]
      /\ Last /\ nowNum' = 0
      /\ waiting' = [waiting EXCEPT ![Bar] = <<>>]
      /\ current' = Head(rd) /\ ready' = Tail(rd)
  BY DEF BarrierWait, Open, Switch, NoneLeft, BarLine
<1>2. /\ BarLine \in Seq(Task) /\ BarLine \in Seq(Everyone)
      /\ ready \in Seq(Everyone) /\ current \in Everyone
  BY DEF BarrierInv, BarrierTyped, BarLine, Everyone
<1>3. /\ both \in Seq(Everyone) /\ Distinct(both)
      /\ Members(both) = Members(ready) \cup Members(BarLine)
  BY <1>2, ConcatFacts DEF BarrierInv, BarrierPlaces
<1>4. me \in Seq(Everyone) /\ Distinct(me) /\ Members(me) = {current}
  BY <1>2 DEF Distinct, Members
<1>5. /\ rd \in Seq(Everyone) /\ rd # <<>> /\ Distinct(rd)
      /\ Members(rd) = Members(ready) \cup Members(BarLine) \cup {current}
  <2>1. Members(both) \cap Members(me) = {}
    BY <1>3, <1>4 DEF BarrierInv, BarrierPlaces
  <2> HIDE DEF both, me
  <2>2. /\ rd \in Seq(Everyone) /\ Distinct(rd)
        /\ Members(rd) = Members(ready) \cup Members(BarLine) \cup {current}
    BY <1>3, <1>4, <2>1, ConcatFacts
  <2> HIDE DEF rd
  <2>3. rd # <<>>
    BY <2>2 DEF Members
  <2>4. QED  BY <2>2, <2>3
<1> HIDE DEF rd
<1>6. /\ current' \in Everyone /\ ready' \in Seq(Everyone)
      /\ Distinct(ready') /\ current' \notin Members(ready')
      /\ Members(ready') \cup {current'} = Members(rd)
  BY <1>1, <1>5, SwitchFacts
<1>7. BarLine' = <<>> /\ Members(BarLine') = {}
  BY <1>1 DEF BarrierInv, BarrierTyped, BarLine, Members
<1>8. BarrierTyped'
  BY <1>1, <1>6 DEF BarrierInv, BarrierTyped
<1>9. BarrierPlaces'
  BY <1>5, <1>6, <1>7 DEF BarrierInv, BarrierPlaces, Distinct
<1>10. CountsWaiters'
  BY <1>1, <1>7 DEF CountsWaiters, BarLine
<1>11. BarrierEven'
  <2> SUFFICES ASSUME Cardinality(Task) = Goal, NEW t \in Task, NEW u \in Task
               PROVE  Returned(t)' = Returned(u)'
    BY <1>7 DEF BarrierEven
  <2>1. Task = Members(BarLine) \cup {current}
    BY <1>1, EverybodyArrived
  <2>2. current \notin Members(BarLine)
    BY DEF BarrierInv, BarrierPlaces
  <2>3. \A v \in Task : Returned(v)' = Returned(v) + 1
    <3>1. \A v \in Task : Returned(v)' = arrived'[v]
      BY <1>7 DEF Returned, BarLine
    <3>2. \A v \in Members(BarLine) : v # current /\ arrived'[v] = arrived[v]
                                   /\ Returned(v) = arrived[v] - 1
      BY <1>1, <2>1, <2>2 DEF BarrierInv, BarrierTyped, Returned, BarLine
    <3>3. arrived'[current] = arrived[current] + 1 /\ Returned(current) = arrived[current]
      BY <1>1, <2>2 DEF BarrierInv, BarrierTyped, Returned, BarLine
    <3>4. \A v \in Task : arrived[v] \in Nat
      BY DEF BarrierInv, BarrierTyped
    <3>5. QED  BY <2>1, <3>1, <3>2, <3>3, <3>4
  <2>4. Returned(t) = Returned(u)
    BY DEF BarrierInv, BarrierEven
  <2>5. QED  BY <2>3, <2>4
<1>12. QED  BY <1>8, <1>9, <1>10, <1>11 DEF BarrierInv

LEMMA BarrierStep ==
  ASSUME BarrierInv, Next
  PROVE  BarrierInv'
BY BarrierTimer, BarrierWaits, BarrierOpens DEF Next, BarrierWait

\* The other parts leave the history of the barrier alone.
BarrierPart ==
  IF part = "barrier" THEN BarrierInv ELSE \A t \in Task : arrived[t] = 0

LEMMA BarrierAlways == PartsSpec => []BarrierPart
<1>1. InitParts => BarrierPart
  <2> SUFFICES ASSUME InitParts PROVE BarrierPart
    OBVIOUS
  <2>1. CASE part = "barrier"
    BY <2>1, BarrierInitially DEF InitParts, BarrierPart
  <2>2. CASE part # "barrier"
    BY <2>2 DEF InitParts, BarrierPart, NoRounds
  <2>3. QED  BY <2>1, <2>2
<1>2. BarrierPart /\ [NextOfPart]_allVars => BarrierPart'
  <2> SUFFICES ASSUME BarrierPart, [NextOfPart]_allVars PROVE BarrierPart'
    OBVIOUS
  <2>1. CASE InBarrier(Next)
    BY <2>1, BarrierStep DEF InBarrier, BarrierPart
  <2>2. CASE part # "barrier" /\ UNCHANGED <<part, arrived>>
    BY <2>2 DEF BarrierPart
  <2>3. CASE UNCHANGED allVars
    <3>1. UNCHANGED <<part, ready, current, waiting, at, nowNum, arrived>>
      BY <2>3 DEF allVars, taskVars, barrierVars
    <3>2. BarrierInv' = BarrierInv
      BY <3>1 DEF BarrierInv, BarrierTyped, BarrierPlaces, CountsWaiters, BarrierEven, Returned, BarLine
    <3>3. QED  BY <3>1, <3>2 DEF BarrierPart
  <2>4. InBarrier(Next) \/ UNCHANGED allVars \/ (part # "barrier" /\ UNCHANGED <<part, arrived>>)
    BY DEF NextOfPart, InLists, InProcs, InCond, InMailbox, InNames, InNet, barrierVars
  <2>5. QED  BY <2>1, <2>2, <2>3, <2>4
<1>3. QED  BY <1>1, <1>2, PTL DEF PartsSpec

\* now_num is the number of tasks that wait, and less than expect_num
\* (barrier.c:15-24).
THEOREM CountsWaitersAlways == PartsSpec => [](part = "barrier" => CountsWaiters)
<1>1. BarrierPart => (part = "barrier" => CountsWaiters)
  BY DEF BarrierPart, BarrierInv
<1>2. QED  BY <1>1, BarrierAlways, PTL

\* Nobody returns from its k-th do_barrier_wait before all have called theirs.
THEOREM TogetherAlways == PartsSpec => []Together
<1>1. BarrierPart => Together
  <2> SUFFICES ASSUME BarrierPart, Cardinality(Task) = Goal, NEW t \in Task, NEW u \in Task
               PROVE  Returned(t) <= arrived[u]
    BY DEF Together
  <2>1. CASE part = "barrier"
    <3>1. Returned(t) = Returned(u) /\ arrived[u] \in Nat
      BY <2>1 DEF BarrierPart, BarrierInv, BarrierEven, BarrierTyped
    <3>2. Returned(u) <= arrived[u]
      BY <3>1 DEF Returned
    <3>3. QED  BY <3>1, <3>2
  <2>2. CASE part # "barrier"
    BY <2>2 DEF BarrierPart, Returned
  <2>3. QED  BY <2>1, <2>2
<1>2. QED  BY <1>1, BarrierAlways, PTL

-----------------------------------------------------------------------------
(* The table of mailboxes                                                  *)

\* The calls of open that were not closed yet: the n-th of each program.
Opened(m) == {x \in User \X Nat : 1 <= x[2] /\ x[2] <= c[x[1]][m]}

\* refer counts them, so that a box with one open keeps its name.
TableInv ==
  /\ a \in [Table!Index -> Name \cup {NoName}]
  /\ b \in [Table!Index -> Nat]
  /\ c \in [User -> [Table!Index -> Nat]]
  /\ \A m \in Table!Index : IsFiniteSet(Opened(m)) /\ b[m] = Cardinality(Opened(m))
  /\ Table!OneBoxPerName

LEMMA TableInitially ==
  ASSUME Table!Init
  PROVE  TableInv
<1>1. /\ a = [m \in Table!Index |-> NoName] /\ b = [m \in Table!Index |-> 0]
      /\ c = [u \in User |-> [m \in Table!Index |-> 0]]
  BY DEF Table!Init
<1>2. \A u \in User, m \in Table!Index : c[u][m] = 0
  BY <1>1
<1>3. \A m \in Table!Index : Opened(m) = {}
  BY <1>2 DEF Opened
<1>4. \A m \in Table!Index : IsFiniteSet(Opened(m)) /\ b[m] = Cardinality(Opened(m))
  BY <1>1, <1>3, FS_EmptySet
<1>5. Table!OneBoxPerName
  BY <1>1, <1>2 DEF Table!OneBoxPerName
<1>6. c \in [User -> [Table!Index -> Nat]]
  BY <1>1
<1>7. QED  BY <1>1, <1>4, <1>5, <1>6 DEF TableInv

LEMMA OpenKeeps ==
  ASSUME TableInv, NEW u \in User, NEW n \in Name, Table!Open(u, n)
  PROVE  TableInv'
<1>1. PICK m \in Table!Index :
        /\ Table!Chosen(n, m)
        /\ a' = [a EXCEPT ![m] = n]
        /\ b' = [b EXCEPT ![m] = @ + 1]
        /\ c' = [c EXCEPT ![u][m] = @ + 1]
  BY DEF Table!Open, Table!Counted
<1>2. n # NoName
  BY KernelAssumption DEF Table!TableAssumption
<1>3. /\ a' \in [Table!Index -> Name \cup {NoName}]
      /\ b' \in [Table!Index -> Nat]
      /\ c' \in [User -> [Table!Index -> Nat]]
  BY <1>1 DEF TableInv
<1>4. \A v \in User, q \in Table!Index : c'[v][q] = IF v = u /\ q = m THEN c[v][q] + 1 ELSE c[v][q]
  BY <1>1 DEF TableInv
<1>5. ASSUME NEW q \in Table!Index
      PROVE  IsFiniteSet(Opened(q)') /\ b'[q] = Cardinality(Opened(q)')
  <2>1. CASE q # m
    <3>1. Opened(q)' = Opened(q) /\ b'[q] = b[q]
      BY <1>1, <1>4, <2>1 DEF Opened, TableInv
    <3>2. QED  BY <3>1 DEF TableInv
  <2>2. CASE q = m
    <3> DEFINE new == <<u, c[u][m] + 1>>
    <3>1. c[u][m] \in Nat
      BY DEF TableInv
    <3>2. new \in Opened(q)' /\ new \notin Opened(q)
      BY <1>4, <2>2, <3>1 DEF Opened
    <3>3. Opened(q) \subseteq Opened(q)'
      <4>1. \A x \in Opened(q) : x \in Opened(q)'
        BY <1>4 DEF Opened, TableInv
      <4>2. QED  BY <4>1
    <3>4. \A x \in Opened(q)' : x \in Opened(q) \cup {new}
      <4> SUFFICES ASSUME NEW x \in User \X Nat, 1 <= x[2], x[2] <= c'[x[1]][q], x \notin Opened(q)
                   PROVE  x = new
        BY DEF Opened
      <4>1. x[1] = u /\ x[2] <= c[u][m] + 1 /\ ~ (x[2] <= c[u][m])
        BY <1>4, <2>2 DEF Opened, TableInv
      <4>2. x[2] = c[u][m] + 1
        BY <3>1, <4>1
      <4>3. QED  BY <4>1, <4>2
    <3>5. Opened(q)' = Opened(q) \cup {new}
      BY <3>2, <3>3, <3>4
    <3>6. b'[q] = b[q] + 1
      BY <1>1, <2>2 DEF TableInv
    <3> HIDE DEF new
    <3>7. IsFiniteSet(Opened(q)) /\ b[q] = Cardinality(Opened(q))
      BY DEF TableInv
    <3>8. /\ IsFiniteSet(Opened(q) \cup {new})
          /\ Cardinality(Opened(q) \cup {new}) = Cardinality(Opened(q)) + 1
      BY <3>2, <3>7, FS_AddElement
    <3>9. QED  BY <3>5, <3>6, <3>7, <3>8
  <2>3. QED  BY <2>1, <2>2
<1>6. Table!OneBoxPerName'
  <2>1. \A q \in Table!Index : a'[q] = IF q = m THEN n ELSE a[q]
    BY <1>1 DEF TableInv
  <2>2. \A q \in Table!Index : q # m => a[q] # n
    BY <1>1, <1>2 DEF Table!Chosen, TableInv, Table!OneBoxPerName
  <2>3. \A p, q \in Table!Index : a'[p] = a'[q] /\ p # q => a'[p] = NoName
    BY <2>1, <2>2 DEF TableInv, Table!OneBoxPerName
  <2>4. \A v \in User, q \in Table!Index : c'[v][q] > 0 => a'[q] # NoName
    <3> SUFFICES ASSUME NEW v \in User, NEW q \in Table!Index, c'[v][q] > 0 PROVE a'[q] # NoName
      OBVIOUS
    <3>1. CASE q = m
      BY <1>2, <2>1, <3>1
    <3>2. CASE q # m
      BY <1>4, <2>1, <3>2 DEF TableInv, Table!OneBoxPerName
    <3>3. QED  BY <3>1, <3>2
  <2>5. QED  BY <2>3, <2>4 DEF Table!OneBoxPerName, Table!Index
<1>7. QED  BY <1>3, <1>5, <1>6 DEF TableInv, Table!Index

LEMMA CloseKeeps ==
  ASSUME TableInv, NEW u \in User, NEW m \in Table!Index, Table!Close(u, m)
  PROVE  TableInv'
<1> DEFINE last == <<u, c[u][m]>>
<1>1. c[u][m] \in Nat /\ c[u][m] > 0 /\ b[m] \in Nat
  BY DEF TableInv, Table!Close
<1>2. last \in Opened(m)
  BY <1>1 DEF Opened
<1>3. IsFiniteSet(Opened(m)) /\ b[m] = Cardinality(Opened(m))
  BY DEF TableInv
<1>4. /\ IsFiniteSet(Opened(m) \ {last})
      /\ Cardinality(Opened(m) \ {last}) = Cardinality(Opened(m)) - 1
  BY <1>2, <1>3, FS_RemoveElement
<1>5. b[m] >= 1
  <2>1. Cardinality(Opened(m) \ {last}) \in Nat
    BY <1>4, FS_CardinalityType
  <2>2. QED  BY <1>1, <1>3, <1>4, <2>1
<1>6. a' = a
  BY <1>1, <1>5 DEF Table!Close, Table!Freed
<1>7. b' = [b EXCEPT ![m] = @ - 1]
  <2>1. Table!ReferLeft(b[m] - 1) = b[m] - 1
    BY <1>1, <1>5 DEF Table!ReferLeft
  <2>2. b' = [b EXCEPT ![m] = Table!ReferLeft(b[m] - 1)]
    BY DEF Table!Close
  <2>3. QED  BY <2>1, <2>2
<1>8. c' = [c EXCEPT ![u][m] = @ - 1]
  BY DEF Table!Close
<1>9. \A v \in User, q \in Table!Index : c'[v][q] = IF v = u /\ q = m THEN c[v][q] - 1 ELSE c[v][q]
  BY <1>8 DEF TableInv
<1>10. b' \in [Table!Index -> Nat]
  BY <1>1, <1>5, <1>7 DEF TableInv
<1>11. c' \in [User -> [Table!Index -> Nat]]
  <2>1. c[u][m] - 1 \in Nat
    BY <1>1
  <2>2. QED  BY <1>8, <2>1 DEF TableInv
<1>12. ASSUME NEW q \in Table!Index
       PROVE  IsFiniteSet(Opened(q)') /\ b'[q] = Cardinality(Opened(q)')
  <2>1. CASE q # m
    <3>1. Opened(q)' = Opened(q) /\ b'[q] = b[q]
      BY <1>7, <1>9, <2>1 DEF Opened, TableInv
    <3>2. QED  BY <3>1 DEF TableInv
  <2>2. CASE q = m
    <3>1. \A x \in Opened(q)' : x \in Opened(q) /\ x # last
      BY <1>1, <1>9, <2>2 DEF Opened, TableInv
    <3>2. \A x \in Opened(q) : x # last => x \in Opened(q)'
      <4> SUFFICES ASSUME NEW x \in User \X Nat, 1 <= x[2], x[2] <= c[x[1]][q], x # last
                   PROVE  x[2] <= c'[x[1]][q]
        BY DEF Opened
      <4>1. CASE x[1] = u
        <5>1. x[2] # c[u][m]
          BY <4>1
        <5>2. QED  BY <1>1, <1>9, <2>2, <4>1, <5>1
      <4>2. CASE x[1] # u
        BY <1>9, <4>2
      <4>3. QED  BY <4>1, <4>2
    <3>3. Opened(q)' = Opened(q) \ {last}
      BY <3>1, <3>2
    <3>4. b'[q] = b[q] - 1
      BY <1>7, <2>2 DEF TableInv
    <3>5. QED  BY <1>3, <1>4, <2>2, <3>3, <3>4
  <2>3. QED  BY <2>1, <2>2
<1>13. Table!OneBoxPerName'
  <2>1. \A v \in User, q \in Table!Index : c'[v][q] > 0 => c[v][q] > 0
    BY <1>9 DEF TableInv
  <2>2. QED  BY <1>6, <2>1 DEF TableInv, Table!OneBoxPerName, Table!Index
<1>14. QED  BY <1>6, <1>10, <1>11, <1>12, <1>13 DEF TableInv, Table!Index

-----------------------------------------------------------------------------
(* Where the tasks are, in the code between one block and the next         *)

\* A task is in one place, and the idle task in the ready queue or at work.
Apart(rd, cur, wt) ==
  /\ rd \in Seq(Everyone) /\ cur \in Everyone /\ wt \in [Object -> Seq(Task)]
  /\ Distinct(rd) /\ cur \notin Members(rd)
  /\ Idle \in Members(rd) \cup {cur}
  /\ \A q \in Object : Distinct(wt[q]) /\ Members(wt[q]) \cap (Members(rd) \cup {cur}) = {}
  /\ \A q, r \in Object : q # r => Members(wt[q]) \cap Members(wt[r]) = {}

FirstOf(wt, q) == IF wt[q] = <<>> THEN <<>> ELSE <<Head(wt[q])>>

LEMMA InitApart ==
  ASSUME InitTasks
  PROVE  Apart(ready, current, waiting)
<1>1. Cardinality(Task) \in Nat
  BY TasksAssumption, FS_CardinalityType
<1>2. ready \in [1 .. Cardinality(Task) -> Task] /\ Distinct(ready)
  BY DEF InitTasks
<1>3. ready \in Seq(Task) /\ Members(ready) \subseteq Task
  BY <1>1, <1>2 DEF Members
<1>4. ready \in Seq(Everyone)
  BY <1>3 DEF Everyone
<1>5. current = Idle /\ \A q \in Object : waiting[q] = <<>>
  BY DEF InitTasks
<1>6. waiting \in [Object -> Seq(Task)]
  BY DEF InitTasks
<1>7. Members(<<>>) = {} /\ Distinct(<<>>)
  BY DEF Members, Distinct
<1>8. Idle \in Everyone /\ Idle \notin Task
  BY TasksAssumption DEF Everyone
<1>9. QED  BY <1>2, <1>3, <1>4, <1>5, <1>6, <1>7, <1>8 DEF Apart

\* do_unblock_one
LEMMA WakeOne ==
  ASSUME NEW rd, NEW cur, NEW wt, Apart(rd, cur, wt), NEW q \in Object
  PROVE  /\ Apart(rd \o FirstOf(wt, q), cur, FirstLeft(wt, q))
         /\ \A r \in Object : r # q => FirstLeft(wt, q)[r] = wt[r]
         /\ Members(FirstLeft(wt, q)[q]) = Members(wt[q]) \ Members(FirstOf(wt, q))
         /\ wt[q] # <<>> => Members(FirstOf(wt, q)) = {Head(wt[q])} /\ Head(wt[q]) \in Members(wt[q])
         /\ wt[q] = <<>> => Members(FirstOf(wt, q)) = {}
<1>1. /\ rd \in Seq(Everyone) /\ wt \in [Object -> Seq(Task)] /\ wt[q] \in Seq(Task)
  BY DEF Apart
<1>2. CASE wt[q] = <<>>
  <2>1. FirstOf(wt, q) = <<>> /\ FirstLeft(wt, q) = wt
    BY <1>2 DEF FirstOf, FirstLeft
  <2>2. rd \o <<>> = rd /\ Members(<<>>) = {}
    BY <1>1 DEF Members
  <2>3. Members(wt[q]) = Members(wt[q]) \ {}
    OBVIOUS
  <2>4. QED  BY <1>2, <2>1, <2>2, <2>3
<1>3. CASE wt[q] # <<>>
  <2> DEFINE x == Head(wt[q])
             one == <<x>>
             left == [wt EXCEPT ![q] = Tail(@)]
  <2>1. FirstOf(wt, q) = one /\ FirstLeft(wt, q) = left
    BY <1>3 DEF FirstOf, FirstLeft
  <2>2. Distinct(wt[q])
    BY DEF Apart
  <2>3. /\ x \in Members(wt[q]) /\ x \in Task /\ Tail(wt[q]) \in Seq(Task)
        /\ Members(Tail(wt[q])) = Members(wt[q]) \ {x} /\ Distinct(Tail(wt[q]))
    BY <1>1, <1>3, <2>2, TailFacts
  <2>4. one \in Seq(Everyone) /\ Distinct(one) /\ Members(one) = {x}
    BY <2>3 DEF Distinct, Members, Everyone
  <2>5. \A r \in Object : left[r] = IF r = q THEN Tail(wt[q]) ELSE wt[r]
    BY <1>1
  <2>6. left \in [Object -> Seq(Task)]
    BY <1>1, <2>3
  <2>7. Members(rd) \cap {x} = {} /\ x # cur
    BY <2>3 DEF Apart
  <2> HIDE DEF one, left, x
  <2>8. /\ rd \o one \in Seq(Everyone) /\ Members(rd \o one) = Members(rd) \cup {x}
        /\ Distinct(rd \o one)
    BY <1>1, <2>4, <2>7, ConcatFacts DEF Apart
  <2>9. Apart(rd \o one, cur, left)
    <3>1. \A r \in Object : Distinct(left[r]) /\ Members(left[r]) \cap (Members(rd \o one) \cup {cur}) = {}
      <4> SUFFICES ASSUME NEW r \in Object
                   PROVE  Distinct(left[r]) /\ Members(left[r]) \cap (Members(rd \o one) \cup {cur}) = {}
        OBVIOUS
      <4>1. CASE r = q
        BY <2>3, <2>5, <2>8, <4>1 DEF Apart
      <4>2. CASE r # q
        <5>1. left[r] = wt[r] /\ x \notin Members(wt[r])
          BY <2>3, <2>5, <4>2 DEF Apart
        <5>2. QED  BY <2>8, <5>1 DEF Apart
      <4>3. QED  BY <4>1, <4>2
    <3>2. \A r, s \in Object : r # s => Members(left[r]) \cap Members(left[s]) = {}
      <4>1. \A r \in Object : Members(left[r]) \subseteq Members(wt[r])
        BY <2>3, <2>5
      <4>2. QED  BY <4>1 DEF Apart
    <3>3. QED  BY <2>6, <2>7, <2>8, <3>1, <3>2 DEF Apart
  <2>10. Members(left[q]) = Members(wt[q]) \ Members(one)
    BY <2>3, <2>4, <2>5
  <2>11. \A r \in Object : r # q => left[r] = wt[r]
    BY <2>5
  <2>12. QED  BY <1>3, <2>1, <2>3, <2>4, <2>9, <2>10, <2>11 DEF x
<1>4. QED  BY <1>2, <1>3

\* do_unblock_all
LEMMA WakeEverybody ==
  ASSUME NEW rd, NEW cur, NEW wt, Apart(rd, cur, wt), NEW q \in Object
  PROVE  /\ Apart(rd \o wt[q], cur, NoneLeft(wt, q))
         /\ \A r \in Object : NoneLeft(wt, q)[r] = IF r = q THEN <<>> ELSE wt[r]
<1>1. /\ rd \in Seq(Everyone) /\ wt \in [Object -> Seq(Task)] /\ wt[q] \in Seq(Task) /\ wt[q] \in Seq(Everyone)
  BY DEF Apart, Everyone
<1>2. /\ rd \o wt[q] \in Seq(Everyone) /\ Members(rd \o wt[q]) = Members(rd) \cup Members(wt[q])
      /\ Distinct(rd \o wt[q])
  BY <1>1, ConcatFacts DEF Apart
<1>3. \A r \in Object : NoneLeft(wt, q)[r] = IF r = q THEN <<>> ELSE wt[r]
  BY <1>1 DEF NoneLeft
<1>4. NoneLeft(wt, q) \in [Object -> Seq(Task)]
  BY <1>1 DEF NoneLeft
<1>5. Members(<<>>) = {} /\ Distinct(<<>>)
  BY DEF Members, Distinct
<1>6. cur \notin Members(wt[q])
  BY DEF Apart
<1>7. \A r \in Object : /\ Distinct(NoneLeft(wt, q)[r])
                        /\ Members(NoneLeft(wt, q)[r]) \cap (Members(rd \o wt[q]) \cup {cur}) = {}
  BY <1>2, <1>3, <1>5 DEF Apart
<1>8. \A r, s \in Object : r # s => Members(NoneLeft(wt, q)[r]) \cap Members(NoneLeft(wt, q)[s]) = {}
  BY <1>3, <1>5 DEF Apart
<1>9. QED  BY <1>2, <1>3, <1>4, <1>6, <1>7, <1>8 DEF Apart

\* do_block
Queued(wt, q, cur) == [wt EXCEPT ![q] = Append(@, cur)]

LEMMA Blocked ==
  ASSUME NEW rd, NEW cur, NEW wt, Apart(rd, cur, wt), NEW q \in Object, cur # Idle
  PROVE  /\ rd \o <<>> = rd /\ Apart(Tail(rd), Head(rd), Queued(wt, q, cur))
         /\ Members(Queued(wt, q, cur)[q]) = Members(wt[q]) \cup {cur}
         /\ \A r \in Object : r # q => Queued(wt, q, cur)[r] = wt[r]
<1> DEFINE left == [wt EXCEPT ![q] = Append(@, cur)]
<1>1. /\ rd \in Seq(Everyone) /\ rd \o <<>> = rd /\ wt \in [Object -> Seq(Task)] /\ wt[q] \in Seq(Task)
      /\ cur \in Task /\ Distinct(rd) /\ Idle \in Members(rd) /\ cur \notin Members(wt[q]) /\ Distinct(wt[q])
  BY DEF Apart, Everyone
<1>2. rd # <<>>
  BY <1>1 DEF Members
<1>3. /\ Head(rd) \in Members(rd) /\ Head(rd) \in Everyone /\ Tail(rd) \in Seq(Everyone)
      /\ Members(Tail(rd)) = Members(rd) \ {Head(rd)} /\ Distinct(Tail(rd))
  BY <1>1, <1>2, TailFacts
<1>4. /\ Append(wt[q], cur) \in Seq(Task) /\ Members(Append(wt[q], cur)) = Members(wt[q]) \cup {cur}
      /\ Distinct(Append(wt[q], cur))
  BY <1>1, AppendFacts
<1>5. \A r \in Object : left[r] = IF r = q THEN Append(wt[q], cur) ELSE wt[r]
  BY <1>1
<1>6. left \in [Object -> Seq(Task)]
  BY <1>1, <1>4
<1> HIDE DEF left
<1>7. \A r \in Object : Members(left[r]) = IF r = q THEN Members(wt[q]) \cup {cur} ELSE Members(wt[r])
  BY <1>4, <1>5
<1>8. \A r \in Object : Distinct(left[r]) /\ Members(left[r]) \cap (Members(Tail(rd)) \cup {Head(rd)}) = {}
  <2> SUFFICES ASSUME NEW r \in Object
               PROVE  Distinct(left[r]) /\ Members(left[r]) \cap (Members(Tail(rd)) \cup {Head(rd)}) = {}
    OBVIOUS
  <2>1. Members(wt[r]) \cap Members(rd) = {} /\ cur \notin Members(rd) /\ Distinct(wt[r])
    BY DEF Apart
  <2>2. Members(Tail(rd)) \cup {Head(rd)} = Members(rd)
    BY <1>3
  <2>3. Distinct(left[r])
    BY <1>4, <1>5, <2>1
  <2>4. QED  BY <1>7, <2>1, <2>2, <2>3
<1>9. \A r, s \in Object : r # s => Members(left[r]) \cap Members(left[s]) = {}
  <2> SUFFICES ASSUME NEW r \in Object, NEW s \in Object, r # s
               PROVE  Members(left[r]) \cap Members(left[s]) = {}
    OBVIOUS
  <2>1. Members(wt[r]) \cap Members(wt[s]) = {} /\ cur \notin Members(wt[r]) /\ cur \notin Members(wt[s])
    BY DEF Apart
  <2>2. QED  BY <1>7, <2>1
<1>10. Apart(Tail(rd), Head(rd), left)
  BY <1>1, <1>3, <1>6, <1>8, <1>9 DEF Apart
<1>11. \A r \in Object : r # q => left[r] = wt[r]
  BY <1>5
<1>12. QED  BY <1>1, <1>7, <1>10, <1>11 DEF left, Queued

\* do_scheduler of a task that goes on later.
LEMMA PutBack ==
  ASSUME NEW rd, NEW cur, NEW wt, Apart(rd, cur, wt)
  PROVE  Apart(Tail(rd \o <<cur>>), Head(rd \o <<cur>>), wt)
<1> DEFINE me == <<cur>>
           line == rd \o me
<1>1. me \in Seq(Everyone) /\ Distinct(me) /\ Members(me) = {cur}
  BY DEF Apart, Distinct, Members
<1>2. rd \in Seq(Everyone) /\ Distinct(rd) /\ Members(rd) \cap {cur} = {}
  BY DEF Apart
<1> HIDE DEF me
<1>3. line \in Seq(Everyone) /\ Distinct(line) /\ Members(line) = Members(rd) \cup {cur}
  BY <1>1, <1>2, ConcatFacts
<1> HIDE DEF line
<1>4. line # <<>>
  BY <1>3 DEF Members
<1>5. /\ Head(line) \in Members(line) /\ Head(line) \in Everyone /\ Tail(line) \in Seq(Everyone)
      /\ Members(Tail(line)) = Members(line) \ {Head(line)} /\ Distinct(Tail(line))
  BY <1>3, <1>4, TailFacts
<1>6. Members(Tail(line)) \cup {Head(line)} = Members(rd) \cup {cur}
  BY <1>3, <1>5
<1>7. Apart(Tail(line), Head(line), wt)
  BY <1>5, <1>6 DEF Apart
<1>8. QED  BY <1>7 DEF line, me

-----------------------------------------------------------------------------
(* Condition variables                                                     *)

\* The instance defines the operators of Queues and Tasks again.
LEMMA SameInMonitor ==
  /\ \A s : Cnd!Members(s) = Members(s)
  /\ \A q : Cnd!First(q) = FirstOf(waiting, q)
  /\ \A wt, q : Cnd!FirstLeft(wt, q) = FirstLeft(wt, q) /\ Cnd!NoneLeft(wt, q) = NoneLeft(wt, q)
  /\ Cnd!InitTasks => InitTasks
<1>1. \A s : Cnd!Members(s) = Members(s)
  BY DEF Cnd!Members, Members
<1>2. \A q : Cnd!First(q) = FirstOf(waiting, q)
  BY DEF Cnd!First, FirstOf
<1>3. \A wt, q : Cnd!FirstLeft(wt, q) = FirstLeft(wt, q) /\ Cnd!NoneLeft(wt, q) = NoneLeft(wt, q)
  BY DEF Cnd!FirstLeft, FirstLeft, Cnd!NoneLeft, NoneLeft
<1>4. \A S : Cnd!Cardinality(S) = Cardinality(S)
  BY DEF Cnd!Cardinality, Cardinality
<1>5. \A s : Cnd!Distinct(s) <=> Distinct(s)
  BY DEF Cnd!Distinct, Distinct
<1>6. Cnd!Everyone = Everyone
  BY DEF Cnd!Everyone, Everyone
<1>7. Cnd!InitTasks => InitTasks
  BY <1>4, <1>5, <1>6 DEF Cnd!InitTasks, InitTasks
<1>8. QED  BY <1>1, <1>2, <1>3, <1>7

LEMMA ApartIsOnePlace ==
  ASSUME Apart(ready, current, waiting)
  PROVE  Cnd!OnePlace
<1>1. \A s : Cnd!Distinct(s) <=> Distinct(s)
  BY DEF Cnd!Distinct, Distinct
<1>2. QED  BY <1>1, SameInMonitor DEF Apart, Cnd!OnePlace

Inside(w, line) == {t \in Task : w[t] = "inside" /\ t \notin Members(line)}

\* Who waits for the mutex has called lock or was woken from its wait.
MonitorInv ==
  /\ Apart(ready, current, waiting)
  /\ at \in [Everyone -> {"user", "inside", "reacquire"}] /\ a \in BOOLEAN
  /\ at[Idle] = "user"
  /\ \A t \in Members(waiting[Mutex]) : at[t] = "inside"
  /\ \A t \in Members(waiting[Full]) : at[t] = "reacquire"
  /\ \A t, u \in Inside(at, waiting[Mutex]) : t = u
  /\ a <=> Inside(at, waiting[Mutex]) # {}

LEMMA MonitorSizes ==
  /\ Mutex \in Object /\ Full \in Object /\ Mutex # Full
  /\ Idle \notin Task
BY KernelAssumption, TasksAssumption DEF Cnd!MonitorAssumption

LEMMA InQueueAreTasks ==
  ASSUME NEW rd, NEW cur, NEW wt, Apart(rd, cur, wt), NEW q \in Object
  PROVE  Members(wt[q]) \subseteq Task
<1>1. wt[q] \in Seq(Task)
  BY DEF Apart
<1>2. QED  BY <1>1 DEF Members

LEMMA MonitorInitially ==
  ASSUME Cnd!Init
  PROVE  MonitorInv
<1>1. InitTasks /\ a = FALSE
  BY SameInMonitor DEF Cnd!Init
<1>2. Apart(ready, current, waiting)
  BY <1>1, InitApart
<1>3. /\ waiting[Mutex] = <<>> /\ waiting[Full] = <<>> /\ Members(<<>>) = {}
      /\ at = [t \in Everyone |-> "user"]
  BY <1>1, MonitorSizes DEF InitTasks, Members
<1>4. Idle \in Everyone /\ Task \subseteq Everyone
  BY DEF Everyone
<1>5. Inside(at, waiting[Mutex]) = {}
  BY <1>3, <1>4 DEF Inside
<1>6. QED  BY <1>1, <1>2, <1>3, <1>4, <1>5 DEF MonitorInv

\* do_mutex_lock_acquire
LEMMA AcquireKeeps ==
  ASSUME MonitorInv, current \in Task, at[current] # "inside", Cnd!Acquire("inside")
  PROVE  MonitorInv'
<1>1. \A t \in Everyone : (IF t = current THEN "inside" ELSE at[t]) = [at EXCEPT ![current] = "inside"][t]
  BY DEF MonitorInv
<1>2. /\ current \notin Members(waiting[Mutex]) /\ current \notin Members(waiting[Full])
      /\ current # Idle /\ Task \subseteq Everyone /\ Idle \in Everyone
  BY MonitorSizes DEF MonitorInv, Apart, Everyone
<1>3. Members(waiting[Mutex]) \subseteq Task /\ Members(waiting[Full]) \subseteq Task
  BY InQueueAreTasks, MonitorSizes DEF MonitorInv
<1>4. [at EXCEPT ![current] = "inside"] \in [Everyone -> {"user", "inside", "reacquire"}]
  BY <1>2 DEF MonitorInv
<1>5. CASE ~ a
  <2>1. /\ a' = TRUE /\ at' = [at EXCEPT ![current] = "inside"]
        /\ UNCHANGED <<ready, current, waiting>>
    BY <1>5 DEF Cnd!Acquire
  <2>2. Inside(at, waiting[Mutex]) = {}
    BY <1>5 DEF MonitorInv
  <2>3. \A t \in Task : t \in Inside(at', waiting'[Mutex]) <=> t = current
    BY <1>1, <1>2, <2>1, <2>2 DEF Inside
  <2>4. Inside(at', waiting'[Mutex]) = {current}
    BY <2>3 DEF Inside
  <2>5. Apart(ready, current, waiting)'
    BY <2>1 DEF MonitorInv, Apart, Everyone
  <2>6. /\ \A t \in Members(waiting'[Mutex]) : at'[t] = "inside"
        /\ \A t \in Members(waiting'[Full]) : at'[t] = "reacquire"
        /\ at'[Idle] = "user"
    BY <1>1, <1>2, <1>3, <2>1 DEF MonitorInv
  <2>7. at' \in [Everyone -> {"user", "inside", "reacquire"}] /\ a' \in BOOLEAN
    BY <1>4, <2>1
  <2>8. QED  BY <2>1, <2>4, <2>5, <2>6, <2>7 DEF MonitorInv, Inside, Everyone
<1>6. CASE a
  <2>1. /\ a' = a /\ at' = [at EXCEPT ![current] = "inside"]
        /\ current' = Head(ready \o <<>>) /\ ready' = Tail(ready \o <<>>)
        /\ waiting' = Queued(waiting, Mutex, current)
    BY <1>6 DEF Cnd!Acquire, Cnd!Block, Cnd!Switch, Queued
  <2>2. /\ Apart(ready', current', waiting')
        /\ Members(waiting'[Mutex]) = Members(waiting[Mutex]) \cup {current}
        /\ waiting'[Full] = waiting[Full]
    <3>1. Apart(ready, current, waiting) /\ Mutex \in Object /\ current # Idle
      BY <1>2, MonitorSizes DEF MonitorInv
    <3>2. /\ ready \o <<>> = ready /\ Apart(Tail(ready), Head(ready), Queued(waiting, Mutex, current))
          /\ Members(Queued(waiting, Mutex, current)[Mutex]) = Members(waiting[Mutex]) \cup {current}
          /\ \A r \in Object : r # Mutex => Queued(waiting, Mutex, current)[r] = waiting[r]
      BY <3>1, Blocked
    <3>3. QED  BY <2>1, <3>2, MonitorSizes
  <2>3. /\ Members(waiting'[Mutex]) = Members(waiting[Mutex]) \cup {current}
        /\ Members(waiting'[Full]) = Members(waiting[Full])
    BY <2>2
  <2>4. \A t \in Task : t \in Inside(at', waiting'[Mutex]) <=> t \in Inside(at, waiting[Mutex])
    BY <1>1, <1>2, <2>1, <2>3 DEF Inside
  <2>5. Inside(at', waiting'[Mutex]) = Inside(at, waiting[Mutex])
    BY <2>4 DEF Inside
  <2>6. /\ \A t \in Members(waiting'[Mutex]) : at'[t] = "inside"
        /\ \A t \in Members(waiting'[Full]) : at'[t] = "reacquire"
        /\ at'[Idle] = "user"
    BY <1>1, <1>2, <1>3, <2>1, <2>3 DEF MonitorInv
  <2>7. at' \in [Everyone -> {"user", "inside", "reacquire"}] /\ a' \in BOOLEAN
    BY <1>4, <2>1 DEF MonitorInv
  <2>8. Apart(ready, current, waiting)'
    BY <2>2 DEF Apart, Everyone
  <2>9. QED  BY <2>1, <2>5, <2>6, <2>7, <2>8 DEF MonitorInv, Inside, Everyone
<1>7. QED  BY <1>5, <1>6 DEF MonitorInv

\* do_mutex_lock_release: the mutex goes to the first that waits.
LEMMA ReleaseHands ==
  ASSUME MonitorInv, at[current] = "inside",
         NEW w, NEW line, w[current] # "inside", \A t \in Task : t # current => w[t] = at[t],
         Members(line) = Members(waiting[Mutex]) \ Members(FirstOf(waiting, Mutex))
  PROVE  /\ \A t, u \in Inside(w, line) : t = u
         /\ (waiting[Mutex] # <<>>) <=> (Inside(w, line) # {})
<1>1. current \in Task /\ current \notin Members(waiting[Mutex])
  BY MonitorSizes DEF MonitorInv, Apart, Everyone
<1>2. \A t \in Inside(at, waiting[Mutex]) : t = current
  BY <1>1 DEF MonitorInv, Inside
<1>3. Members(waiting[Mutex]) \subseteq Task
  BY InQueueAreTasks, MonitorSizes DEF MonitorInv
<1>4. CASE waiting[Mutex] = <<>>
  <2>1. Members(waiting[Mutex]) = {}
    BY <1>4 DEF Members
  <2>2. \A t \in Task : t \notin Inside(w, line)
    BY <1>2, <2>1 DEF Inside
  <2>3. Inside(w, line) = {}
    BY <2>2 DEF Inside
  <2>4. QED  BY <1>4, <2>3
<1>5. CASE waiting[Mutex] # <<>>
  <2> DEFINE x == Head(waiting[Mutex])
  <2>1. Members(FirstOf(waiting, Mutex)) = {x} /\ x \in Members(waiting[Mutex])
    BY <1>5, WakeOne, MonitorSizes DEF MonitorInv
  <2> HIDE DEF x
  <2>2. x \in Task /\ x # current /\ at[x] = "inside"
    BY <1>1, <1>3, <2>1 DEF MonitorInv
  <2>3. \A t \in Task : t \in Inside(w, line) <=> t = x
    BY <1>2, <2>1, <2>2 DEF Inside
  <2>4. Inside(w, line) = {x}
    BY <2>2, <2>3 DEF Inside
  <2>5. QED  BY <1>5, <2>4
<1>6. QED  BY <1>4, <1>5

LEMMA UnlockKeeps ==
  ASSUME MonitorInv, Cnd!Unlock
  PROVE  MonitorInv'
<1>1. /\ at[current] = "inside" /\ a' = (waiting[Mutex] # <<>>)
      /\ ready' = ready \o FirstOf(waiting, Mutex)
      /\ waiting' = FirstLeft(waiting, Mutex)
      /\ at' = [at EXCEPT ![current] = "user"] /\ current' = current
  BY SameInMonitor DEF Cnd!Unlock, Cnd!KeptForFirst
<1>2. /\ Apart(ready', current', waiting')
      /\ waiting'[Full] = waiting[Full]
      /\ Members(waiting'[Mutex]) = Members(waiting[Mutex]) \ Members(FirstOf(waiting, Mutex))
  BY <1>1, WakeOne, MonitorSizes DEF MonitorInv
<1>3. current \in Everyone /\ Task \subseteq Everyone /\ Idle \in Everyone
  BY DEF MonitorInv, Apart, Everyone
<1>4. \A t \in Everyone : at'[t] = IF t = current THEN "user" ELSE at[t]
  BY <1>1 DEF MonitorInv
<1>5. at' \in [Everyone -> {"user", "inside", "reacquire"}]
  BY <1>1 DEF MonitorInv
<1>6. Members(waiting[Mutex]) \subseteq Task /\ Members(waiting[Full]) \subseteq Task
  BY InQueueAreTasks, MonitorSizes DEF MonitorInv
<1>7. /\ current \notin Members(waiting[Mutex]) /\ current \notin Members(waiting[Full])
  BY MonitorSizes DEF MonitorInv, Apart
<1>8. /\ \A t \in Members(waiting'[Mutex]) : at'[t] = "inside"
      /\ \A t \in Members(waiting'[Full]) : at'[t] = "reacquire"
      /\ at'[Idle] = "user"
  BY <1>2, <1>3, <1>4, <1>6, <1>7 DEF MonitorInv
<1>9. /\ \A t \in Task : t # current => at'[t] = at[t]
      /\ at'[current] # "inside"
  BY <1>3, <1>4
<1>10. /\ \A t, u \in Inside(at', waiting'[Mutex]) : t = u
       /\ a' <=> (Inside(at', waiting'[Mutex]) # {})
  <2>1. /\ \A t, u \in Inside(at', waiting'[Mutex]) : t = u
        /\ (waiting[Mutex] # <<>>) <=> (Inside(at', waiting'[Mutex]) # {})
    <3>1. at[current] = "inside"
      BY <1>1
    <3>2. Members(waiting'[Mutex]) = Members(waiting[Mutex]) \ Members(FirstOf(waiting, Mutex))
      BY <1>2
    <3>3. QED  BY <1>9, <3>1, <3>2, ReleaseHands
  <2>2. QED  BY <1>1, <2>1
<1>11. Apart(ready, current, waiting)'
  BY <1>2 DEF Apart, Everyone
<1>12. a' \in BOOLEAN
  BY <1>1
<1>13. QED  BY <1>5, <1>8, <1>10, <1>11, <1>12 DEF MonitorInv, Inside, Everyone

\* do_condition_wait up to its do_block.
LEMMA WaitKeeps ==
  ASSUME MonitorInv, Cnd!Wait(Full)
  PROVE  MonitorInv'
<1> DEFINE rd == ready \o FirstOf(waiting, Mutex)
           left == FirstLeft(waiting, Mutex)
<1>1. /\ at[current] = "inside" /\ a' = (waiting[Mutex] # <<>>)
      /\ current' = Head(rd \o <<>>) /\ ready' = Tail(rd \o <<>>)
      /\ waiting' = Queued(left, Full, current)
      /\ at' = [at EXCEPT ![current] = "reacquire"]
  BY SameInMonitor DEF Cnd!Wait, Cnd!WaitOn, Cnd!KeptForFirst, Cnd!Block, Cnd!Switch, Queued
<1>2. /\ Apart(rd, current, left) /\ left[Full] = waiting[Full]
      /\ Members(left[Mutex]) = Members(waiting[Mutex]) \ Members(FirstOf(waiting, Mutex))
  BY WakeOne, MonitorSizes DEF MonitorInv
<1> HIDE DEF rd, left
<1>3. current \in Everyone /\ Task \subseteq Everyone /\ Idle \in Everyone /\ current # Idle
  BY <1>1 DEF MonitorInv, Apart, Everyone
<1>4. Apart(rd, current, left) /\ Full \in Object /\ current # Idle
  BY <1>2, <1>3, MonitorSizes
<1>5. /\ rd \o <<>> = rd /\ Apart(Tail(rd), Head(rd), Queued(left, Full, current))
      /\ Members(Queued(left, Full, current)[Full]) = Members(left[Full]) \cup {current}
      /\ \A r \in Object : r # Full => Queued(left, Full, current)[r] = left[r]
  BY <1>4, Blocked
<1>6. /\ Apart(ready', current', waiting')
      /\ Members(waiting'[Mutex]) = Members(waiting[Mutex]) \ Members(FirstOf(waiting, Mutex))
      /\ Members(waiting'[Full]) = Members(waiting[Full]) \cup {current}
  BY <1>1, <1>2, <1>5, MonitorSizes
<1>7. \A t \in Everyone : at'[t] = IF t = current THEN "reacquire" ELSE at[t]
  BY <1>1 DEF MonitorInv
<1>8. at' \in [Everyone -> {"user", "inside", "reacquire"}]
  BY <1>1 DEF MonitorInv
<1>9. Members(waiting[Mutex]) \subseteq Task /\ Members(waiting[Full]) \subseteq Task
  BY InQueueAreTasks, MonitorSizes DEF MonitorInv
<1>10. current \notin Members(waiting[Mutex])
  BY MonitorSizes DEF MonitorInv, Apart
<1>11. /\ \A t \in Members(waiting'[Mutex]) : at'[t] = "inside"
       /\ \A t \in Members(waiting'[Full]) : at'[t] = "reacquire"
       /\ at'[Idle] = "user"
  BY <1>3, <1>6, <1>7, <1>9, <1>10 DEF MonitorInv
<1>12. /\ \A t \in Task : t # current => at'[t] = at[t]
       /\ at'[current] # "inside"
  BY <1>3, <1>7
<1>13. /\ \A t, u \in Inside(at', waiting'[Mutex]) : t = u
       /\ a' <=> (Inside(at', waiting'[Mutex]) # {})
  <2>1. /\ \A t, u \in Inside(at', waiting'[Mutex]) : t = u
        /\ (waiting[Mutex] # <<>>) <=> (Inside(at', waiting'[Mutex]) # {})
    <3>1. at[current] = "inside"
      BY <1>1
    <3>2. Members(waiting'[Mutex]) = Members(waiting[Mutex]) \ Members(FirstOf(waiting, Mutex))
      BY <1>6
    <3>3. QED  BY <1>12, <3>1, <3>2, ReleaseHands
  <2>2. QED  BY <1>1, <2>1
<1>14. Apart(ready, current, waiting)'
  BY <1>6 DEF Apart, Everyone
<1>15. a' \in BOOLEAN
  BY <1>1
<1>16. QED  BY <1>8, <1>11, <1>13, <1>14, <1>15 DEF MonitorInv, Inside, Everyone

\* A step that wakes others from the condition, or nobody.
LEMMA SameMutex ==
  ASSUME MonitorInv, Apart(ready', current', waiting'), UNCHANGED <<at, a>>,
         waiting'[Mutex] = waiting[Mutex], Members(waiting'[Full]) \subseteq Members(waiting[Full])
  PROVE  MonitorInv'
<1>1. Inside(at', waiting'[Mutex]) = Inside(at, waiting[Mutex])
  BY DEF Inside
<1>2. Apart(ready, current, waiting)'
  BY DEF Apart, Everyone
<1>3. QED  BY <1>1, <1>2 DEF MonitorInv, Inside, Everyone

LEMMA SignalKeeps ==
  ASSUME MonitorInv, Cnd!Signal(Full) \/ Cnd!Broadcast(Full)
  PROVE  MonitorInv'
<1>1. CASE Cnd!Signal(Full)
  <2>1. /\ ready' = ready \o FirstOf(waiting, Full) /\ waiting' = FirstLeft(waiting, Full)
        /\ UNCHANGED <<current, at, a>>
    BY <1>1, SameInMonitor DEF Cnd!Signal
  <2>2. /\ Apart(ready', current', waiting') /\ waiting'[Mutex] = waiting[Mutex]
        /\ Members(waiting'[Full]) = Members(waiting[Full]) \ Members(FirstOf(waiting, Full))
    BY <2>1, WakeOne, MonitorSizes DEF MonitorInv
  <2>3. QED  BY <2>1, <2>2, SameMutex
<1>2. CASE Cnd!Broadcast(Full)
  <2>1. /\ ready' = ready \o waiting[Full] /\ waiting' = NoneLeft(waiting, Full)
        /\ UNCHANGED <<current, at, a>>
    BY <1>2, SameInMonitor DEF Cnd!Broadcast
  <2>2. /\ Apart(ready', current', waiting') /\ waiting'[Mutex] = waiting[Mutex] /\ waiting'[Full] = <<>>
    BY <2>1, WakeEverybody, MonitorSizes DEF MonitorInv
  <2>3. Members(waiting'[Full]) = {}
    BY <2>2 DEF Members
  <2>4. QED  BY <2>1, <2>2, <2>3, SameMutex
<1>3. QED  BY <1>1, <1>2

LEMMA TimerKeeps ==
  ASSUME MonitorInv, Cnd!Timer, UNCHANGED a
  PROVE  MonitorInv'
<1>1. /\ current' = Head(ready \o <<current>>) /\ ready' = Tail(ready \o <<current>>)
      /\ UNCHANGED <<waiting, at>>
  BY DEF Cnd!Timer, Cnd!Switch
<1>2. Apart(ready', current', waiting')
  BY <1>1, PutBack DEF MonitorInv
<1>3. QED  BY <1>1, <1>2, SameMutex

LEMMA MonitorStep ==
  ASSUME MonitorInv, Cnd!Next
  PROVE  MonitorInv'
<1>1. CASE Cnd!Lock
  BY <1>1, AcquireKeeps DEF Cnd!Lock
<1>2. CASE Cnd!Reacquire
  <2>1. at[current] = "reacquire" /\ Cnd!Acquire("inside")
    BY <1>2 DEF Cnd!Reacquire, Cnd!TakesBack
  <2>2. current \in Task
    BY <2>1 DEF MonitorInv, Apart, Everyone
  <2>3. QED  BY <2>1, <2>2, AcquireKeeps
<1>3. CASE Cnd!Timer /\ UNCHANGED a
  BY <1>3, TimerKeeps
<1>4. CASE Cnd!Wait(Full) \/ Cnd!Signal(Full) \/ Cnd!Broadcast(Full)
  BY <1>4, WaitKeeps, SignalKeeps
<1>5. QED  BY <1>1, <1>2, <1>3, <1>4, UnlockKeeps DEF Cnd!Next

\* Each part keeps its own.
NothingTwiceInv ==
  /\ part = "names" => TableInv
  /\ part = "cond" => MonitorInv

LEMMA NothingTwiceStep ==
  ASSUME NothingTwiceInv, [NextOfPart]_allVars
  PROVE  NothingTwiceInv'
<1>1. CASE InNames(Table!Next)
  <2>1. part = "names" /\ part' = part /\ TableInv /\ Table!Next
    BY <1>1 DEF InNames, NothingTwiceInv
  <2>2. TableInv'
    <3>1. PICK u \in User : (\E n \in Name : Table!Open(u, n)) \/ (\E m \in Table!Index : Table!Close(u, m))
      BY <2>1 DEF Table!Next
    <3>2. QED  BY <2>1, <3>1, OpenKeeps, CloseKeeps
  <2>3. QED  BY <2>1, <2>2 DEF NothingTwiceInv
<1>2. CASE InCond(Cnd!Next)
  <2>1. part = "cond" /\ part' = part /\ MonitorInv /\ Cnd!Next
    BY <1>2 DEF InCond, NothingTwiceInv
  <2>2. MonitorInv'
    BY <2>1, MonitorStep
  <2>3. QED  BY <2>1, <2>2 DEF NothingTwiceInv
<1>3. CASE part \notin {"names", "cond"} /\ part' = part
  BY <1>3 DEF NothingTwiceInv
<1>4. CASE UNCHANGED allVars
  <2>1. UNCHANGED <<part, ready, current, waiting, at, a, b, c>>
    BY <1>4 DEF allVars, taskVars
  <2>2. TableInv' = TableInv
    BY <2>1 DEF TableInv, Opened, Table!OneBoxPerName, Table!Index
  <2>3. MonitorInv' = MonitorInv
    BY <2>1 DEF MonitorInv, Apart, Inside, Everyone
  <2>4. QED  BY <2>1, <2>2, <2>3 DEF NothingTwiceInv
<1>5. QED
  BY <1>1, <1>2, <1>3, <1>4
     DEF NextOfPart, InLists, InProcs, InBarrier, InCond, InMailbox, InNames, InNet

\* do_mbox_open gives every name one box, and no program has a box open whose name is
\* gone (mailbox.c:26-63); a mutex has one holder through waits and signals, and a
\* task is in one queue (cond.c:12-41).
THEOREM NothingTwiceAlways == PartsSpec => []NothingTwice
<1>1. InitParts => NothingTwiceInv
  BY TableInitially, MonitorInitially DEF InitParts, NothingTwiceInv
<1>2. NothingTwiceInv => NothingTwice
  <2>1. ASSUME MonitorInv PROVE Cnd!MutualExclusion /\ Cnd!OnePlace
    <3>1. Cnd!Holders = Inside(at, waiting[Mutex])
      BY SameInMonitor DEF Cnd!Holders, Inside
    <3>2. QED  BY <2>1, <3>1, ApartIsOnePlace DEF MonitorInv, Cnd!MutualExclusion
  <2>2. QED  BY <2>1 DEF NothingTwiceInv, NothingTwice, TableInv
<1>3. QED  BY <1>1, <1>2, NothingTwiceStep, PTL DEF PartsSpec

-----------------------------------------------------------------------------
(* A mailbox of one sender and one receiver                                *)

OneEach == \E s, r : Senders = {s} /\ Receivers = {r}

LEMMA SameInMailbox ==
  /\ \A q : Mail!First(q) = FirstOf(waiting, q)
  /\ \A wt, q : Mail!FirstLeft(wt, q) = FirstLeft(wt, q) /\ Mail!NoneLeft(wt, q) = NoneLeft(wt, q)
  /\ Mail!InitTasks => InitTasks
<1>1. \A q : Mail!First(q) = FirstOf(waiting, q)
  BY DEF Mail!First, FirstOf
<1>2. \A wt, q : Mail!FirstLeft(wt, q) = FirstLeft(wt, q) /\ Mail!NoneLeft(wt, q) = NoneLeft(wt, q)
  BY DEF Mail!FirstLeft, FirstLeft, Mail!NoneLeft, NoneLeft
<1>3. \A S : Mail!Cardinality(S) = Cardinality(S)
  BY DEF Mail!Cardinality, Cardinality
<1>4. \A s : Mail!Distinct(s) <=> Distinct(s)
  BY DEF Mail!Distinct, Distinct
<1>5. Mail!Everyone = Everyone
  BY DEF Mail!Everyone, Everyone
<1>6. Mail!InitTasks => InitTasks
  BY <1>3, <1>4, <1>5 DEF Mail!InitTasks, InitTasks
<1>7. QED  BY <1>1, <1>2, <1>6

LEMMA MailboxSizes ==
  /\ Mutex \in Object /\ Full \in Object /\ Empty \in Object
  /\ Full # Empty /\ Mutex # Full /\ Mutex # Empty
  /\ Capacity \in Nat \ {0}
  /\ Senders \subseteq Task /\ Receivers \subseteq Task /\ Senders \cap Receivers = {}
  /\ Idle \notin Task
<1>1. Mail!MonitorAssumption /\ Mail!MailboxAssumption
  BY KernelAssumption DEF Mail!MailboxAssumption
<1>2. QED  BY <1>1, TasksAssumption DEF Mail!MonitorAssumption, Mail!MailboxAssumption

\* Task t has passed its wait.
Passed(t, q) == at[t] = "transfer" \/ (at[t] = "reacquire" /\ t \notin Members(waiting[q]))

\* When the sender has passed its wait the box has room, and when the receiver has
\* there is a message: only the other one acts on the box meanwhile.
MailInv(s, r) ==
  /\ Apart(ready, current, waiting)
  /\ at \in [Everyone -> {"user", "test", "transfer", "reacquire"}]
  /\ \A t \in Everyone : at[t] # "user" => t \in {s, r}
  /\ b \in 0 .. Capacity
  /\ c \in [0 .. Capacity - 1 -> Message \cup {NoMessage}]
  /\ Passed(s, Empty) => b < Capacity
  /\ Passed(r, Full) => b > 0

LEMMA MailInitially ==
  ASSUME NEW s \in Task, NEW r \in Task, Mail!InitMailbox
  PROVE  MailInv(s, r)
<1>1. /\ InitTasks /\ b = 0 /\ c = [n \in 0 .. Capacity - 1 |-> NoMessage]
  BY SameInMailbox DEF Mail!InitMailbox, Mail!Init
<1>2. at = [t \in Everyone |-> "user"] /\ Task \subseteq Everyone
  BY <1>1 DEF InitTasks, Everyone
<1>3. Apart(ready, current, waiting)
  BY <1>1, InitApart
<1>4. ~ Passed(s, Empty) /\ ~ Passed(r, Full)
  BY <1>2 DEF Passed
<1>5. c \in [0 .. Capacity - 1 -> Message \cup {NoMessage}]
  BY <1>1
<1>6. b \in 0 .. Capacity
  BY <1>1, MailboxSizes
<1>7. QED  BY <1>2, <1>3, <1>4, <1>5, <1>6 DEF MailInv

\* do_mutex_lock_acquire leaves the queues of the conditions alone.
LEMMA AcquireMoves ==
  ASSUME Apart(ready, current, waiting), current # Idle, NEW pc, Mail!Acquire(pc)
  PROVE  /\ Apart(ready', current', waiting')
         /\ at' = [at EXCEPT ![current] = pc]
         /\ waiting'[Full] = waiting[Full] /\ waiting'[Empty] = waiting[Empty]
<1>1. CASE a
  <2>1. /\ at' = [at EXCEPT ![current] = pc]
        /\ current' = Head(ready \o <<>>) /\ ready' = Tail(ready \o <<>>)
        /\ waiting' = Queued(waiting, Mutex, current)
    BY <1>1 DEF Mail!Acquire, Mail!Block, Mail!Switch, Queued
  <2>2. Mutex \in Object
    BY MailboxSizes
  <2>3. /\ ready \o <<>> = ready /\ Apart(Tail(ready), Head(ready), Queued(waiting, Mutex, current))
        /\ \A q \in Object : q # Mutex => Queued(waiting, Mutex, current)[q] = waiting[q]
    BY <2>2, Blocked
  <2>4. QED  BY <2>1, <2>3, MailboxSizes
<1>2. CASE ~ a
  BY <1>2 DEF Mail!Acquire
<1>3. QED  BY <1>1, <1>2

\* A step of one of the two that is not a transfer: what it may not do.
LEMMA MailMoves ==
  ASSUME NEW s, NEW r, MailInv(s, r), UNCHANGED <<b, c>>, Apart(ready', current', waiting'),
         NEW pc \in {"test", "transfer", "reacquire"}, at' = [at EXCEPT ![current] = pc],
         current \in {s, r},
         Passed(s, Empty)' => b < Capacity, Passed(r, Full)' => b > 0
  PROVE  MailInv(s, r)'
<1>1. at' \in [Everyone -> {"user", "test", "transfer", "reacquire"}]
  BY DEF MailInv
<1>2. \A t \in Everyone : at'[t] # "user" => t \in {s, r}
  BY DEF MailInv
<1>3. Apart(ready, current, waiting)'
  BY DEF Apart, Everyone
<1>4. QED  BY <1>1, <1>2, <1>3 DEF MailInv, Everyone

LEMMA CallKeeps ==
  ASSUME NEW s, NEW r, Senders = {s}, Receivers = {r}, MailInv(s, r), Mail!Call
  PROVE  MailInv(s, r)'
<1>1. /\ current \in {s, r} /\ at[current] = "user" /\ Mail!Acquire("test")
      /\ UNCHANGED <<b, c>>
  BY DEF Mail!Call, Mail!boxVars
<1>2. current # Idle /\ Apart(ready, current, waiting) /\ s \in Everyone /\ r \in Everyone
  BY <1>1, MailboxSizes DEF MailInv, Everyone
<1>3. /\ Apart(ready', current', waiting')
      /\ at' = [at EXCEPT ![current] = "test"]
      /\ waiting'[Full] = waiting[Full] /\ waiting'[Empty] = waiting[Empty]
  BY <1>1, <1>2, AcquireMoves
<1>4. \A t \in Everyone : at'[t] = IF t = current THEN "test" ELSE at[t]
  BY <1>3 DEF MailInv
<1>5. Passed(s, Empty)' => b < Capacity
  BY <1>2, <1>3, <1>4 DEF MailInv, Passed
<1>6. Passed(r, Full)' => b > 0
  BY <1>2, <1>3, <1>4 DEF MailInv, Passed
<1>7. QED  BY <1>1, <1>3, <1>5, <1>6, MailMoves

LEMMA NoWaitKeeps ==
  ASSUME NEW s, NEW r, Senders = {s}, Receivers = {r}, MailInv(s, r), Mail!NoWait
  PROVE  MailInv(s, r)'
<1>1. /\ at[current] = "test" /\ ~ Mail!MustWait(current)
      /\ at' = [at EXCEPT ![current] = "transfer"]
      /\ UNCHANGED <<ready, current, waiting, b, c>>
  BY DEF Mail!NoWait, Mail!boxVars
<1>2. /\ current \in {s, r} /\ s \in Everyone /\ r \in Everyone /\ s # r
      /\ b \in 0 .. Capacity /\ Capacity \in Nat
  BY <1>1, MailboxSizes DEF MailInv, Apart, Everyone
<1>3. Apart(ready', current', waiting')
  BY <1>1 DEF MailInv
<1>4. \A t \in Everyone : at'[t] = IF t = current THEN "transfer" ELSE at[t]
  BY <1>1 DEF MailInv
<1>5. (current = s => b # Capacity) /\ (current = r => b # 0)
  BY <1>1, <1>2 DEF Mail!MustWait, Mail!IsFull, Mail!IsEmpty
<1>6. Passed(s, Empty)' => b < Capacity
  BY <1>1, <1>2, <1>4, <1>5 DEF MailInv, Passed
<1>7. Passed(r, Full)' => b > 0
  BY <1>1, <1>2, <1>4, <1>5 DEF MailInv, Passed
<1>8. QED  BY <1>1, <1>2, <1>3, <1>6, <1>7, MailMoves

LEMMA TakeBackKeeps ==
  ASSUME NEW s, NEW r, Senders = {s}, Receivers = {r}, MailInv(s, r), Mail!TakeBack
  PROVE  MailInv(s, r)'
<1>1. /\ at[current] = "reacquire" /\ Mail!Acquire("transfer") /\ UNCHANGED <<b, c>>
  BY DEF Mail!TakeBack, Mail!boxVars
<1>2. /\ current \in {s, r} /\ s \in Everyone /\ r \in Everyone /\ s # r
      /\ current # Idle /\ Apart(ready, current, waiting)
      /\ current \notin Members(waiting[Full]) /\ current \notin Members(waiting[Empty])
  BY <1>1, MailboxSizes DEF MailInv, Apart, Everyone
<1>3. /\ Apart(ready', current', waiting')
      /\ at' = [at EXCEPT ![current] = "transfer"]
      /\ waiting'[Full] = waiting[Full] /\ waiting'[Empty] = waiting[Empty]
  BY <1>1, <1>2, AcquireMoves
<1>4. \A t \in Everyone : at'[t] = IF t = current THEN "transfer" ELSE at[t]
  BY <1>3 DEF MailInv
<1>5. Passed(s, Empty)' => b < Capacity
  BY <1>1, <1>2, <1>3, <1>4 DEF MailInv, Passed
<1>6. Passed(r, Full)' => b > 0
  BY <1>1, <1>2, <1>3, <1>4 DEF MailInv, Passed
<1>7. QED  BY <1>1, <1>2, <1>3, <1>5, <1>6, MailMoves

LEMMA WaitForOtherKeeps ==
  ASSUME NEW s, NEW r, Senders = {s}, Receivers = {r}, MailInv(s, r), Mail!WaitForOther
  PROVE  MailInv(s, r)'
<1> DEFINE mine == Mail!WaitsOn(current)
           other == Mail!Signals(current)
           rd1 == ready \o waiting[other]
           wt1 == NoneLeft(waiting, other)
           rd2 == rd1 \o FirstOf(wt1, Mutex)
           wt2 == FirstLeft(wt1, Mutex)
<1>1. /\ at[current] = "test" /\ Mail!MustWait(current)
      /\ at' = [at EXCEPT ![current] = "reacquire"]
      /\ UNCHANGED <<b, c>>
  BY DEF Mail!WaitForOther, Mail!Block, Mail!boxVars
<1>2. /\ current \in {s, r} /\ s \in Everyone /\ r \in Everyone /\ s # r /\ current # Idle
      /\ b \in 0 .. Capacity /\ Capacity \in Nat \ {0}
  BY <1>1, MailboxSizes DEF MailInv, Apart, Everyone
<1>3. /\ mine \in Object /\ other \in Object /\ Mutex \in Object /\ other # Mutex /\ mine # Mutex
      /\ current = s => mine = Empty /\ b = Capacity
      /\ current = r => mine = Full /\ b = 0
  BY <1>1, <1>2, MailboxSizes
     DEF Mail!WaitsOn, Mail!Signals, Mail!MustWait, Mail!IsFull, Mail!IsEmpty
<1> HIDE DEF mine, other
<1>4. Apart(rd1, current, wt1) /\ wt1[Mutex] = waiting[Mutex]
  BY <1>3, WakeEverybody DEF MailInv
<1>5. FirstOf(wt1, Mutex) = FirstOf(waiting, Mutex)
  BY <1>4 DEF FirstOf
<1> HIDE DEF rd1, wt1
<1>6. Apart(rd2, current, wt2)
  BY <1>3, <1>4, WakeOne
<1>7. /\ current' = Head(rd2 \o <<>>) /\ ready' = Tail(rd2 \o <<>>)
      /\ waiting' = Queued(wt2, mine, current)
  BY <1>5, SameInMailbox DEF Mail!WaitForOther, Mail!Block, Mail!Switch, Queued, mine, other, rd1, wt1
<1> HIDE DEF rd2, wt2
<1>8. /\ rd2 \o <<>> = rd2 /\ Apart(Tail(rd2), Head(rd2), Queued(wt2, mine, current))
      /\ Members(Queued(wt2, mine, current)[mine]) = Members(wt2[mine]) \cup {current}
  BY <1>2, <1>3, <1>6, Blocked
<1>9. Apart(ready', current', waiting') /\ current \in Members(waiting'[mine])
  BY <1>7, <1>8
<1>10. \A t \in Everyone : at'[t] = IF t = current THEN "reacquire" ELSE at[t]
  BY <1>1 DEF MailInv
<1>11. Passed(s, Empty)' => b < Capacity
  BY <1>2, <1>3, <1>9, <1>10 DEF Passed
<1>12. Passed(r, Full)' => b > 0
  BY <1>2, <1>3, <1>9, <1>10 DEF Passed
<1>13. QED  BY <1>1, <1>2, <1>9, <1>11, <1>12, MailMoves

LEMMA TransferKeeps ==
  ASSUME NEW s, NEW r, Senders = {s}, Receivers = {r}, MailInv(s, r), Mail!Transfer
  PROVE  MailInv(s, r)'
<1> DEFINE other == Mail!Signals(current)
           rd1 == ready \o FirstOf(waiting, other)
           wt1 == FirstLeft(waiting, other)
           rd2 == rd1 \o FirstOf(wt1, Mutex)
           wt2 == FirstLeft(wt1, Mutex)
<1>1. /\ at[current] = "transfer" /\ at' = [at EXCEPT ![current] = "user"] /\ current' = current
      /\ (current = s /\ \E m \in Message : Mail!Put(m)) \/ (current = r /\ Mail!Take)
  BY DEF Mail!Transfer
<1>2. /\ current \in {s, r} /\ s \in Everyone /\ r \in Everyone /\ s # r
      /\ b \in 0 .. Capacity /\ Capacity \in Nat \ {0}
  BY <1>1, MailboxSizes DEF MailInv, Apart, Everyone
<1>3. other \in Object /\ Mutex \in Object /\ other # Mutex
  BY MailboxSizes DEF Mail!Signals
<1> HIDE DEF other
<1>4. Apart(rd1, current, wt1) /\ wt1[Mutex] = waiting[Mutex]
  BY <1>3, WakeOne DEF MailInv
<1>5. FirstOf(wt1, Mutex) = FirstOf(waiting, Mutex)
  BY <1>4 DEF FirstOf
<1> HIDE DEF rd1, wt1
<1>6. Apart(rd2, current, wt2)
  BY <1>3, <1>4, WakeOne
<1>7. ready' = rd2 /\ waiting' = wt2
  BY <1>5, SameInMailbox DEF Mail!Transfer, Mail!Signalled, other, rd1, wt1
<1> HIDE DEF rd2, wt2
<1>8. Apart(ready, current, waiting)'
  BY <1>1, <1>6, <1>7 DEF Apart, Everyone
<1>9. /\ at' \in [Everyone -> {"user", "test", "transfer", "reacquire"}]
      /\ \A t \in Everyone : at'[t] # "user" => t \in {s, r}
  BY <1>1 DEF MailInv
<1>10. at'[current] = "user"
  BY <1>1, <1>2 DEF MailInv
<1>11. CASE current = s
  <2>1. PICK m \in Message : Mail!Put(m)
    BY <1>1, <1>2, <1>11
  <2>2. b < Capacity
    BY <1>1, <1>11 DEF MailInv, Passed
  <2>3. b' = b + 1 /\ c' = [c EXCEPT ![b] = m]
    BY <1>2, <2>1, <2>2 DEF Mail!Put, MailInv
  <2>4. b' \in 0 .. Capacity /\ b' > 0 /\ c' \in [0 .. Capacity - 1 -> Message \cup {NoMessage}]
    BY <1>2, <2>2, <2>3 DEF MailInv
  <2>5. ~ Passed(s, Empty)'
    BY <1>10, <1>11 DEF Passed
  <2>6. QED  BY <1>8, <1>9, <2>4, <2>5 DEF MailInv, Everyone
<1>12. CASE current = r
  <2>1. Mail!Take
    BY <1>1, <1>2, <1>12
  <2>2. b > 0
    BY <1>1, <1>12 DEF MailInv, Passed
  <2>3. b' = b - 1 /\ c' = c
    BY <2>1 DEF Mail!Take
  <2>4. b' \in 0 .. Capacity /\ b' < Capacity /\ c' \in [0 .. Capacity - 1 -> Message \cup {NoMessage}]
    BY <1>2, <2>2, <2>3 DEF MailInv
  <2>5. ~ Passed(r, Full)'
    BY <1>10, <1>12 DEF Passed
  <2>6. QED  BY <1>8, <1>9, <2>4, <2>5 DEF MailInv, Everyone
<1>13. QED  BY <1>2, <1>11, <1>12

LEMMA MailTimerKeeps ==
  ASSUME NEW s, NEW r, MailInv(s, r), Mail!Timer, UNCHANGED <<b, c>>
  PROVE  MailInv(s, r)'
<1>1. /\ current' = Head(ready \o <<current>>) /\ ready' = Tail(ready \o <<current>>)
      /\ UNCHANGED <<waiting, at>>
  BY DEF Mail!Timer, Mail!Switch
<1>2. Apart(ready', current', waiting')
  BY <1>1, PutBack DEF MailInv
<1>3. Apart(ready, current, waiting)'
  BY <1>2 DEF Apart, Everyone
<1>4. QED  BY <1>1, <1>3 DEF MailInv, Passed, Everyone

LEMMA MailStep ==
  ASSUME NEW s, NEW r, Senders = {s}, Receivers = {r}, MailInv(s, r), Mail!NextMailbox
  PROVE  MailInv(s, r)'
<1>1. CASE Mail!Timer /\ UNCHANGED <<a, b, c, d>>
  BY <1>1, MailTimerKeeps
<1>2. QED
  BY <1>1, CallKeeps, NoWaitKeeps, WaitForOtherKeeps, TakeBackKeeps, TransferKeeps
     DEF Mail!NextMailbox, Mail!boxVars

\* The messages in the box, oldest first.
Contents == [n \in 1 .. b |-> c[n - 1]]

\* A transfer is a step of the bounded box, and no other step is one.
LEMMA TransferImplements ==
  ASSUME NEW s, NEW r, Senders = {s}, Receivers = {r}, MailInv(s, r),
         part = "mailbox", part' = part, Mail!Transfer
  PROVE  Box!Next
<1>1. /\ at[current] = "transfer"
      /\ (current = s /\ \E m \in Message : Mail!Put(m)) \/ (current = r /\ Mail!Take)
  BY DEF Mail!Transfer
<1>2. /\ s \in Task /\ r \in Task /\ s # r
      /\ b \in 0 .. Capacity /\ Capacity \in Nat \ {0} /\ DOMAIN c = 0 .. Capacity - 1
  BY MailboxSizes DEF MailInv
<1>3. /\ Len(Contents) = b /\ DOMAIN Contents = 1 .. b
      /\ \A n \in 1 .. b : Contents[n] = c[n - 1]
      /\ Contents \in Seq(Message \cup {NoMessage})
  <2>1. b \in Nat /\ \A n \in 1 .. b : c[n - 1] \in Message \cup {NoMessage}
    BY <1>2 DEF MailInv
  <2>2. QED  BY <2>1 DEF Contents
<1>4. CASE current = s
  <2>1. PICK m \in Message : Mail!Put(m)
    BY <1>1, <1>2, <1>4
  <2>2. b < Capacity
    BY <1>1, <1>4 DEF MailInv, Passed
  <2>3. b' = b + 1 /\ c' = [c EXCEPT ![b] = m] /\ d' = d
    BY <1>2, <2>1, <2>2 DEF Mail!Put
  <2>4. Contents' = Append(Contents, m)
    <3>1. \A n \in 1 .. b + 1 : c'[n - 1] = IF n = b + 1 THEN m ELSE c[n - 1]
      BY <1>2, <2>2, <2>3 DEF MailInv
    <3>2. Contents' = [n \in 1 .. b + 1 |-> IF n = b + 1 THEN m ELSE c[n - 1]]
      BY <2>3, <3>1 DEF Contents
    <3> DEFINE S == Message \cup {NoMessage}
               new == [n \in 1 .. b + 1 |-> IF n = b + 1 THEN m ELSE c[n - 1]]
    <3>3. /\ Append(Contents, m) \in Seq(S) /\ Len(Append(Contents, m)) = b + 1
          /\ \A n \in 1 .. b : Append(Contents, m)[n] = c[n - 1]
          /\ Append(Contents, m)[b + 1] = m
      BY <1>2, <1>3
    <3>4. /\ new \in Seq(S) /\ Len(new) = b + 1
          /\ \A n \in 1 .. b + 1 : new[n] = IF n = b + 1 THEN m ELSE c[n - 1]
      <4>1. \A n \in 1 .. b + 1 : (IF n = b + 1 THEN m ELSE c[n - 1]) \in S
        BY <1>2 DEF MailInv
      <4>2. QED  BY <1>2, <4>1
    <3>5. \A n \in 1 .. b + 1 : Append(Contents, m)[n] = new[n]
      BY <1>2, <3>3, <3>4
    <3> HIDE DEF new
    <3>6. Append(Contents, m) = new
      BY <1>2, <3>3, <3>4, <3>5, SeqEqual
    <3>7. QED  BY <3>2, <3>6 DEF new
  <2>5. Box!Send(m)
    BY <1>3, <2>2, <2>3, <2>4 DEF Box!Send, Contents
  <2>6. QED  BY <2>5 DEF Box!Next
<1>5. CASE current = r
  <2>1. Mail!Take
    BY <1>1, <1>2, <1>5
  <2>2. b > 0
    BY <1>1, <1>5 DEF MailInv, Passed
  <2>3. b' = b - 1 /\ c' = c /\ d' = [d EXCEPT ![r] = c[b - 1]]
    <3>1. b - 1 \in DOMAIN c
      BY <1>2, <2>2
    <3>2. b' = b - 1 /\ c' = c /\ d' = [d EXCEPT ![current] = c[b - 1]]
      BY <2>1, <3>1 DEF Mail!Take
    <3>3. QED  BY <1>5, <3>2
  <2>4. Contents' = SubSeq(Contents, 1, Len(Contents) - 1)
    <3>1. Contents' = [n \in 1 .. b - 1 |-> c[n - 1]]
      BY <2>3 DEF Contents
    <3>2. SubSeq(Contents, 1, b - 1) = [n \in 1 .. b - 1 |-> c[n - 1]]
      BY <1>2, <1>3, <2>2
    <3>3. QED  BY <1>3, <3>1, <3>2
  <2>5. Contents # <<>> /\ Contents[Len(Contents)] = c[b - 1]
    BY <1>2, <1>3, <2>2
  <2>6. Box!Receive(r)
    BY <2>3, <2>4, <2>5 DEF Box!Receive, Contents
  <2>7. QED  BY <1>2, <2>6 DEF Box!Next
<1>6. QED  BY <1>1, <1>4, <1>5

LEMMA MailAlways ==
  ASSUME NEW CONSTANT s, NEW CONSTANT r, Senders = {s}, Receivers = {r}
  PROVE  PartsSpec => [](part = "mailbox" => MailInv(s, r))
<1>1. InitParts => (part = "mailbox" => MailInv(s, r))
  BY MailInitially, MailboxSizes DEF InitParts
<1>2. (part = "mailbox" => MailInv(s, r)) /\ [NextOfPart]_allVars => (part = "mailbox" => MailInv(s, r))'
  <2> SUFFICES ASSUME part = "mailbox" => MailInv(s, r), [NextOfPart]_allVars, part' = "mailbox"
               PROVE  MailInv(s, r)'
    OBVIOUS
  <2>1. CASE InMailbox(Mail!NextMailbox)
    BY <2>1, MailStep DEF InMailbox
  <2>2. CASE UNCHANGED allVars
    <3>1. part = "mailbox" /\ UNCHANGED <<ready, current, waiting, at, b, c>>
      BY <2>2 DEF allVars, taskVars
    <3>2. QED  BY <3>1 DEF MailInv, Apart, Passed, Everyone
  <2>3. InMailbox(Mail!NextMailbox) \/ UNCHANGED allVars
    BY DEF NextOfPart, InLists, InProcs, InBarrier, InCond, InMailbox, InNames, InNet
  <2>4. QED  BY <2>1, <2>2, <2>3
<1>3. QED  BY <1>1, <1>2, PTL DEF PartsSpec

\* With one sender and one receiver a mailbox hands out every message once, the
\* youngest first (mailbox.c:68-118).
THEOREM DeliversEachOnceAlways == OneEach => (PartsSpec => DeliversEachOnce)
<1> SUFFICES ASSUME OneEach PROVE PartsSpec => DeliversEachOnce
  OBVIOUS
<1>1. PICK s, r : Senders = {s} /\ Receivers = {r}
  BY DEF OneEach
<1>2. PartsSpec => [](part = "mailbox" => MailInv(s, r))
  BY <1>1, MailAlways
<1>3. InitParts => Box!Init
  <2> SUFFICES ASSUME InitParts PROVE Box!Init
    OBVIOUS
  <2>1. CASE part = "mailbox"
    <3>1. b = 0 /\ d = [t \in Task |-> NoMessage]
      BY <2>1 DEF InitParts, Mail!InitMailbox
    <3>2. Contents = <<>>
      BY <3>1 DEF Contents
    <3>3. QED  BY <2>1, <3>1, <3>2 DEF Box!Init, Contents
  <2>2. CASE part # "mailbox"
    BY <2>2 DEF Box!Init
  <2>3. QED  BY <2>1, <2>2
<1>4. (part = "mailbox" => MailInv(s, r)) /\ [NextOfPart]_allVars => [Box!Next]_(Box!vars)
  <2> SUFFICES ASSUME part = "mailbox" => MailInv(s, r), [NextOfPart]_allVars
               PROVE  Box!Next \/ UNCHANGED Box!vars
    OBVIOUS
  <2>1. CASE part = "mailbox" /\ part' = part /\ Mail!Transfer
    BY <1>1, <2>1, TransferImplements
  <2>2. CASE part' = part /\ UNCHANGED <<b, c, d>>
    BY <2>2 DEF Box!vars
  <2>3. CASE part # "mailbox" /\ part' = part
    BY <2>3 DEF Box!vars
  <2>4. CASE InMailbox(Mail!NextMailbox)
    <3>1. part = "mailbox" /\ part' = part /\ Mail!NextMailbox
      BY <2>4 DEF InMailbox
    <3>2. Mail!Transfer \/ UNCHANGED <<b, c, d>>
      BY <3>1 DEF Mail!NextMailbox, Mail!Call, Mail!NoWait, Mail!WaitForOther, Mail!TakeBack, Mail!boxVars
    <3>3. QED  BY <2>1, <2>2, <3>1, <3>2
  <2>5. InMailbox(Mail!NextMailbox) \/ UNCHANGED allVars \/ (part # "mailbox" /\ part' = part)
    BY DEF NextOfPart, InLists, InProcs, InBarrier, InCond, InNames, InNet
  <2>6. CASE UNCHANGED allVars
    <3>1. UNCHANGED <<part, b, c, d>>
      BY <2>6 DEF allVars
    <3>2. QED  BY <2>2, <3>1
  <2>7. QED  BY <2>3, <2>4, <2>5, <2>6
<1>5. QED  BY <1>2, <1>3, <1>4, PTL DEF PartsSpec, DeliversEachOnce, Box!Spec

-----------------------------------------------------------------------------
(* The processes implement Sched: what the functions of sched.c do to the  *)
(* links of the PCBs is what Sched says they do to sequences.              *)

\* The queues of the kernel: its three and those of who waits for a task.
SlotQueue == {ReadyQueue, BlockQueue, ExitQueue} \cup Slot

LEMMA ProcSizes ==
  /\ IsFiniteSet(Slot) /\ Null \notin Slot
  /\ Boot \in Slot /\ Shell \in Slot /\ Boot # Shell
  /\ ReadyQueue # BlockQueue /\ ReadyQueue # ExitQueue /\ BlockQueue # ExitQueue
  /\ ReadyQueue \notin Slot /\ BlockQueue \notin Slot /\ ExitQueue \notin Slot
  /\ SleepTimes \subseteq Nat
  /\ Cardinality(Slot) \in Nat
  /\ Procs!Cardinality(Slot) = Cardinality(Slot)
<1>1. Procs!IsFiniteSet(Slot) <=> IsFiniteSet(Slot)
  BY DEF Procs!IsFiniteSet, IsFiniteSet
<1>2. Procs!Cardinality(Slot) = Cardinality(Slot)
  BY DEF Procs!Cardinality, Cardinality
<1>3. QED  BY <1>1, <1>2, KernelAssumption, FS_CardinalityType DEF Procs!ProcessesAssumption

LEMMA SameLists ==
  ASSUME NEW m, NEW q, NEW x
  PROVE  /\ Procs!IsEmpty(m, q) <=> IsEmpty(m, q)
         /\ Procs!QueuePush(m, q, x) = QueuePush(m, q, x)
         /\ Procs!QueueRemove(m, q, x) = QueueRemove(m, q, x)
         /\ Procs!QueueDequeue(m, q) = QueueDequeue(m, q)
         /\ Procs!Dequeued(m, q) = Dequeued(m, q)
         /\ Procs!AfterRemoved(m, x) = AfterRemoved(m, x)
         /\ Procs!QueueInit(m, q) = QueueInit(m, q)
<1>1. Procs!IsEmpty(m, q) <=> IsEmpty(m, q)
  BY DEF Procs!IsEmpty, IsEmpty
<1>2. Procs!QueuePush(m, q, x) = QueuePush(m, q, x)
  BY <1>1 DEF Procs!QueuePush, QueuePush
<1>3. Procs!Unlink(m, q, x) = Unlink(m, q, x)
  BY DEF Procs!Unlink, Unlink
<1>4. Procs!QueueRemove(m, q, x) = QueueRemove(m, q, x)
  BY <1>3 DEF Procs!QueueRemove, QueueRemove
<1>5. Procs!QueueDequeue(m, q) = QueueDequeue(m, q)
  BY DEF Procs!QueueDequeue, QueueDequeue
<1>6. Procs!Dequeued(m, q) = Dequeued(m, q) /\ Procs!AfterRemoved(m, x) = AfterRemoved(m, x)
  BY DEF Procs!Dequeued, Dequeued, Procs!AfterRemoved, AfterRemoved
<1>7. Procs!QueueInit(m, q) = QueueInit(m, q)
  BY DEF Procs!QueueInit, QueueInit
<1>8. QED  BY <1>1, <1>2, <1>4, <1>5, <1>6, <1>7

\* One item more of the walk that Line takes.
NextVisited(m, q, n, s) ==
  LET t == IF n = 1 THEN m.head[q] ELSE m.next[s[n - 1]]
  IN IF Len(s) < n - 1 \/ t = Null THEN s ELSE Append(s, t)

\* What the loops of Line, do_unblock_all and check_sleeping compute is a run of
\* turns: v[n] is what is there after n of them.
LEMMA LineRuns ==
  ASSUME NEW m, NEW q
  PROVE  \E v : /\ Procs!Line(m, q) = v[Cardinality(Slot) + 1]
                /\ v[0] = <<>>
                /\ \A n \in 1..(Cardinality(Slot) + 1) : v[n] = NextVisited(m, q, n, v[n - 1])
<1> DEFINE K == Cardinality(Slot) + 1
           Then(n, s) == NextVisited(m, q, n, s)
           Run(v, N) == v = [n \in 0..N |-> IF n = 0 THEN <<>> ELSE Then(n, v[n - 1])]
           T == {N \in Nat : \E v : Run(v, N)}
<1>0. K \in Nat
  BY ProcSizes
<1>1. Procs!Line(m, q) = (CHOOSE v : Run(v, K))[K]
  BY ProcSizes DEF Procs!Line, NextVisited
<1> HIDE DEF Then, K
<1>2. ASSUME NEW N \in Nat, N \in T PROVE N + 1 \in T
  <2>1. PICK v : Run(v, N)
    BY <1>2
  <2> DEFINE w == [n \in 0..(N + 1) |-> IF n < N + 1 THEN v[n] ELSE Then(N + 1, v[N])]
  <2>2. ASSUME NEW n \in 0..(N + 1)
        PROVE  w[n] = IF n = 0 THEN <<>> ELSE Then(n, w[n - 1])
    <3>1. CASE n < N + 1
      <4>1. n \in 0..N /\ w[n] = v[n]
        BY <3>1
      <4>2. v[n] = IF n = 0 THEN <<>> ELSE Then(n, v[n - 1])
        BY <2>1, <4>1
      <4>3. n # 0 => w[n - 1] = v[n - 1]
        BY <3>1
      <4>4. QED  BY <4>1, <4>2, <4>3
    <3>2. CASE n = N + 1
      BY <3>2
    <3>3. QED  BY <3>1, <3>2
  <2>3. Run(w, N + 1)
    BY <2>2
  <2>4. \E u : Run(u, N + 1)
    BY <2>3
  <2> HIDE DEF Run
  <2>5. QED  BY <2>4
<1>3. 0 \in T
  <2>1. Run([n \in 0..0 |-> <<>>], 0)
    OBVIOUS
  <2>2. QED  BY <2>1
<1>4. \A N \in Nat : N \in T
  <2> HIDE DEF T
  <2>1. QED  BY <1>2, <1>3, CountUp
<1>5. PICK v : Run(v, K) /\ v = (CHOOSE u : Run(u, K))
  BY <1>0, <1>4
<1> HIDE DEF Run
<1>6. Procs!Line(m, q) = v[K]
  BY <1>1, <1>5
<1> USE DEF Run
<1>7. v[0] = <<>> /\ \A n \in 1..K : v[n] = Then(n, v[n - 1])
  <2>1. \A n \in 0..K : v[n] = IF n = 0 THEN <<>> ELSE Then(n, v[n - 1])
    BY <1>5
  <2>2. QED  BY <1>0, <2>1
<1>8. QED  BY <1>6, <1>7 DEF K, Then

LEMMA DistinctIsShort ==
  ASSUME NEW P, IsFiniteSet(P), NEW s \in Seq(P), Distinct(s)
  PROVE  Len(s) <= Cardinality(P) /\ Cardinality(P) \in Nat
<1>1. s \in [1..Len(s) -> P] /\ Len(s) \in Nat
  OBVIOUS
<1>2. s \in Injection(1..Len(s), P)
  BY <1>1 DEF Injection, IsInjective, Distinct
<1>3. Cardinality(1..Len(s)) <= Cardinality(P)
  BY <1>2, FS_Injection
<1>4. Cardinality(1..Len(s)) = Len(s)
  <2>1. 1 \in Int /\ Len(s) \in Int
    BY <1>1
  <2>2. Cardinality(1..Len(s)) = IF 1 > Len(s) THEN 0 ELSE Len(s) - 1 + 1
    BY <2>1, FS_Interval
  <2>3. QED  BY <1>1, <2>2
<1>5. QED  BY <1>3, <1>4, FS_CardinalityType

\* The walk the refinement takes finds the list.
LEMMA LineIs ==
  ASSUME NEW m, NEW q, NEW s, HasIn(Slot, m, q, s)
  PROVE  Procs!Line(m, q) = s
<1> DEFINE K == Cardinality(Slot) + 1
           P(n) == IF n <= Len(s) THEN SubSeq(s, 1, n) ELSE s
<1>1. PICK v : /\ Procs!Line(m, q) = v[K]
               /\ v[0] = <<>>
               /\ \A n \in 1..K : v[n] = NextVisited(m, q, n, v[n - 1])
  BY LineRuns
<1>2. /\ s \in Seq(Slot) /\ Len(s) \in Nat /\ Visits(m, q, s) /\ K \in Nat /\ Len(s) < K
      /\ \A z \in 1..Len(s) : s[z] \in Slot /\ s[z] # Null
  BY DistinctIsShort, ProcSizes DEF HasIn, Chain
<1> DEFINE T == {n \in Nat : n <= K => v[n] = P(n)}
<1> HIDE DEF K
<1>3. 0 \in T
  <2>1. SubSeq(s, 1, 0) = <<>>
    BY <1>2, SubSeqEmpty
  <2>2. P(0) = <<>>
    BY <1>2, <2>1
  <2> HIDE DEF P
  <2>3. QED  BY <1>1, <2>2
<1>4. ASSUME NEW n \in Nat, n \in T PROVE n + 1 \in T
  <2> SUFFICES ASSUME n + 1 <= K PROVE v[n + 1] = P(n + 1)
    OBVIOUS
  <2> DEFINE next == IF n + 1 = 1 THEN m.head[q] ELSE m.next[P(n)[n]]
  <2>1. v[n] = P(n)
    BY <1>2, <1>4
  <2>2. v[n + 1] = NextVisited(m, q, n + 1, P(n))
    <3>1. n + 1 \in 1..K /\ n + 1 - 1 = n
      BY <1>2
    <3>2. v[n + 1] = NextVisited(m, q, n + 1, v[n + 1 - 1])
      BY <1>1, <3>1
    <3>3. QED  BY <2>1, <3>1, <3>2
  <2>3. v[n + 1] = IF Len(P(n)) < n \/ next = Null THEN P(n) ELSE Append(P(n), next)
    BY <2>2, n + 1 - 1 = n DEF NextVisited
  <2>4. CASE n + 1 <= Len(s)
    <3>1. /\ P(n) = SubSeq(s, 1, n) /\ P(n + 1) = SubSeq(s, 1, n + 1) /\ Len(SubSeq(s, 1, n)) = n
          /\ Append(SubSeq(s, 1, n), s[n + 1]) = SubSeq(s, 1, n + 1)
          /\ n # 0 => SubSeq(s, 1, n)[n] = s[n]
      BY <1>2, <2>4, PrefixGrows
    <3>2. next = s[n + 1]
      <4>1. n = 0 => m.head[q] = s[1]
        BY <1>2, <2>4 DEF Visits
      <4>2. n # 0 => m.next[s[n]] = s[n + 1]
        BY <1>2, <2>4 DEF Visits
      <4>3. QED  BY <3>1, <4>1, <4>2
    <3>3. s[n + 1] # Null
      BY <1>2, <2>4
    <3> HIDE DEF P, next
    <3>4. ~ (Len(P(n)) < n)
      BY <3>1
    <3>5. v[n + 1] = Append(P(n), next)
      BY <2>3, <3>2, <3>3, <3>4
    <3>6. QED  BY <3>1, <3>2, <3>5
  <2>5. CASE n = Len(s)
    <3>1. P(n) = s /\ P(n + 1) = s
      BY <1>2, <2>5, SubSeqFull
    <3>2. next = Null
      BY <1>2, <2>5, <3>1 DEF Visits
    <3> HIDE DEF P, next
    <3>3. QED  BY <2>3, <3>1, <3>2
  <2>6. CASE n > Len(s)
    <3>1. P(n) = s /\ P(n + 1) = s
      BY <1>2, <2>6
    <3> HIDE DEF P, next
    <3>2. QED  BY <2>3, <2>6, <3>1
  <2>7. QED  BY <1>2, <2>4, <2>5, <2>6
<1>5. K \in T
  <2> HIDE DEF T
  <2>1. QED  BY <1>2, <1>3, <1>4, CountUp
<1>6. v[K] = P(K) /\ P(K) = s
  BY <1>2, <1>5
<1>7. QED  BY <1>1, <1>6

-----------------------------------------------------------------------------
(* What a memory stands for                                                *)

\* The lists of the memory m are the queues l.
Stands(m, l) ==
  /\ m \in MemoryOn(Slot, SlotQueue)
  /\ l \in [SlotQueue -> Seq(Slot)]
  /\ \A q \in SlotQueue : HasIn(Slot, m, q, l[q])
  /\ \A q, r \in SlotQueue : q # r => Members(l[q]) \cap Members(l[r]) = {}

\* The task x is in no queue.
Nowhere(x, l) == \A q \in SlotQueue : x \notin Members(l[q])

LEMMA StandsLines ==
  ASSUME NEW m, NEW l, Stands(m, l)
  PROVE  [q \in SlotQueue |-> Procs!Line(m, q)] = l
<1>1. \A q \in SlotQueue : Procs!Line(m, q) = l[q]
  BY LineIs DEF Stands
<1>2. QED  BY <1>1 DEF Stands

\* The functions of queue.c do to the lists what Sched does to the queues.
LEMMA StandsPush ==
  ASSUME NEW m, NEW l, Stands(m, l), NEW q \in SlotQueue, NEW x \in Slot, Nowhere(x, l)
  PROVE  Stands(Procs!QueuePush(m, q, x), [l EXCEPT ![q] = Append(@, x)])
<1> DEFINE n == QueuePush(m, q, x)
           l2 == [l EXCEPT ![q] = Append(@, x)]
<1>1. /\ m \in MemoryOn(Slot, SlotQueue) /\ l \in [SlotQueue -> Seq(Slot)]
      /\ \A r \in SlotQueue : HasIn(Slot, m, r, l[r]) /\ x \notin Members(l[r]) /\ l[r] \in Seq(Slot)
      /\ \A r \in SlotQueue : r # q => Members(l[q]) \cap Members(l[r]) = {}
  BY DEF Stands, Nowhere
<1>2. /\ n \in MemoryOn(Slot, SlotQueue)
      /\ HasIn(Slot, n, q, Append(l[q], x))
      /\ \A r \in SlotQueue : r # q => HasIn(Slot, n, r, l[r])
  BY <1>1, PushList, ProcSizes
<1>3. \A r \in SlotQueue : l2[r] = IF r = q THEN Append(l[q], x) ELSE l[r]
  BY <1>1
<1>4. l2 \in [SlotQueue -> Seq(Slot)]
  BY <1>1
<1>5. Members(Append(l[q], x)) = Members(l[q]) \cup {x}
  BY <1>1, AppendFacts
<1> HIDE DEF n, l2
<1>6. ASSUME NEW r \in SlotQueue, NEW t \in SlotQueue, r # t
      PROVE  Members(l2[r]) \cap Members(l2[t]) = {}
  <2>1. Members(l[r]) \cap Members(l[t]) = {}
    BY <1>6 DEF Stands
  <2>2. QED  BY <1>1, <1>3, <1>5, <1>6, <2>1
<1>7. Stands(n, l2)
  BY <1>2, <1>3, <1>4, <1>6 DEF Stands
<1>8. QED  BY <1>7, SameLists DEF n, l2

LEMMA StandsRemove ==
  ASSUME NEW m, NEW l, Stands(m, l), NEW q \in SlotQueue, NEW z \in DOMAIN l[q]
  PROVE  /\ Stands(Procs!QueueRemove(m, q, l[q][z]), [l EXCEPT ![q] = Without(@, z)])
         /\ Members(Without(l[q], z)) = Members(l[q]) \ {l[q][z]}
         /\ l[q][z] \in Slot
<1> DEFINE n == QueueRemove(m, q, l[q][z])
           l2 == [l EXCEPT ![q] = Without(@, z)]
<1>1. /\ m \in MemoryOn(Slot, SlotQueue) /\ l \in [SlotQueue -> Seq(Slot)]
      /\ \A r \in SlotQueue : HasIn(Slot, m, r, l[r]) /\ l[r] \in Seq(Slot)
      /\ \A r \in SlotQueue : r # q => Members(l[q]) \cap Members(l[r]) = {}
      /\ Distinct(l[q])
  BY DEF Stands, HasIn, Chain
<1>2. /\ n \in MemoryOn(Slot, SlotQueue)
      /\ HasIn(Slot, n, q, Without(l[q], z))
      /\ \A r \in SlotQueue : r # q => HasIn(Slot, n, r, l[r])
  BY <1>1, RemoveList, ProcSizes
<1>3. \A r \in SlotQueue : l2[r] = IF r = q THEN Without(l[q], z) ELSE l[r]
  BY <1>1
<1>4. /\ Without(l[q], z) \in Seq(Slot)
      /\ Members(Without(l[q], z)) = Members(l[q]) \ {l[q][z]}
  BY <1>1, WithoutFacts
<1>5. l2 \in [SlotQueue -> Seq(Slot)]
  BY <1>1, <1>4
<1>6. l[q][z] \in Slot
  BY <1>1
<1> HIDE DEF n, l2
<1>7. ASSUME NEW r \in SlotQueue, NEW t \in SlotQueue, r # t
      PROVE  Members(l2[r]) \cap Members(l2[t]) = {}
  <2>1. Members(l[r]) \cap Members(l[t]) = {}
    BY <1>7 DEF Stands
  <2>2. QED  BY <1>3, <1>4, <1>7, <2>1
<1>8. Stands(n, l2)
  BY <1>2, <1>3, <1>5, <1>7 DEF Stands
<1>9. QED  BY <1>4, <1>6, <1>8, SameLists DEF n, l2

LEMMA StandsDequeue ==
  ASSUME NEW m, NEW l, Stands(m, l), NEW q \in SlotQueue
  PROVE  /\ Procs!IsEmpty(m, q) <=> l[q] = <<>>
         /\ l[q] = <<>> => Procs!Dequeued(m, q) = Null /\ Procs!QueueInit(m, q) = m
         /\ l[q] # <<>> => /\ Procs!Dequeued(m, q) = Head(l[q]) /\ Head(l[q]) \in Slot
                           /\ Stands(Procs!QueueDequeue(m, q), [l EXCEPT ![q] = Tail(@)])
                           /\ Members(Tail(l[q])) = Members(l[q]) \ {Head(l[q])}
                           /\ Head(l[q]) \in Members(l[q])
<1>1. /\ m \in MemoryOn(Slot, SlotQueue) /\ l[q] \in Seq(Slot) /\ HasIn(Slot, m, q, l[q])
      /\ Distinct(l[q]) /\ Visits(m, q, l[q])
      /\ m.tail[q] = IF l[q] = <<>> THEN Null ELSE l[q][Len(l[q])]
  BY DEF Stands, HasIn, Chain
<1> DEFINE s == l[q]
<1> HIDE DEF s
<1>2. s # <<>> => Head(s) = s[1] /\ s[1] \in Slot /\ s[1] # Null
  BY <1>1, ProcSizes DEF s
<1>3. m.head[q] = IF s = <<>> THEN Null ELSE Head(s)
  BY <1>1, <1>2 DEF Visits, s
<1>4. IsEmpty(m, q) <=> s = <<>>
  BY <1>2, <1>3 DEF IsEmpty
<1>5. Dequeued(m, q) = m.head[q]
  BY DEF Dequeued
<1>6. ASSUME s = <<>> PROVE QueueInit(m, q) = m
  <2>1. m.head[q] = Null /\ m.tail[q] = Null
    BY <1>1, <1>3, <1>6 DEF s
  <2>2. /\ m.head \in [SlotQueue -> PointerTo(Slot)] /\ m.tail \in [SlotQueue -> PointerTo(Slot)]
        /\ m = [head |-> m.head, tail |-> m.tail, next |-> m.next, prev |-> m.prev]
        /\ m \in [head : [SlotQueue -> PointerTo(Slot)], tail : [SlotQueue -> PointerTo(Slot)],
                  next : [Slot -> PointerTo(Slot)], prev : [Slot -> PointerTo(Slot)]]
    BY <1>1 DEF MemoryOn
  <2>3. QED  BY <2>1, <2>2 DEF QueueInit
<1>7. ASSUME s # <<>>
      PROVE  /\ Stands(Procs!QueueDequeue(m, q), [l EXCEPT ![q] = Tail(@)])
             /\ Members(Tail(s)) = Members(s) \ {Head(s)} /\ Head(s) \in Members(s)
  <2>1. 1 \in DOMAIN s /\ Without(s, 1) = Tail(s)
    BY <1>1, <1>7, WithoutHead DEF s
  <2>2. QueueDequeue(m, q) = QueueRemove(m, q, s[1])
    BY <1>1, <1>7, ProcSizes, DequeueIsRemove DEF s
  <2>3. Stands(Procs!QueueRemove(m, q, s[1]), [l EXCEPT ![q] = Without(@, 1)])
    BY <2>1, StandsRemove DEF s
  <2>4. [l EXCEPT ![q] = Without(@, 1)] = [l EXCEPT ![q] = Tail(@)]
    BY <2>1 DEF s
  <2>5. Members(Tail(s)) = Members(s) \ {Head(s)} /\ Head(s) \in Members(s)
    BY <1>1, <1>7, TailFacts DEF s
  <2>6. QED  BY <2>2, <2>3, <2>4, <2>5, SameLists
<1>8. QED  BY <1>2, <1>3, <1>4, <1>5, <1>6, <1>7, SameLists DEF s

-----------------------------------------------------------------------------
(* What the kernel does to the PCBs                                        *)

Statuses == {"UNUSED", "READY", "BLOCKED", "RUNNING", "EXITED"}

\* The PCBs k0: their lists are the queues l, their statuses st, their in_queue iq.
Shows(k0, l, st, iq) ==
  /\ k0 = [mem |-> k0.mem, status |-> st, inQueue |-> iq]
  /\ Stands(k0.mem, l)
  /\ st \in [Slot -> Statuses]
  /\ iq \in [Slot -> SlotQueue]

\* The statuses (or in_queue fields) g, but r at the tasks of S.
Set(u, S, r) == [t \in Slot |-> IF t \in S THEN r ELSE u[t]]

\* The queues once those in the queue of q are at the end of the ready queue.
Freed(l, q) == [l EXCEPT ![ReadyQueue] = @ \o l[q], ![q] = <<>>]

\* A task that is in no queue is put into one, or a task is taken out of its queue.
LEMMA PutShows ==
  ASSUME NEW k0, NEW l, NEW st, NEW iq, Shows(k0, l, st, iq),
         NEW q \in SlotQueue, NEW t \in Slot, NEW s \in Statuses, Nowhere(t, l)
  PROVE  Shows(Procs!Put(k0, q, t, s), [l EXCEPT ![q] = Append(@, t)], [st EXCEPT ![t] = s], iq)
<1> DEFINE m == Procs!QueuePush(k0.mem, q, t)
           u == [st EXCEPT ![t] = s]
           r == Procs!Put(k0, q, t, s)
<1>1. k0 = [mem |-> k0.mem, status |-> st, inQueue |-> iq] /\ Stands(k0.mem, l)
      /\ st \in [Slot -> Statuses] /\ iq \in [Slot -> SlotQueue]
  BY DEF Shows
<1>2. r = [k0 EXCEPT !.mem = m, !.status = [@ EXCEPT ![t] = s]]
  BY DEF Procs!Put
<1> HIDE DEF m, r
<1>3. r = [mem |-> m, status |-> u, inQueue |-> iq]
  <2>1. k0.status = st
    BY <1>1
  <2>2. r = [k0 EXCEPT !.mem = m, !.status = u]
    BY <1>2, <2>1
  <2> DEFINE x == k0.mem
  <2>3. k0 = [mem |-> x, status |-> st, inQueue |-> iq]
    BY <1>1
  <2> HIDE DEF u, x
  <2>4. [k0 EXCEPT !.mem = m] = [mem |-> m, status |-> st, inQueue |-> iq]
    BY <2>3
  <2>5. r = [[mem |-> m, status |-> st, inQueue |-> iq] EXCEPT !.status = u]
    BY <2>2, <2>4
  <2>6. QED  BY <2>5
<1>4. Stands(m, [l EXCEPT ![q] = Append(@, t)])
  BY <1>1, StandsPush DEF m
<1>5. u \in [Slot -> Statuses]
  BY <1>1
<1> HIDE DEF u
<1>6. r.mem = m
  BY <1>3
<1>7. Shows(r, [l EXCEPT ![q] = Append(@, t)], u, iq)
  BY <1>1, <1>3, <1>4, <1>5, <1>6 DEF Shows
<1>8. QED  BY <1>7 DEF r, u

LEMMA TakeShows ==
  ASSUME NEW k0, NEW l, NEW st, NEW iq, Shows(k0, l, st, iq),
         NEW q \in SlotQueue, NEW n \in DOMAIN l[q]
  PROVE  /\ Shows(Procs!Take(k0, q, l[q][n]), [l EXCEPT ![q] = Without(@, n)], st, iq)
         /\ Nowhere(l[q][n], [l EXCEPT ![q] = Without(@, n)])
         /\ l[q][n] \in Slot
<1> DEFINE x == l[q][n]
           m == Procs!QueueRemove(k0.mem, q, x)
           r == Procs!Take(k0, q, x)
           w == [l EXCEPT ![q] = Without(@, n)]
<1>1. k0 = [mem |-> k0.mem, status |-> st, inQueue |-> iq] /\ Stands(k0.mem, l)
      /\ st \in [Slot -> Statuses] /\ iq \in [Slot -> SlotQueue]
  BY DEF Shows
<1>2. r = [k0 EXCEPT !.mem = m]
  BY DEF Procs!Take
<1>3. Stands(m, w) /\ Members(Without(l[q], n)) = Members(l[q]) \ {x} /\ x \in Slot
  BY <1>1, StandsRemove
<1>4. Nowhere(x, w)
  <2> SUFFICES ASSUME NEW t \in SlotQueue PROVE x \notin Members(w[t])
    BY DEF Nowhere
  <2>1. x \in Members(l[q])
    BY DEF Members
  <2>2. t # q => x \notin Members(l[t])
    BY <1>1, <2>1 DEF Stands
  <2>3. w[t] = IF t = q THEN Without(l[q], n) ELSE l[t]
    BY <1>1 DEF Stands
  <2>4. QED  BY <1>3, <2>2, <2>3
<1> HIDE DEF m, r, w, x
<1>5. r = [mem |-> m, status |-> st, inQueue |-> iq]
  BY <1>1, <1>2
<1>6. r.mem = m
  BY <1>5
<1>7. Shows(r, w, st, iq)
  BY <1>1, <1>3, <1>5, <1>6 DEF Shows
<1>8. QED  BY <1>3, <1>4, <1>7 DEF r, w, x

\* Nobody stands twice, so the first of a queue is nowhere once it is taken.
LEMMA UnblockOneShows ==
  ASSUME NEW k0, NEW l, NEW st, NEW iq, Shows(k0, l, st, iq),
         NEW q \in SlotQueue, q # ReadyQueue, l[q] # <<>>
  PROVE  Shows(Procs!UnblockOne(k0, q),
               [l EXCEPT ![ReadyQueue] = Append(@, Head(l[q])), ![q] = Tail(@)],
               [st EXCEPT ![Head(l[q])] = "READY"], iq)
<1> DEFINE x == Head(l[q])
           m == Procs!QueueDequeue(k0.mem, q)
           b0 == [k0 EXCEPT !.mem = m]
           w == [l EXCEPT ![q] = Tail(@)]
           z == [w EXCEPT ![ReadyQueue] = Append(@, x)]
<1>1. k0 = [mem |-> k0.mem, status |-> st, inQueue |-> iq] /\ Stands(k0.mem, l)
      /\ st \in [Slot -> Statuses] /\ iq \in [Slot -> SlotQueue] /\ l \in [SlotQueue -> Seq(Slot)]
  BY DEF Shows, Stands
<1>2. /\ Procs!Dequeued(k0.mem, q) = x /\ x \in Slot /\ Stands(m, w)
      /\ Members(Tail(l[q])) = Members(l[q]) \ {x} /\ x \in Members(l[q])
  BY <1>1, StandsDequeue
<1>3. Nowhere(x, w)
  <2> SUFFICES ASSUME NEW t \in SlotQueue PROVE x \notin Members(w[t])
    BY DEF Nowhere
  <2>2. t # q => x \notin Members(l[t])
    BY <1>1, <1>2 DEF Stands
  <2>3. w[t] = IF t = q THEN Tail(l[q]) ELSE l[t]
    BY <1>1
  <2>4. QED  BY <1>2, <2>2, <2>3
<1>4. ReadyQueue \in SlotQueue
  BY DEF SlotQueue
<1>5. z = [l EXCEPT ![ReadyQueue] = Append(@, x), ![q] = Tail(@)]
  <2>1. ReadyQueue # q
    OBVIOUS
  <2> HIDE DEF x
  <2>2. QED  BY <1>1, <1>4, <2>1
<1>6. Procs!UnblockOne(k0, q) = Procs!Put(b0, ReadyQueue, x, "READY")
  BY <1>2 DEF Procs!UnblockOne
<1> HIDE DEF m, w, x
<1>7. b0 = [mem |-> m, status |-> st, inQueue |-> iq] /\ b0.mem = m
  <2> DEFINE r0 == [mem |-> k0.mem, status |-> st, inQueue |-> iq]
  <2>1. k0 = r0
    BY <1>1
  <2> HIDE DEF r0
  <2>2. b0 = [r0 EXCEPT !.mem = m]
    BY <2>1
  <2>3. [r0 EXCEPT !.mem = m] = [mem |-> m, status |-> st, inQueue |-> iq]
    BY DEF r0
  <2> HIDE DEF b0
  <2>4. QED  BY <2>2, <2>3
<1> HIDE DEF b0
<1>8. Shows(b0, w, st, iq)
  BY <1>1, <1>2, <1>7 DEF Shows
<1>9. "READY" \in Statuses
  BY DEF Statuses
<1>10. Shows(Procs!Put(b0, ReadyQueue, x, "READY"), z, [st EXCEPT ![x] = "READY"], iq)
  BY <1>2, <1>3, <1>4, <1>8, <1>9, PutShows
<1> HIDE DEF z
<1>11. QED  BY <1>5, <1>6, <1>10 DEF x

LEMMA UnblockRuns ==
  ASSUME NEW k0, NEW q
  PROVE  \E v : /\ Procs!UnblockAll(k0, q) = v[Cardinality(Slot)]
                /\ v[0] = k0
                /\ \A n \in 1..Cardinality(Slot) :
                     v[n] = IF Procs!IsEmpty(v[n - 1].mem, q) THEN v[n - 1]
                            ELSE Procs!UnblockOne(v[n - 1], q)
<1> DEFINE K == Cardinality(Slot)
           Then(s) == IF Procs!IsEmpty(s.mem, q) THEN s ELSE Procs!UnblockOne(s, q)
           Run(v, N) == v = [n \in 0..N |-> IF n = 0 THEN k0 ELSE Then(v[n - 1])]
           T == {N \in Nat : \E v : Run(v, N)}
<1>0. K \in Nat
  BY ProcSizes
<1>1. Procs!UnblockAll(k0, q) = (CHOOSE v : Run(v, K))[K]
  BY ProcSizes DEF Procs!UnblockAll
<1> HIDE DEF Then, K
<1>2. ASSUME NEW N \in Nat, N \in T PROVE N + 1 \in T
  <2>1. PICK v : Run(v, N)
    BY <1>2
  <2> DEFINE w == [n \in 0..(N + 1) |-> IF n < N + 1 THEN v[n] ELSE Then(v[N])]
  <2>2. ASSUME NEW n \in 0..(N + 1)
        PROVE  w[n] = IF n = 0 THEN k0 ELSE Then(w[n - 1])
    <3>1. CASE n < N + 1
      <4>1. n \in 0..N /\ w[n] = v[n]
        BY <3>1
      <4>2. v[n] = IF n = 0 THEN k0 ELSE Then(v[n - 1])
        BY <2>1, <4>1
      <4>3. n # 0 => w[n - 1] = v[n - 1]
        BY <3>1
      <4>4. QED  BY <4>1, <4>2, <4>3
    <3>2. CASE n = N + 1
      BY <3>2
    <3>3. QED  BY <3>1, <3>2
  <2>3. Run(w, N + 1)
    BY <2>2
  <2>4. \E u : Run(u, N + 1)
    BY <2>3
  <2> HIDE DEF Run
  <2>5. QED  BY <2>4
<1>3. 0 \in T
  <2>1. Run([n \in 0..0 |-> k0], 0)
    OBVIOUS
  <2>2. QED  BY <2>1
<1>4. \A N \in Nat : N \in T
  <2> HIDE DEF T
  <2>1. QED  BY <1>2, <1>3, CountUp
<1>5. PICK v : Run(v, K) /\ v = (CHOOSE u : Run(u, K))
  BY <1>0, <1>4
<1> HIDE DEF Run
<1>6. Procs!UnblockAll(k0, q) = v[K]
  BY <1>1, <1>5
<1> USE DEF Run
<1>7. v[0] = k0 /\ \A n \in 1..K : v[n] = Then(v[n - 1])
  <2>1. \A n \in 0..K : v[n] = IF n = 0 THEN k0 ELSE Then(v[n - 1])
    BY <1>5
  <2>2. QED  BY <1>0, <2>1
<1>8. QED  BY <1>6, <1>7 DEF K, Then

\* do_unblock_all appends a queue to the ready queue.
LEMMA UnblockAllShows ==
  ASSUME NEW k0, NEW l, NEW st, NEW iq, Shows(k0, l, st, iq),
         NEW q \in SlotQueue, q # ReadyQueue
  PROVE  Shows(Procs!UnblockAll(k0, q),
               Freed(l, q), Set(st, Members(l[q]), "READY"), iq)
<1> DEFINE L == l[q]
           K == Cardinality(Slot)
           D(n) == IF n <= Len(L) THEN n ELSE Len(L)
           queues(d0) == [l EXCEPT ![ReadyQueue] = @ \o SubSeq(L, 1, d0), ![q] = SubSeq(L, d0 + 1, Len(L))]
           stat(d0) == [t \in Slot |-> IF t \in Members(SubSeq(L, 1, d0)) THEN "READY" ELSE st[t]]
           Ok(s, d0) == Shows(s, queues(d0), stat(d0), iq)
<1>1. PICK v : /\ Procs!UnblockAll(k0, q) = v[K]
               /\ v[0] = k0
               /\ \A n \in 1..K : v[n] = IF Procs!IsEmpty(v[n - 1].mem, q) THEN v[n - 1]
                                         ELSE Procs!UnblockOne(v[n - 1], q)
  BY UnblockRuns
<1>2. /\ l \in [SlotQueue -> Seq(Slot)] /\ L \in Seq(Slot) /\ Len(L) \in Nat
      /\ st \in [Slot -> Statuses] /\ ReadyQueue \in SlotQueue
      /\ l[ReadyQueue] \in Seq(Slot)
  BY DEF Shows, Stands, SlotQueue
<1>3. K \in Nat /\ Len(L) <= K
  <2>1. Distinct(L)
    BY DEF Shows, Stands, HasIn, Chain
  <2>2. QED  BY <1>2, <2>1, DistinctIsShort, ProcSizes
<1> HIDE DEF L, K
<1>4. SubSeq(L, 1, 0) = <<>> /\ SubSeq(L, 0 + 1, Len(L)) = L
  BY <1>2, SubSeqEmpty, SubSeqFull
<1>5. SubSeq(L, 1, Len(L)) = L /\ SubSeq(L, Len(L) + 1, Len(L)) = <<>>
  BY <1>2, SubSeqEmpty, SubSeqFull
<1>6. Ok(k0, 0)
  <2>1. l[ReadyQueue] \o <<>> = l[ReadyQueue]
    BY <1>2
  <2>2. queues(0) = l
    BY <1>2, <1>4, <2>1 DEF L
  <2>3. Members(<<>>) = {}
    BY DEF Members
  <2>4. stat(0) = st
    BY <1>2, <1>4, <2>3
  <2> HIDE DEF queues, stat
  <2>5. QED  BY <2>2, <2>4
<1>7. ASSUME NEW d0 \in Nat, d0 + 1 <= Len(L), NEW s, Ok(s, d0)
      PROVE  Ok(IF Procs!IsEmpty(s.mem, q) THEN s ELSE Procs!UnblockOne(s, q), d0 + 1)
  <2> DEFINE a0 == queues(d0)
             b0 == stat(d0)
             x == L[d0 + 1]
  <2>1. /\ SubSeq(L, d0 + 1, Len(L)) # <<>>
        /\ Head(SubSeq(L, d0 + 1, Len(L))) = x /\ x \in Slot
        /\ Tail(SubSeq(L, d0 + 1, Len(L))) = SubSeq(L, d0 + 2, Len(L))
        /\ Append(l[ReadyQueue] \o SubSeq(L, 1, d0), x) = l[ReadyQueue] \o SubSeq(L, 1, d0 + 1)
        /\ Members(SubSeq(L, 1, d0 + 1)) = Members(SubSeq(L, 1, d0)) \cup {x}
    <3> DEFINE R == l[ReadyQueue]
               p == SubSeq(L, 1, d0)
    <3>1. L \in Seq(Slot) /\ d0 + 1 <= Len(L)
      BY <1>2, <1>7
    <3>2. /\ SubSeq(L, d0 + 1, Len(L)) # <<>>
          /\ Head(SubSeq(L, d0 + 1, Len(L))) = L[d0 + 1] /\ L[d0 + 1] \in Slot
          /\ Tail(SubSeq(L, d0 + 1, Len(L))) = SubSeq(L, d0 + 2, Len(L))
          /\ Members(SubSeq(L, 1, d0 + 1)) = Members(SubSeq(L, 1, d0)) \cup {L[d0 + 1]}
      BY <3>1, MoveOne
    <3>3. p \in Seq(Slot) /\ Append(p, x) = SubSeq(L, 1, d0 + 1)
      BY <3>1, PrefixGrows
    <3> HIDE DEF p, x, R
    <3>4. R \in Seq(Slot) /\ p \in Seq(Slot) /\ x \in Slot
      BY <1>2, <3>2, <3>3 DEF R, x
    <3>5. Append(R \o p, x) = R \o Append(p, x)
      BY <3>4
    <3>6. QED  BY <3>2, <3>3, <3>5 DEF R, p, x
  <2>2. a0[q] = SubSeq(L, d0 + 1, Len(L)) /\ a0[ReadyQueue] = l[ReadyQueue] \o SubSeq(L, 1, d0)
    BY <1>2
  <2>3. Shows(s, a0, b0, iq) /\ Stands(s.mem, a0)
    BY <1>7 DEF Shows
  <2>4. [a0 EXCEPT ![ReadyQueue] = Append(@, x), ![q] = Tail(@)] = queues(d0 + 1)
    <3>1. d0 + 1 + 1 = d0 + 2
      OBVIOUS
    <3>2. QED  BY <1>2, <2>1, <3>1
  <2>5. [b0 EXCEPT ![x] = "READY"] = stat(d0 + 1)
    BY <2>1
  <2> HIDE DEF a0, b0, queues, stat
  <2>6. a0[q] # <<>> /\ Head(a0[q]) = x
    BY <2>1, <2>2
  <2>7. ~ Procs!IsEmpty(s.mem, q)
    <3> DEFINE m == s.mem
    <3> HIDE DEF m
    <3>1. Stands(m, a0)
      BY <2>3 DEF m
    <3>2. Procs!IsEmpty(m, q) <=> a0[q] = <<>>
      BY <3>1, StandsDequeue
    <3>3. QED  BY <2>6, <3>2 DEF m
  <2>8. Shows(Procs!UnblockOne(s, q), queues(d0 + 1), stat(d0 + 1), iq)
    BY <2>3, <2>4, <2>5, <2>6, UnblockOneShows
  <2>9. QED  BY <2>7, <2>8
<1>8. ASSUME NEW s, Ok(s, Len(L))
      PROVE  (IF Procs!IsEmpty(s.mem, q) THEN s ELSE Procs!UnblockOne(s, q)) = s
  <2>1. queues(Len(L))[q] = <<>>
    BY <1>2, <1>5
  <2> HIDE DEF queues
  <2>2. Stands(s.mem, queues(Len(L)))
    BY <1>8 DEF Shows
  <2>3. Procs!IsEmpty(s.mem, q)
    BY <2>1, <2>2, StandsDequeue
  <2>4. QED  BY <2>3
<1> DEFINE T == {n \in Nat : n <= K => Ok(v[n], D(n))}
<1> HIDE DEF Ok
<1>9. 0 \in T
  BY <1>1, <1>2, <1>6
<1>10. ASSUME NEW n \in Nat, n \in T PROVE n + 1 \in T
  <2> SUFFICES ASSUME n + 1 <= K PROVE Ok(v[n + 1], D(n + 1))
    OBVIOUS
  <2>1. Ok(v[n], D(n))
    BY <1>3, <1>10
  <2>2. v[n + 1] = IF Procs!IsEmpty(v[n].mem, q) THEN v[n] ELSE Procs!UnblockOne(v[n], q)
    <3>1. n + 1 \in 1..K /\ n + 1 - 1 = n
      BY <1>3
    <3>2. v[n + 1] = IF Procs!IsEmpty(v[n + 1 - 1].mem, q) THEN v[n + 1 - 1]
                     ELSE Procs!UnblockOne(v[n + 1 - 1], q)
      BY <1>1, <3>1
    <3>3. QED  BY <3>1, <3>2
  <2>3. CASE n + 1 <= Len(L)
    <3>1. D(n) = n /\ D(n + 1) = n + 1
      BY <1>2, <2>3
    <3> HIDE DEF D
    <3>2. QED  BY <1>7, <2>1, <2>2, <2>3, <3>1
  <2>4. CASE ~ (n + 1 <= Len(L))
    <3>1. D(n) = Len(L) /\ D(n + 1) = Len(L)
      BY <1>2, <2>4
    <3> HIDE DEF D
    <3>2. QED  BY <1>8, <2>1, <2>2, <3>1
  <2>5. QED  BY <2>3, <2>4
<1>11. K \in T
  <2> HIDE DEF T
  <2>1. QED  BY <1>3, <1>9, <1>10, CountUp
<1>12. Ok(v[K], Len(L))
  <2>1. D(K) = Len(L) /\ Ok(v[K], D(K))
    BY <1>2, <1>3, <1>11
  <2>2. QED  BY <2>1
<1>13. /\ queues(Len(L)) = [l EXCEPT ![ReadyQueue] = @ \o L, ![q] = <<>>]
       /\ stat(Len(L)) = Set(st, Members(L), "READY")
  BY <1>5 DEF Set
<1> HIDE DEF queues, stat
<1>14. QED  BY <1>1, <1>12, <1>13 DEF Ok, L, Freed

-----------------------------------------------------------------------------
(* check_sleeping                                                          *)

\* The places of w in s: w has the first n items of s that are in S, in their order.
Picked(w, s, n, S) ==
  /\ Distinct(w)
  /\ \A z \in 1..n : s[z] \in S => s[z] \in Members(w)
  /\ \A z \in DOMAIN w : \E x \in 1..n : s[x] = w[z] /\ w[z] \in S
  /\ \A z, o \in DOMAIN w : z < o => \E x, y \in 1..n : x < y /\ s[x] = w[z] /\ s[y] = w[o]

LEMMA PickedNone ==
  ASSUME NEW s, NEW S
  PROVE  Picked(<<>>, s, 0, S) /\ Members(<<>>) = {}
BY DEF Picked, Distinct, Members

LEMMA PickedNot ==
  ASSUME NEW w, NEW s, NEW n \in Nat, NEW S, Picked(w, s, n, S), s[n + 1] \notin S
  PROVE  Picked(w, s, n + 1, S)
<1>1. 1..n \subseteq 1..(n + 1) /\ \A z \in 1..(n + 1) : z \in 1..n \/ z = n + 1
  OBVIOUS
<1>2. \A z \in DOMAIN w : \E x \in 1..(n + 1) : s[x] = w[z] /\ w[z] \in S
  BY <1>1 DEF Picked
<1>3. \A z, o \in DOMAIN w : z < o => \E x, y \in 1..(n + 1) : x < y /\ s[x] = w[z] /\ s[y] = w[o]
  BY <1>1 DEF Picked
<1>4. \A z \in 1..(n + 1) : s[z] \in S => s[z] \in Members(w)
  BY <1>1 DEF Picked
<1>5. QED  BY <1>2, <1>3, <1>4 DEF Picked

LEMMA PickedNext ==
  ASSUME NEW P, NEW w \in Seq(P), NEW s \in Seq(P), Distinct(s), NEW n \in Nat, n + 1 <= Len(s),
         NEW S, Picked(w, s, n, S), s[n + 1] \in S
  PROVE  Picked(Append(w, s[n + 1]), s, n + 1, S)
<1> DEFINE t == s[n + 1]
           v == Append(w, t)
           len == Len(w)
<1>1. t \in P /\ DOMAIN s = 1..Len(s) /\ Len(s) \in Nat
  OBVIOUS
<1>2. /\ v \in Seq(P) /\ Len(v) = len + 1 /\ DOMAIN v = 1..(len + 1) /\ len \in Nat /\ DOMAIN w = 1..len
      /\ v[len + 1] = t /\ \A z \in 1..len : v[z] = w[z]
  BY <1>1
<1>3. \A x \in 1..n : x \in 1..(n + 1) /\ x < n + 1 /\ s[x] # t
  BY <1>1 DEF Distinct
<1>4. n + 1 \in 1..(n + 1) /\ \A z \in 1..(n + 1) : z \in 1..n \/ z = n + 1
  OBVIOUS
<1>5. t \notin Members(w)
  BY <1>3 DEF Picked, Members
<1>6. Distinct(v) /\ Members(v) = Members(w) \cup {t}
  BY <1>1, <1>5, AppendFacts DEF Picked
<1> HIDE DEF v, t
<1>7. ASSUME NEW z \in 1..(n + 1), s[z] \in S PROVE s[z] \in Members(v)
  BY <1>4, <1>6, <1>7 DEF Picked, t
<1>8. ASSUME NEW z \in DOMAIN v
      PROVE  \E x \in 1..(n + 1) : s[x] = v[z] /\ v[z] \in S /\ (z \in 1..len => x < n + 1)
  <2>1. CASE z \in 1..len
    <3>1. PICK x \in 1..n : s[x] = w[z] /\ w[z] \in S
      BY <1>2, <2>1 DEF Picked
    <3>2. QED  BY <1>2, <1>3, <2>1, <3>1
  <2>2. CASE z = len + 1
    BY <1>2, <1>4, <2>2 DEF t
  <2>3. QED  BY <1>2, <2>1, <2>2
<1>9. ASSUME NEW z \in DOMAIN v, NEW o \in DOMAIN v, z < o
      PROVE  \E x, y \in 1..(n + 1) : x < y /\ s[x] = v[z] /\ s[y] = v[o]
  <2>0. z \in 1..len /\ len \in Nat
    BY <1>2, <1>9
  <2>1. CASE o \in 1..len
    <3>1. PICK x, y \in 1..n : x < y /\ s[x] = w[z] /\ s[y] = w[o]
      BY <1>2, <1>9, <2>0, <2>1 DEF Picked
    <3>2. QED  BY <1>2, <1>3, <2>0, <2>1, <3>1
  <2>2. CASE o = len + 1
    <3>1. PICK x \in 1..(n + 1) : s[x] = v[z] /\ x < n + 1
      BY <1>8, <2>0
    <3>2. s[n + 1] = v[o] /\ n + 1 \in 1..(n + 1)
      BY <1>2, <1>4, <2>2 DEF t
    <3>3. QED  BY <3>1, <3>2
  <2>3. QED  BY <1>2, <2>1, <2>2
<1>10. Picked(v, s, n + 1, S)
  BY <1>6, <1>7, <1>8, <1>9 DEF Picked
<1>11. QED  BY <1>10 DEF v, t

\* Sched says the same of queues.
LEMMA SameInSched ==
  /\ \A s : Procs!Abstract!Members(s) = Members(s)
  /\ \A s, n : Procs!Abstract!Without(s, n) = Without(s, n)
  /\ \A S : Procs!Abstract!Cardinality(S) = Cardinality(S)
<1>1. \A s : Procs!Abstract!Members(s) = Members(s)
  BY DEF Procs!Abstract!Members, Members
<1>2. \A s, n : Procs!Abstract!Without(s, n) = Without(s, n)
  BY DEF Procs!Abstract!Without, Without
<1>3. \A S : Procs!Abstract!Cardinality(S) = Cardinality(S)
  BY DEF Procs!Abstract!Cardinality, Cardinality
<1>4. QED  BY <1>1, <1>2, <1>3

LEMMA PickedAll ==
  ASSUME NEW P, NEW w \in Seq(P), NEW s \in Seq(P), NEW S \in SUBSET Members(s),
         Picked(w, s, Len(s), S)
  PROVE  Members(w) = S /\ w \in Procs!Abstract!InOrder(s, S)
<1>1. DOMAIN s = 1..Len(s) /\ DOMAIN w = 1..Len(w) /\ w \in [1..Len(w) -> P]
  OBVIOUS
<1>2. Members(w) = S
  BY <1>1 DEF Members, Picked
<1>3. Cardinality(S) = Len(w)
  BY <1>2, LengthIsSize DEF Picked
<1>4. w \in [1..Cardinality(S) -> S]
  BY <1>1, <1>2, <1>3 DEF Members
<1>5. \A z, o \in DOMAIN w : z < o => \E x, y \in DOMAIN s : x < y /\ s[x] = w[z] /\ s[y] = w[o]
  <2>1. \A z, o \in DOMAIN w : z < o => \E x, y \in 1..Len(s) : x < y /\ s[x] = w[z] /\ s[y] = w[o]
    BY DEF Picked
  <2> SUFFICES ASSUME NEW z \in DOMAIN w, NEW o \in DOMAIN w, z < o
               PROVE  \E x, y \in DOMAIN s : x < y /\ s[x] = w[z] /\ s[y] = w[o]
    OBVIOUS
  <2>2. PICK x, y \in 1..Len(s) : x < y /\ s[x] = w[z] /\ s[y] = w[o]
    BY <2>1
  <2>3. x \in DOMAIN s /\ y \in DOMAIN s
    BY <1>1
  <2>4. QED  BY <2>2, <2>3
<1>6. QED  BY <1>2, <1>4, <1>5, SameInSched DEF Procs!Abstract!InOrder

LEMMA CheckRuns ==
  ASSUME NEW k0, NEW lf
  PROVE  \E v : /\ Procs!CheckSleeping(k0, lf) = v[Cardinality(Slot) + 1].k
                /\ v[0] = [k |-> k0, t |-> k0.mem.head[BlockQueue]]
                /\ \A n \in 1..(Cardinality(Slot) + 1) :
                     v[n] = IF v[n - 1].t = Null THEN v[n - 1] ELSE Procs!CheckSleeper(v[n - 1], lf)
<1> DEFINE K == Cardinality(Slot) + 1
           Begin == [k |-> k0, t |-> k0.mem.head[BlockQueue]]
           Then(s) == IF s.t = Null THEN s ELSE Procs!CheckSleeper(s, lf)
           Run(v, N) == v = [n \in 0..N |-> IF n = 0 THEN Begin ELSE Then(v[n - 1])]
           T == {N \in Nat : \E v : Run(v, N)}
<1>0. K \in Nat
  BY ProcSizes
<1>1. Procs!CheckSleeping(k0, lf) = (CHOOSE v : Run(v, K))[K].k
  BY ProcSizes DEF Procs!CheckSleeping
<1> HIDE DEF Then, K, Begin
<1>2. ASSUME NEW N \in Nat, N \in T PROVE N + 1 \in T
  <2>1. PICK v : Run(v, N)
    BY <1>2
  <2> DEFINE w == [n \in 0..(N + 1) |-> IF n < N + 1 THEN v[n] ELSE Then(v[N])]
  <2>2. ASSUME NEW n \in 0..(N + 1)
        PROVE  w[n] = IF n = 0 THEN Begin ELSE Then(w[n - 1])
    <3>1. CASE n < N + 1
      <4>1. n \in 0..N /\ w[n] = v[n]
        BY <3>1
      <4>2. v[n] = IF n = 0 THEN Begin ELSE Then(v[n - 1])
        BY <2>1, <4>1
      <4>3. n # 0 => w[n - 1] = v[n - 1]
        BY <3>1
      <4>4. QED  BY <4>1, <4>2, <4>3
    <3>2. CASE n = N + 1
      BY <3>2
    <3>3. QED  BY <3>1, <3>2
  <2>3. Run(w, N + 1)
    BY <2>2
  <2>4. \E u : Run(u, N + 1)
    BY <2>3
  <2> HIDE DEF Run
  <2>5. QED  BY <2>4
<1>3. 0 \in T
  <2>1. Run([n \in 0..0 |-> Begin], 0)
    OBVIOUS
  <2>2. QED  BY <2>1
<1>4. \A N \in Nat : N \in T
  <2> HIDE DEF T
  <2>1. QED  BY <1>2, <1>3, CountUp
<1>5. PICK v : Run(v, K) /\ v = (CHOOSE u : Run(u, K))
  BY <1>0, <1>4
<1> HIDE DEF Run
<1>6. Procs!CheckSleeping(k0, lf) = v[K].k
  BY <1>1, <1>5
<1> USE DEF Run
<1>7. v[0] = Begin /\ \A n \in 1..K : v[n] = Then(v[n - 1])
  <2>1. \A n \in 0..K : v[n] = IF n = 0 THEN Begin ELSE Then(v[n - 1])
    BY <1>5
  <2>2. QED  BY <1>0, <2>1
<1>8. QED  BY <1>6, <1>7 DEF K, Then, Begin

\* The item a list goes on with.
LEMMA NextInList ==
  ASSUME NEW m, NEW l, Stands(m, l), NEW q \in SlotQueue, NEW n \in DOMAIN l[q]
  PROVE  m.next[l[q][n]] = IF n = Len(l[q]) THEN Null ELSE l[q][n + 1]
<1>1. l[q] \in Seq(Slot) /\ Visits(m, q, l[q])
  BY DEF Stands, HasIn, Chain
<1> DEFINE s == l[q]
<1>2. s # <<>> /\ n \in 1..Len(s) /\ Len(s) \in Nat
  BY <1>1
<1> HIDE DEF s
<1>3. /\ \A z \in 1..(Len(s) - 1) : m.next[s[z]] = s[z + 1]
      /\ m.next[s[Len(s)]] = Null
  BY <1>1, <1>2 DEF Visits, s
<1>4. n # Len(s) => n \in 1..(Len(s) - 1)
  BY <1>2
<1>5. QED  BY <1>3, <1>4 DEF s

LEMMA InQueueSet ==
  ASSUME NEW m, NEW st, NEW iq, NEW x, NEW q
  PROVE  [[mem |-> m, status |-> st, inQueue |-> iq] EXCEPT !.inQueue[x] = q]
           = [mem |-> m, status |-> st, inQueue |-> [iq EXCEPT ![x] = q]]
OBVIOUS

\* One turn of the loop of check_sleeping.
LEMMA CheckSleeperShows ==
  ASSUME NEW k0, NEW l, NEW st, NEW iq, Shows(k0, l, st, iq), NEW lf,
         NEW A \in Seq(Slot), NEW B \in Seq(Slot), B # <<>>, l[BlockQueue] = A \o B
  PROVE  LET r == Procs!CheckSleeper([k |-> k0, t |-> Head(B)], lf)
         IN /\ r = [k |-> r.k, t |-> IF Tail(B) = <<>> THEN Null ELSE Head(Tail(B))]
            /\ lf[Head(B)] > 0 => r.k = k0
            /\ ~ (lf[Head(B)] > 0) =>
                 Shows(r.k, [l EXCEPT ![ReadyQueue] = Append(@, Head(B)), ![BlockQueue] = A \o Tail(B)],
                       [st EXCEPT ![Head(B)] = "READY"], [iq EXCEPT ![Head(B)] = ReadyQueue])
<1> DEFINE S == l[BlockQueue]
           n == Len(A) + 1
           x == Head(B)
           then == IF Tail(B) = <<>> THEN Null ELSE Head(Tail(B))
           r == Procs!CheckSleeper([k |-> k0, t |-> x], lf)
           k1 == Procs!Take(k0, BlockQueue, x)
           k2 == Procs!Put(k1, ReadyQueue, x, "READY")
           l1 == [l EXCEPT ![BlockQueue] = A \o Tail(B)]
           l2 == [l1 EXCEPT ![ReadyQueue] = Append(@, x)]
<1>1. /\ BlockQueue \in SlotQueue /\ ReadyQueue \in SlotQueue /\ BlockQueue # ReadyQueue
      /\ "READY" \in Statuses
  BY ProcSizes DEF SlotQueue, Statuses
<1>2. /\ n \in DOMAIN S /\ S[n] = x
      /\ Without(S, n) = A \o Tail(B)
      /\ IF Tail(B) = <<>> THEN n = Len(S) ELSE n # Len(S) /\ S[n + 1] = Head(Tail(B))
  <2> DEFINE Z == A \o B
  <2>1. /\ Len(A) + 1 \in DOMAIN Z /\ Z[Len(A) + 1] = Head(B)
        /\ Without(Z, Len(A) + 1) = A \o Tail(B)
        /\ IF Tail(B) = <<>> THEN Len(A) + 1 = Len(Z)
           ELSE Len(A) + 1 # Len(Z) /\ Z[Len(A) + 1 + 1] = Head(Tail(B))
    BY Middle
  <2>2. S = Z
    OBVIOUS
  <2> HIDE DEF S, Z
  <2>3. QED  BY <2>1, <2>2
<1>3. Shows(k1, l1, st, iq) /\ Nowhere(x, l1) /\ x \in Slot
  <2> HIDE DEF n, x, k1, l1
  <2>1. /\ Shows(Procs!Take(k0, BlockQueue, l[BlockQueue][n]),
                 [l EXCEPT ![BlockQueue] = Without(@, n)], st, iq)
        /\ Nowhere(l[BlockQueue][n], [l EXCEPT ![BlockQueue] = Without(@, n)])
        /\ l[BlockQueue][n] \in Slot
    BY <1>1, <1>2, TakeShows
  <2>2. [l EXCEPT ![BlockQueue] = Without(@, n)] = l1
    BY <1>2 DEF l1
  <2>3. QED  BY <1>2, <2>1, <2>2 DEF k1
<1>4. k0.mem.next[x] = then
  <2> DEFINE m == k0.mem
  <2>1. Stands(m, l)
    BY DEF Shows
  <2> HIDE DEF m, n, x, then
  <2>2. m.next[l[BlockQueue][n]] = IF n = Len(l[BlockQueue]) THEN Null ELSE l[BlockQueue][n + 1]
    <3>1. BlockQueue \in SlotQueue /\ n \in DOMAIN l[BlockQueue]
      BY <1>1, <1>2
    <3> DEFINE Ends(u, v, q, z) == u.next[v[q][z]] = IF z = Len(v[q]) THEN Null ELSE v[q][z + 1]
    <3>2. \A u, v : Stands(u, v) => \A q \in SlotQueue : \A z \in DOMAIN v[q] : Ends(u, v, q, z)
      BY NextInList
    <3>3. Ends(m, l, BlockQueue, n)
      <4> HIDE DEF Ends
      <4>1. QED  BY <2>1, <3>1, <3>2
    <3>4. QED  BY <3>3
  <2> HIDE DEF S
  <2>3. QED  BY <1>2, <2>2 DEF m, then, S
<1>5. Procs!AfterRemoved(k0.mem, x) = then
  BY <1>4 DEF Procs!AfterRemoved
<1>6. Shows(k2, l2, [st EXCEPT ![x] = "READY"], iq)
  <2> HIDE DEF k1, l1, x
  <2>1. QED  BY <1>1, <1>3, PutShows
<1>7. r = IF lf[x] > 0 THEN [k |-> k0, t |-> then]
          ELSE [k |-> [k2 EXCEPT !.inQueue[x] = ReadyQueue], t |-> then]
  <2> HIDE DEF x, then
  <2>1. r = IF lf[x] > 0 THEN [[k |-> k0, t |-> x] EXCEPT !.t = k0.mem.next[x]]
            ELSE [k |-> [k2 EXCEPT !.inQueue[x] = ReadyQueue], t |-> Procs!AfterRemoved(k0.mem, x)]
    BY DEF Procs!CheckSleeper, Procs!NextSleeper
  <2> HIDE DEF r, k2
  <2>2. QED  BY <1>4, <1>5, <2>1
<1>8. ASSUME ~ (lf[x] > 0)
      PROVE  Shows(r.k, [l EXCEPT ![ReadyQueue] = Append(@, x), ![BlockQueue] = A \o Tail(B)],
                   [st EXCEPT ![x] = "READY"], [iq EXCEPT ![x] = ReadyQueue])
  <2> DEFINE k3 == [k2 EXCEPT !.inQueue[x] = ReadyQueue]
             st2 == [st EXCEPT ![x] = "READY"]
             iq2 == [iq EXCEPT ![x] = ReadyQueue]
             m == k2.mem
  <2>1. l2 = [l EXCEPT ![ReadyQueue] = Append(@, x), ![BlockQueue] = A \o Tail(B)]
    <3>1. l \in [SlotQueue -> Seq(Slot)]
      BY DEF Shows, Stands
    <3> DEFINE y == A \o Tail(B)
    <3> HIDE DEF x, y
    <3>2. QED  BY <1>1, <3>1
  <2>2. r.k = k3
    <3> HIDE DEF r, x, k3
    <3>1. QED  BY <1>7, <1>8 DEF k3
  <2>3. k2 = [mem |-> m, status |-> st2, inQueue |-> iq] /\ iq \in [Slot -> SlotQueue]
    BY <1>6 DEF Shows
  <2>4. k3 = [mem |-> m, status |-> st2, inQueue |-> iq2] /\ k3.mem = m
    <3> HIDE DEF k2, st2, m, x
    <3>1. [k2 EXCEPT !.inQueue[x] = ReadyQueue]
            = [[mem |-> m, status |-> st2, inQueue |-> iq] EXCEPT !.inQueue[x] = ReadyQueue]
      BY <2>3
    <3>2. [[mem |-> m, status |-> st2, inQueue |-> iq] EXCEPT !.inQueue[x] = ReadyQueue]
            = [mem |-> m, status |-> st2, inQueue |-> iq2]
      BY InQueueSet
    <3> HIDE DEF iq2
    <3>3. QED  BY <3>1, <3>2
  <2>5. iq2 \in [Slot -> SlotQueue]
    BY <1>1, <2>3
  <2> HIDE DEF k3, k2, l2, st2, iq2, x
  <2>6. Shows(k3, l2, st2, iq2)
    BY <1>6, <2>4, <2>5 DEF Shows, st2, m
  <2> HIDE DEF r
  <2>7. QED  BY <2>1, <2>2, <2>6 DEF st2, iq2
<1> HIDE DEF r, x, then
<1>9. r = [k |-> r.k, t |-> then] /\ (lf[x] > 0 => r.k = k0)
  BY <1>7
<1>10. QED  BY <1>8, <1>9 DEF r, x, then

\* The queues once the sleepers w are woken and al sleep on.
Awake(l, w, al) == [l EXCEPT ![ReadyQueue] = @ \o w, ![BlockQueue] = al]

\* The sleepers whose time is up.
DueIn(l, lf) == {t \in Members(l[BlockQueue]) : lf[t] = 0}

\* The sleepers check_sleeping has not looked at after n turns, and the one it is at.
Rest(s, n) == SubSeq(s, n + 1, Len(s))
Sleeper(s, n) == IF Rest(s, n) = <<>> THEN Null ELSE Head(Rest(s, n))

\* After n turns of the loop of check_sleeping.
Checked(s, n, l, st, iq, lf) ==
  \E w, al \in Seq(Slot) :
    /\ Picked(w, l[BlockQueue], n, DueIn(l, lf))
    /\ Picked(al, l[BlockQueue], n, Members(l[BlockQueue]) \ DueIn(l, lf))
    /\ Shows(s.k, Awake(l, w, al \o Rest(l[BlockQueue], n)),
             Set(st, Members(w), "READY"), Set(iq, Members(w), ReadyQueue))
    /\ s = [k |-> s.k, t |-> Sleeper(l[BlockQueue], n)]

LEMMA CheckedFirst ==
  ASSUME NEW k0, NEW l, NEW st, NEW iq, Shows(k0, l, st, iq), NEW lf
  PROVE  Checked([k |-> k0, t |-> k0.mem.head[BlockQueue]], 0, l, st, iq, lf)
<1> DEFINE S == l[BlockQueue]
           s == [k |-> k0, t |-> k0.mem.head[BlockQueue]]
<1>1. /\ l \in [SlotQueue -> Seq(Slot)] /\ S \in Seq(Slot) /\ Stands(k0.mem, l)
      /\ l[ReadyQueue] \in Seq(Slot)
      /\ BlockQueue \in SlotQueue /\ ReadyQueue \in SlotQueue /\ BlockQueue # ReadyQueue
      /\ st \in [Slot -> Statuses] /\ iq \in [Slot -> SlotQueue]
  BY ProcSizes DEF SlotQueue, Shows, Stands
<1>2. Rest(S, 0) = S
  BY <1>1, SubSeqFull DEF Rest
<1>3. k0.mem.head[BlockQueue] = Sleeper(S, 0)
  <2>1. Procs!Dequeued(k0.mem, BlockQueue) = IF S = <<>> THEN Null ELSE Head(S)
    <3> DEFINE m == k0.mem
    <3> HIDE DEF m
    <3>1. Stands(m, l)
      BY <1>1 DEF m
    <3>2. /\ S = <<>> => Procs!Dequeued(m, BlockQueue) = Null
          /\ S # <<>> => Procs!Dequeued(m, BlockQueue) = Head(S)
      BY <1>1, <3>1, StandsDequeue
    <3>3. QED  BY <3>2 DEF m
  <2> HIDE DEF S
  <2>2. QED  BY <1>2, <2>1 DEF Procs!Dequeued, Sleeper
<1>4. Awake(l, <<>>, <<>> \o Rest(S, 0)) = l
  <2>1. <<>> \o S = S /\ l[ReadyQueue] \o <<>> = l[ReadyQueue]
    BY <1>1
  <2>2. QED  BY <1>1, <1>2, <2>1 DEF Awake
<1>5. Set(st, {}, "READY") = st /\ Set(iq, {}, ReadyQueue) = iq
  BY <1>1 DEF Set
<1>6. <<>> \in Seq(Slot) /\ Members(<<>>) = {} /\ s.k = k0
  BY DEF Members
<1> HIDE DEF S
<1>7. /\ Picked(<<>>, S, 0, DueIn(l, lf)) /\ Picked(<<>>, S, 0, Members(S) \ DueIn(l, lf))
      /\ Shows(s.k, Awake(l, <<>>, <<>> \o Rest(S, 0)),
               Set(st, Members(<<>>), "READY"), Set(iq, Members(<<>>), ReadyQueue))
      /\ s = [k |-> s.k, t |-> Sleeper(S, 0)]
  BY <1>3, <1>4, <1>5, <1>6, PickedNone
<1> HIDE DEF s
<1>8. Checked(s, 0, l, st, iq, lf)
  BY <1>6, <1>7 DEF Checked, S
<1>9. QED  BY <1>8 DEF s

LEMMA CheckedNext ==
  ASSUME NEW l, NEW st, NEW iq, NEW lf \in [Slot -> Nat], NEW n \in Nat, NEW s,
         l \in [SlotQueue -> Seq(Slot)], Distinct(l[BlockQueue]),
         n + 1 <= Len(l[BlockQueue]), Checked(s, n, l, st, iq, lf)
  PROVE  Checked(IF s.t = Null THEN s ELSE Procs!CheckSleeper(s, lf), n + 1, l, st, iq, lf)
<1> DEFINE S == l[BlockQueue]
           due == DueIn(l, lf)
           rest == Rest(S, n)
           x == S[n + 1]
           r == Procs!CheckSleeper(s, lf)
           R == l[ReadyQueue]
<1>1. /\ S \in Seq(Slot) /\ R \in Seq(Slot)
      /\ BlockQueue \in SlotQueue /\ ReadyQueue \in SlotQueue /\ BlockQueue # ReadyQueue
  BY ProcSizes DEF SlotQueue
<1>2. /\ rest # <<>> /\ Head(rest) = x /\ x \in Slot /\ Tail(rest) = Rest(S, n + 1)
      /\ rest \in Seq(Slot)
  <2> HIDE DEF S
  <2>1. S \in Seq(Slot) /\ n + 1 <= Len(S)
    BY <1>1 DEF S
  <2>2. /\ SubSeq(S, n + 1, Len(S)) # <<>> /\ SubSeq(S, n + 1, Len(S)) \in Seq(Slot)
        /\ Head(SubSeq(S, n + 1, Len(S))) = S[n + 1] /\ S[n + 1] \in Slot
        /\ Tail(SubSeq(S, n + 1, Len(S))) = SubSeq(S, n + 2, Len(S))
    BY <2>1, MoveOne
  <2>3. n + 1 + 1 = n + 2
    OBVIOUS
  <2>4. QED  BY <2>2, <2>3 DEF Rest
<1>3. PICK w \in Seq(Slot), al \in Seq(Slot) :
        /\ Picked(w, S, n, due) /\ Picked(al, S, n, Members(S) \ due)
        /\ Shows(s.k, Awake(l, w, al \o rest), Set(st, Members(w), "READY"), Set(iq, Members(w), ReadyQueue))
        /\ s = [k |-> s.k, t |-> Sleeper(S, n)]
  BY DEF Checked
<1> HIDE DEF S, rest, x, r, due, R
<1>4. Sleeper(S, n) = x
  BY <1>2 DEF Sleeper, rest
<1>5. s.t # Null
  BY <1>2, <1>3, <1>4, ProcSizes
<1> DEFINE l1 == Awake(l, w, al \o rest)
           st1 == Set(st, Members(w), "READY")
           iq1 == Set(iq, Members(w), ReadyQueue)
<1>6. /\ l1[BlockQueue] = al \o rest /\ l1[ReadyQueue] = R \o w
      /\ l1 = [l1 EXCEPT ![BlockQueue] = al \o rest]
  BY <1>1 DEF Awake, R
<1> HIDE DEF l1, st1, iq1
<1>7. /\ r = [k |-> r.k, t |-> Sleeper(S, n + 1)]
      /\ lf[x] > 0 => r.k = s.k
      /\ ~ (lf[x] > 0) =>
           Shows(r.k, [l1 EXCEPT ![ReadyQueue] = Append(@, x), ![BlockQueue] = al \o Tail(rest)],
                 [st1 EXCEPT ![x] = "READY"], [iq1 EXCEPT ![x] = ReadyQueue])
  <2> DEFINE k0 == s.k
             R0 == Procs!CheckSleeper([k |-> k0, t |-> Head(rest)], lf)
  <2>1. r = R0
    BY <1>2, <1>3, <1>4 DEF r
  <2>2. Shows(k0, l1, st1, iq1)
    BY <1>3 DEF l1, st1, iq1
  <2> HIDE DEF k0
  <2>3. /\ R0 = [k |-> R0.k, t |-> IF Tail(rest) = <<>> THEN Null ELSE Head(Tail(rest))]
        /\ lf[Head(rest)] > 0 => R0.k = k0
        /\ ~ (lf[Head(rest)] > 0) =>
             Shows(R0.k, [l1 EXCEPT ![ReadyQueue] = Append(@, Head(rest)), ![BlockQueue] = al \o Tail(rest)],
                   [st1 EXCEPT ![Head(rest)] = "READY"], [iq1 EXCEPT ![Head(rest)] = ReadyQueue])
    BY <1>2, <1>6, <2>2, CheckSleeperShows
  <2> HIDE DEF R0
  <2>4. QED  BY <1>2, <2>1, <2>3 DEF k0, Sleeper
<1>8. x \in Members(S) /\ (x \in due <=> lf[x] = 0)
  <2>1. n + 1 \in DOMAIN S
    BY <1>1 DEF S
  <2>2. x \in Members(S)
    BY <2>1 DEF x, Members
  <2>3. QED  BY <2>2 DEF due, DueIn, S
<1>9. CASE lf[x] > 0
  <2> DEFINE b0 == Append(al, x)
  <2>1. x \notin due
    BY <1>2, <1>8, <1>9
  <2>2. Picked(w, S, n + 1, due)
    BY <1>3, <2>1, PickedNot DEF x
  <2>3. Picked(b0, S, n + 1, Members(S) \ due)
    BY <1>1, <1>3, <1>8, <2>1, PickedNext DEF x, S
  <2>4. b0 \in Seq(Slot) /\ b0 \o Rest(S, n + 1) = al \o rest
    <3>1. Append(al, Head(rest)) \o Tail(rest) = al \o rest
      BY <1>2, Middle
    <3>2. Append(al, x) \in Seq(Slot)
      BY <1>2
    <3>3. QED  BY <1>2, <3>1, <3>2
  <2>5. Shows(r.k, Awake(l, w, b0 \o Rest(S, n + 1)), st1, iq1)
    BY <1>3, <1>7, <1>9, <2>4 DEF st1, iq1
  <2> HIDE DEF b0
  <2>6. Checked(r, n + 1, l, st, iq, lf)
    BY <1>7, <2>2, <2>3, <2>4, <2>5 DEF Checked, S, due, st1, iq1
  <2>7. QED  BY <1>5, <2>6 DEF r
<1>10. CASE ~ (lf[x] > 0)
  <2> DEFINE v == Append(w, x)
  <2>1. x \in due
    BY <1>2, <1>8, <1>10
  <2>2. Picked(v, S, n + 1, due)
    BY <1>1, <1>3, <2>1, PickedNext DEF x, S
  <2>3. Picked(al, S, n + 1, Members(S) \ due)
    BY <1>3, <2>1, PickedNot DEF x
  <2>4. v \in Seq(Slot) /\ Members(v) = Members(w) \cup {x}
    BY <1>2, AppendFacts
  <2>5. [l1 EXCEPT ![ReadyQueue] = Append(@, x), ![BlockQueue] = al \o Tail(rest)]
          = Awake(l, v, al \o Rest(S, n + 1))
    <3>1. Append(R \o w, x) = R \o v
      <4>1. R \in Seq(Slot) /\ x \in Slot
        BY <1>1, <1>2
      <4>2. Grows(R, w, x)
        BY <4>1, JoinGrows
      <4>3. QED  BY <4>2 DEF Grows
    <3> DEFINE z == al \o Rest(S, n + 1)
               o == al \o rest
               y == R \o v
               u == R \o w
    <3>2. Awake(l, v, z) = [l EXCEPT ![ReadyQueue] = y, ![BlockQueue] = z]
      BY DEF Awake, R
    <3>3. l1 = [l EXCEPT ![ReadyQueue] = u, ![BlockQueue] = o]
      BY DEF l1, Awake, R
    <3>4. Append(u, x) = y /\ al \o Tail(rest) = z
      BY <1>2, <3>1
    <3> HIDE DEF z, o, y, u, v
    <3>5. [l1 EXCEPT ![ReadyQueue] = Append(@, x), ![BlockQueue] = z]
            = [l EXCEPT ![ReadyQueue] = y, ![BlockQueue] = z]
      BY <1>1, <3>3, <3>4
    <3>6. QED  BY <3>2, <3>4, <3>5 DEF z
  <2>6. [st1 EXCEPT ![x] = "READY"] = Set(st, Members(v), "READY")
        /\ [iq1 EXCEPT ![x] = ReadyQueue] = Set(iq, Members(v), ReadyQueue)
    <3> HIDE DEF v
    <3>1. /\ [Set(st, Members(w), "READY") EXCEPT ![x] = "READY"] = Set(st, Members(w) \cup {x}, "READY")
          /\ [Set(iq, Members(w), ReadyQueue) EXCEPT ![x] = ReadyQueue] = Set(iq, Members(w) \cup {x}, ReadyQueue)
      BY <1>2 DEF Set
    <3>2. QED  BY <2>4, <3>1 DEF st1, iq1
  <2> HIDE DEF v
  <2>7. Shows(r.k, Awake(l, v, al \o Rest(S, n + 1)),
              Set(st, Members(v), "READY"), Set(iq, Members(v), ReadyQueue))
    BY <1>7, <1>10, <2>5, <2>6
  <2>8. Checked(r, n + 1, l, st, iq, lf)
    BY <1>7, <2>2, <2>3, <2>4, <2>7 DEF Checked, S, due
  <2>9. QED  BY <1>5, <2>8 DEF r
<1>11. QED  BY <1>9, <1>10

\* check_sleeping readies the tasks whose time is up, in the order they stand in.
LEMMA CheckSleepingShows ==
  ASSUME NEW k0, NEW l, NEW st, NEW iq, Shows(k0, l, st, iq), NEW lf \in [Slot -> Nat]
  PROVE  \E w, al \in Seq(Slot) :
           /\ w \in Procs!Abstract!InOrder(l[BlockQueue], DueIn(l, lf)) /\ Members(w) = DueIn(l, lf)
           /\ al \in Procs!Abstract!InOrder(l[BlockQueue], Members(l[BlockQueue]) \ DueIn(l, lf))
           /\ Members(al) = Members(l[BlockQueue]) \ DueIn(l, lf)
           /\ Shows(Procs!CheckSleeping(k0, lf), Awake(l, w, al),
                    Set(st, DueIn(l, lf), "READY"), Set(iq, DueIn(l, lf), ReadyQueue))
<1> DEFINE S == l[BlockQueue]
           L == Len(S)
           K == Cardinality(Slot) + 1
           D(n) == IF n <= L THEN n ELSE L
           Ok(s, n) == Checked(s, n, l, st, iq, lf)
           Then(s) == IF s.t = Null THEN s ELSE Procs!CheckSleeper(s, lf)
<1>1. /\ l \in [SlotQueue -> Seq(Slot)] /\ S \in Seq(Slot) /\ Distinct(S) /\ L \in Nat
      /\ BlockQueue \in SlotQueue
  BY DEF Shows, Stands, HasIn, Chain, SlotQueue
<1>2. K \in Nat /\ L < K
  BY <1>1, DistinctIsShort, ProcSizes
<1>3. PICK v : /\ Procs!CheckSleeping(k0, lf) = v[K].k
               /\ v[0] = [k |-> k0, t |-> k0.mem.head[BlockQueue]]
               /\ \A n \in 1..K : v[n] = Then(v[n - 1])
  BY CheckRuns
<1>4. Ok(v[0], 0)
  BY <1>3, CheckedFirst
<1>5. ASSUME NEW n \in Nat, n + 1 <= L, NEW s, Ok(s, n) PROVE Ok(Then(s), n + 1)
  BY <1>1, <1>5, CheckedNext
<1>6. ASSUME NEW s, Ok(s, L) PROVE Then(s) = s
  <2>1. Rest(S, L) = <<>>
    BY <1>1, SubSeqEmpty DEF Rest
  <2>2. s.t = Null
    BY <1>6, <2>1 DEF Checked, Sleeper
  <2>3. QED  BY <2>2
<1> DEFINE T == {n \in Nat : n <= K => Ok(v[n], D(n))}
<1> HIDE DEF Ok, Then, K, L
<1>7. 0 \in T
  BY <1>1, <1>4
<1>8. ASSUME NEW n \in Nat, n \in T PROVE n + 1 \in T
  <2> SUFFICES ASSUME n + 1 <= K PROVE Ok(v[n + 1], D(n + 1))
    OBVIOUS
  <2>1. Ok(v[n], D(n))
    BY <1>2, <1>8
  <2>2. v[n + 1] = Then(v[n])
    <3>1. n + 1 \in 1..K /\ n + 1 - 1 = n
      BY <1>2
    <3>2. v[n + 1] = Then(v[n + 1 - 1])
      BY <1>3, <3>1
    <3>3. QED  BY <3>1, <3>2
  <2>3. CASE n + 1 <= L
    <3>1. D(n) = n /\ D(n + 1) = n + 1
      BY <1>1, <2>3
    <3> HIDE DEF D
    <3>2. QED  BY <1>5, <2>1, <2>2, <2>3, <3>1
  <2>4. CASE ~ (n + 1 <= L)
    <3>1. D(n) = L /\ D(n + 1) = L
      BY <1>1, <2>4
    <3> HIDE DEF D
    <3>2. QED  BY <1>6, <2>1, <2>2, <3>1
  <2>5. QED  BY <2>3, <2>4
<1>9. K \in T
  <2> HIDE DEF T
  <2>1. QED  BY <1>2, <1>7, <1>8, CountUp
<1>10. Ok(v[K], L)
  <2>1. D(K) = L /\ Ok(v[K], D(K))
    BY <1>1, <1>2, <1>9
  <2>2. QED  BY <2>1
<1> DEFINE due == DueIn(l, lf)
<1>11. PICK w, al \in Seq(Slot) :
         /\ Picked(w, S, L, due) /\ Picked(al, S, L, Members(S) \ due)
         /\ Shows(v[K].k, Awake(l, w, al \o Rest(S, L)),
                  Set(st, Members(w), "READY"), Set(iq, Members(w), ReadyQueue))
  BY <1>10 DEF Ok, Checked
<1>12. due \in SUBSET Members(S) /\ Members(S) \ due \in SUBSET Members(S)
  BY DEF DueIn
<1> HIDE DEF due, S
<1>13. /\ Members(w) = due /\ w \in Procs!Abstract!InOrder(S, due)
       /\ Members(al) = Members(S) \ due /\ al \in Procs!Abstract!InOrder(S, Members(S) \ due)
  BY <1>1, <1>11, <1>12, PickedAll DEF L
<1>14. al \o Rest(S, L) = al
  <2>1. Rest(S, L) = <<>>
    BY <1>1, SubSeqEmpty DEF Rest, L
  <2>2. al \o <<>> = al
    OBVIOUS
  <2>3. QED  BY <2>1, <2>2
<1>15. Shows(Procs!CheckSleeping(k0, lf), Awake(l, w, al), Set(st, due, "READY"), Set(iq, due, ReadyQueue))
  BY <1>3, <1>11, <1>13, <1>14
<1>16. QED  BY <1>13, <1>15 DEF due, S

-----------------------------------------------------------------------------
(* Where everybody is                                                      *)

\* Each slot but those of B is where its status says.
Placed(l, st, iq, B) ==
  \A t \in Slot \ B :
    /\ st[t] = "READY" => t \in Members(l[ReadyQueue])
    /\ st[t] = "BLOCKED" => t \in Members(l[iq[t]])
    /\ st[t] \in {"UNUSED", "RUNNING"} => Nowhere(t, l)
    /\ st[t] = "UNUSED" => l[t] = <<>>

LEMMA PutPlaced ==
  ASSUME NEW l \in [SlotQueue -> Seq(Slot)], NEW st \in [Slot -> Statuses], NEW iq \in [Slot -> SlotQueue],
         NEW x \in Slot, Placed(l, st, iq, {x}),
         NEW q \in SlotQueue, q \in Slot => st[q] # "UNUSED",
         NEW s \in {"READY", "BLOCKED", "EXITED"}, NEW r,
         s = "READY" => q = ReadyQueue, s = "BLOCKED" => r[x] = q,
         \A t \in Slot \ {x} : r[t] = iq[t]
  PROVE  Placed([l EXCEPT ![q] = Append(@, x)], [st EXCEPT ![x] = s], r, {})
<1> DEFINE l2 == [l EXCEPT ![q] = Append(@, x)]
           st2 == [st EXCEPT ![x] = s]
<1>1. \A p \in SlotQueue : l2[p] = IF p = q THEN Append(l[q], x) ELSE l[p]
  OBVIOUS
<1>2. Members(Append(l[q], x)) = Members(l[q]) \cup {x}
  <2>1. l[q] \in Seq(Slot)
    OBVIOUS
  <2>2. QED  BY <2>1, AppendFacts
<1>3. ReadyQueue \in SlotQueue /\ Slot \subseteq SlotQueue
  BY DEF SlotQueue
<1>4. \A t \in Slot : st2[t] = IF t = x THEN s ELSE st[t]
  OBVIOUS
<1> HIDE DEF l2, st2
<1>5. \A p \in SlotQueue : Members(l2[p]) = IF p = q THEN Members(l[p]) \cup {x} ELSE Members(l[p])
  BY <1>1, <1>2
<1> SUFFICES ASSUME NEW t \in Slot
             PROVE  /\ st2[t] = "READY" => t \in Members(l2[ReadyQueue])
                    /\ st2[t] = "BLOCKED" => t \in Members(l2[r[t]])
                    /\ st2[t] \in {"UNUSED", "RUNNING"} => Nowhere(t, l2)
                    /\ st2[t] = "UNUSED" => l2[t] = <<>>
  BY DEF Placed, l2, st2
<1>6. CASE t = x
  <2>1. st2[t] = s
    BY <1>4, <1>6
  <2>2. QED  BY <1>3, <1>5, <1>6, <2>1
<1>7. CASE t # x
  <2>1. st2[t] = st[t] /\ r[t] = iq[t] /\ iq[t] \in SlotQueue
    BY <1>4, <1>7
  <2>2. /\ st[t] = "READY" => t \in Members(l[ReadyQueue])
        /\ st[t] = "BLOCKED" => t \in Members(l[iq[t]])
        /\ st[t] \in {"UNUSED", "RUNNING"} => Nowhere(t, l)
        /\ st[t] = "UNUSED" => l[t] = <<>>
    BY <1>7 DEF Placed
  <2>3. Nowhere(t, l) => Nowhere(t, l2)
    BY <1>5, <1>7 DEF Nowhere
  <2>4. st[t] = "UNUSED" => l2[t] = l[t]
    BY <1>1, <1>3
  <2>5. \A p \in SlotQueue : Members(l[p]) \subseteq Members(l2[p])
    BY <1>5
  <2>6. QED  BY <1>3, <2>1, <2>2, <2>3, <2>4, <2>5
<1>8. QED  BY <1>6, <1>7

\* Taking x out of its queue disturbs x only.
LEMMA TakePlaced ==
  ASSUME NEW l \in [SlotQueue -> Seq(Slot)], NEW st, NEW iq \in [Slot -> SlotQueue], Placed(l, st, iq, {}),
         NEW q \in SlotQueue, NEW x, NEW s, l[q] # <<>>, Members(s) = Members(l[q]) \ {x}
  PROVE  Placed([l EXCEPT ![q] = s], st, iq, {x})
<1> DEFINE l2 == [l EXCEPT ![q] = s]
<1>1. \A p \in SlotQueue : l2[p] = IF p = q THEN s ELSE l[p]
  OBVIOUS
<1>2. ReadyQueue \in SlotQueue /\ Slot \subseteq SlotQueue
  BY DEF SlotQueue
<1> HIDE DEF l2
<1>3. \A p \in SlotQueue : Members(l2[p]) = IF p = q THEN Members(l[p]) \ {x} ELSE Members(l[p])
  BY <1>1
<1>4. Members(<<>>) = {}
  BY DEF Members
<1> SUFFICES ASSUME NEW t \in Slot \ {x}
             PROVE  /\ st[t] = "READY" => t \in Members(l2[ReadyQueue])
                    /\ st[t] = "BLOCKED" => t \in Members(l2[iq[t]])
                    /\ st[t] \in {"UNUSED", "RUNNING"} => Nowhere(t, l2)
                    /\ st[t] = "UNUSED" => l2[t] = <<>>
  BY DEF Placed, l2
<1>5. /\ st[t] = "READY" => t \in Members(l[ReadyQueue])
      /\ st[t] = "BLOCKED" => t \in Members(l[iq[t]])
      /\ st[t] \in {"UNUSED", "RUNNING"} => Nowhere(t, l)
      /\ st[t] = "UNUSED" => l[t] = <<>>
  BY DEF Placed
<1>6. Nowhere(t, l) => Nowhere(t, l2)
  BY <1>3 DEF Nowhere
<1>7. \A p \in SlotQueue : t \in Members(l[p]) => t \in Members(l2[p])
  BY <1>3
<1>8. ASSUME st[t] = "UNUSED" PROVE l2[t] = <<>>
  <2>1. t \in SlotQueue /\ l[t] = <<>>
    BY <1>2, <1>5, <1>8
  <2>2. CASE t = q
    BY <1>1, <2>1, <2>2
  <2>3. CASE t # q
    BY <1>1, <2>1, <2>3
  <2>4. QED  BY <2>2, <2>3
<1>9. QED  BY <1>2, <1>5, <1>6, <1>7, <1>8
\* A task that is in no queue may run.
LEMMA StartPlaced ==
  ASSUME NEW l, NEW st \in [Slot -> Statuses], NEW iq, NEW x \in Slot,
         Placed(l, st, iq, {x}), Nowhere(x, l)
  PROVE  Placed(l, [st EXCEPT ![x] = "RUNNING"], iq, {})
<1> DEFINE st2 == [st EXCEPT ![x] = "RUNNING"]
<1>1. \A t \in Slot : st2[t] = IF t = x THEN "RUNNING" ELSE st[t]
  OBVIOUS
<1> HIDE DEF st2
<1>2. Placed(l, st2, iq, {})
  BY <1>1 DEF Placed
<1>3. QED  BY <1>2 DEF st2

LEMMA UnblockPlaced ==
  ASSUME NEW l \in [SlotQueue -> Seq(Slot)], NEW st, NEW iq \in [Slot -> SlotQueue], NEW B,
         Placed(l, st, iq, B), NEW q \in SlotQueue, q # ReadyQueue
  PROVE  Placed([l EXCEPT ![ReadyQueue] = @ \o l[q], ![q] = <<>>], Set(st, Members(l[q]), "READY"), iq, B)
<1> DEFINE l2 == [l EXCEPT ![ReadyQueue] = @ \o l[q], ![q] = <<>>]
           S == Members(l[q])
           st2 == Set(st, S, "READY")
<1>1. ReadyQueue \in SlotQueue /\ Slot \subseteq SlotQueue
  BY DEF SlotQueue
<1>2. \A p \in SlotQueue : l2[p] = IF p = q THEN <<>>
                                    ELSE IF p = ReadyQueue THEN l[ReadyQueue] \o l[q] ELSE l[p]
  <2> DEFINE y == l[ReadyQueue] \o l[q]
  <2>1. l2 = [l EXCEPT ![ReadyQueue] = y, ![q] = <<>>]
    OBVIOUS
  <2> HIDE DEF y, l2
  <2>2. \A p \in SlotQueue : l2[p] = IF p = q THEN <<>> ELSE IF p = ReadyQueue THEN y ELSE l[p]
    BY <1>1, <2>1
  <2>3. QED  BY <2>2 DEF y
<1>3. Members(l[ReadyQueue] \o l[q]) = Members(l[ReadyQueue]) \cup S
  <2>1. l[ReadyQueue] \in Seq(Slot) /\ l[q] \in Seq(Slot)
    BY <1>1
  <2>2. QED  BY <2>1, ConcatFacts
<1>4. Members(<<>>) = {}
  BY DEF Members
<1>5. \A t \in Slot : st2[t] = IF t \in S THEN "READY" ELSE st[t]
  BY DEF Set
<1> HIDE DEF l2, st2
<1>6. \A p \in SlotQueue : Members(l2[p]) = IF p = q THEN {}
                                    ELSE IF p = ReadyQueue THEN Members(l[ReadyQueue]) \cup S ELSE Members(l[p])
  BY <1>2, <1>3, <1>4
<1> SUFFICES ASSUME NEW t \in Slot \ B
             PROVE  /\ st2[t] = "READY" => t \in Members(l2[ReadyQueue])
                    /\ st2[t] = "BLOCKED" => t \in Members(l2[iq[t]])
                    /\ st2[t] \in {"UNUSED", "RUNNING"} => Nowhere(t, l2)
                    /\ st2[t] = "UNUSED" => l2[t] = <<>>
  BY DEF Placed, l2, st2
<1>7. /\ st[t] = "READY" => t \in Members(l[ReadyQueue])
      /\ st[t] = "BLOCKED" => t \in Members(l[iq[t]])
      /\ st[t] \in {"UNUSED", "RUNNING"} => Nowhere(t, l)
      /\ st[t] = "UNUSED" => l[t] = <<>>
  BY DEF Placed
<1>8. Members(l2[ReadyQueue]) = Members(l[ReadyQueue]) \cup S
  BY <1>1, <1>6
<1>9. CASE t \in S
  <2>1. st2[t] = "READY"
    BY <1>5, <1>9
  <2>2. QED  BY <1>8, <1>9, <2>1
<1>10. CASE t \notin S
  <2> HIDE DEF S
  <2>1. st2[t] = st[t]
    BY <1>5, <1>10
  <2>2. Nowhere(t, l) => Nowhere(t, l2)
    BY <1>1, <1>6, <1>10 DEF Nowhere
  <2>3. \A p \in SlotQueue : t \in Members(l[p]) => t \in Members(l2[p])
    BY <1>6, <1>10 DEF S
  <2>4. ASSUME st[t] = "UNUSED" PROVE l2[t] = <<>>
    <3>1. t \in SlotQueue /\ l[t] = <<>> /\ t # ReadyQueue
      BY <1>1, <1>7, <2>4, ProcSizes
    <3>2. QED  BY <1>2, <3>1
  <2>5. iq[t] \in SlotQueue
    OBVIOUS
  <2>6. QED  BY <1>7, <1>8, <2>1, <2>2, <2>3, <2>4, <2>5
<1>11. QED  BY <1>9, <1>10

LEMMA AwakePlaced ==
  ASSUME NEW l \in [SlotQueue -> Seq(Slot)], NEW st, NEW iq \in [Slot -> SlotQueue], NEW B,
         Placed(l, st, iq, B), NEW w \in Seq(Slot), NEW a0 \in Seq(Slot), NEW S,
         Members(w) = S, Members(a0) = Members(l[BlockQueue]) \ S, S \subseteq Members(l[BlockQueue])
  PROVE  Placed(Awake(l, w, a0), Set(st, S, "READY"), Set(iq, S, ReadyQueue), B)
<1> DEFINE l2 == Awake(l, w, a0)
           st2 == Set(st, S, "READY")
           iq2 == Set(iq, S, ReadyQueue)
<1>1. ReadyQueue \in SlotQueue /\ BlockQueue \in SlotQueue /\ Slot \subseteq SlotQueue /\ ReadyQueue # BlockQueue
  BY ProcSizes DEF SlotQueue
<1>2. \A p \in SlotQueue : l2[p] = IF p = BlockQueue THEN a0
                                    ELSE IF p = ReadyQueue THEN l[ReadyQueue] \o w ELSE l[p]
  <2> DEFINE y == l[ReadyQueue] \o w
  <2>1. l2 = [l EXCEPT ![ReadyQueue] = y, ![BlockQueue] = a0]
    BY DEF Awake
  <2> HIDE DEF y, l2
  <2>2. \A p \in SlotQueue : l2[p] = IF p = BlockQueue THEN a0 ELSE IF p = ReadyQueue THEN y ELSE l[p]
    BY <1>1, <2>1
  <2>3. QED  BY <2>2 DEF y
<1>3. Members(l[ReadyQueue] \o w) = Members(l[ReadyQueue]) \cup S
  <2>1. l[ReadyQueue] \in Seq(Slot)
    BY <1>1
  <2>2. QED  BY <2>1, ConcatFacts
<1>4. \A t \in Slot : /\ st2[t] = IF t \in S THEN "READY" ELSE st[t]
                      /\ iq2[t] = IF t \in S THEN ReadyQueue ELSE iq[t]
  BY DEF Set
<1> HIDE DEF l2, st2, iq2
<1>5. \A p \in SlotQueue : Members(l2[p]) = IF p = BlockQueue THEN Members(l[BlockQueue]) \ S
                                    ELSE IF p = ReadyQueue THEN Members(l[ReadyQueue]) \cup S ELSE Members(l[p])
  BY <1>2, <1>3
<1> SUFFICES ASSUME NEW t \in Slot \ B
             PROVE  /\ st2[t] = "READY" => t \in Members(l2[ReadyQueue])
                    /\ st2[t] = "BLOCKED" => t \in Members(l2[iq2[t]])
                    /\ st2[t] \in {"UNUSED", "RUNNING"} => Nowhere(t, l2)
                    /\ st2[t] = "UNUSED" => l2[t] = <<>>
  BY DEF Placed, l2, st2, iq2
<1>6. /\ st[t] = "READY" => t \in Members(l[ReadyQueue])
      /\ st[t] = "BLOCKED" => t \in Members(l[iq[t]])
      /\ st[t] \in {"UNUSED", "RUNNING"} => Nowhere(t, l)
      /\ st[t] = "UNUSED" => l[t] = <<>>
  BY DEF Placed
<1>7. Members(l2[ReadyQueue]) = Members(l[ReadyQueue]) \cup S
  BY <1>1, <1>5
<1>8. CASE t \in S
  <2>1. st2[t] = "READY"
    BY <1>4, <1>8
  <2>2. QED  BY <1>7, <1>8, <2>1
<1>9. CASE t \notin S
  <2>1. st2[t] = st[t] /\ iq2[t] = iq[t] /\ iq[t] \in SlotQueue
    BY <1>4, <1>9
  <2>2. \A p \in SlotQueue : t \in Members(l2[p]) <=> t \in Members(l[p])
    BY <1>1, <1>5, <1>9
  <2>3. Nowhere(t, l) => Nowhere(t, l2)
    BY <2>2 DEF Nowhere
  <2>4. ASSUME st[t] = "UNUSED" PROVE l2[t] = <<>>
    <3>1. t \in SlotQueue /\ l[t] = <<>> /\ t # ReadyQueue /\ t # BlockQueue
      BY <1>1, <1>6, <2>4, ProcSizes
    <3>2. QED  BY <1>2, <3>1
  <2>5. QED  BY <1>1, <1>6, <2>1, <2>2, <2>3, <2>4
<1>10. QED  BY <1>8, <1>9

-----------------------------------------------------------------------------
(* scheduler()                                                             *)

\* The queues, statuses and in_queue fields that scheduler() dequeues from: the
\* sleepers w are woken, al sleep on, and the task that leaves is back in line unless
\* it blocked or exited.
Filled(l, w, al, again) == [l EXCEPT ![BlockQueue] = al, ![ReadyQueue] = (l[ReadyQueue] \o w) \o again]
Again(st) == IF st[d] \in {"BLOCKED", "EXITED"} THEN <<>> ELSE <<d>>
Readied(st, l, lf, again) == Set(Set(st, DueIn(l, lf), "READY"), Members(again), "READY")
Moved(iq, l, lf) == Set(iq, DueIn(l, lf), ReadyQueue)

FilledBy(k0, lf) ==
  LET woken == Procs!CheckSleeping(k0, lf)
  IN IF woken.status[d] \in {"BLOCKED", "EXITED"} THEN woken
     ELSE Procs!Put(woken, ReadyQueue, d, "READY")

\* The task that leaves the processor has left it: it runs, or has just blocked or exited.
Departs(l, st, lf) ==
  /\ d \in Slot /\ d \notin DueIn(l, lf)
  /\ st[d] \in {"RUNNING", "BLOCKED", "EXITED"}
  /\ \A t \in Slot : st[t] = "RUNNING" => t = d

LEMMA LineShows ==
  ASSUME NEW k0, NEW l, NEW st, NEW iq, Shows(k0, l, st, iq), Placed(l, st, iq, {}),
         NEW lf \in [Slot -> Nat], Departs(l, st, lf)
  PROVE  \E w, al \in Seq(Slot) :
           /\ w \in Procs!Abstract!InOrder(l[BlockQueue], DueIn(l, lf))
           /\ al \in Procs!Abstract!InOrder(l[BlockQueue], Members(l[BlockQueue]) \ DueIn(l, lf))
           /\ Shows(FilledBy(k0, lf), Filled(l, w, al, Again(st)), Readied(st, l, lf, Again(st)), Moved(iq, l, lf))
           /\ Placed(Filled(l, w, al, Again(st)), Readied(st, l, lf, Again(st)), Moved(iq, l, lf), {})
           /\ \A t \in Slot : Readied(st, l, lf, Again(st))[t] # "RUNNING"
<1> DEFINE due == DueIn(l, lf)
           k1 == Procs!CheckSleeping(k0, lf)
           st1 == Set(st, due, "READY")
           iq1 == Set(iq, due, ReadyQueue)
<1>1. /\ l \in [SlotQueue -> Seq(Slot)] /\ st \in [Slot -> Statuses] /\ iq \in [Slot -> SlotQueue]
      /\ l[ReadyQueue] \in Seq(Slot)
      /\ ReadyQueue \in SlotQueue /\ BlockQueue \in SlotQueue /\ ReadyQueue # BlockQueue
      /\ ReadyQueue \notin Slot /\ "READY" \in Statuses
  BY ProcSizes DEF Shows, Stands, SlotQueue, Statuses
<1>2. PICK w \in Seq(Slot), al \in Seq(Slot) :
        /\ w \in Procs!Abstract!InOrder(l[BlockQueue], due) /\ Members(w) = due
        /\ al \in Procs!Abstract!InOrder(l[BlockQueue], Members(l[BlockQueue]) \ due)
        /\ Members(al) = Members(l[BlockQueue]) \ due
        /\ Shows(k1, Awake(l, w, al), st1, iq1)
  BY CheckSleepingShows
<1> DEFINE l1 == Awake(l, w, al)
<1>3. Placed(l1, st1, iq1, {})
  <2>1. due \subseteq Members(l[BlockQueue])
    BY DEF DueIn
  <2> HIDE DEF due
  <2>2. QED  BY <1>1, <1>2, <2>1, AwakePlaced
<1>4. /\ k1 = [mem |-> k1.mem, status |-> st1, inQueue |-> iq1] /\ k1.status = st1
      /\ l1 \in [SlotQueue -> Seq(Slot)] /\ st1 \in [Slot -> Statuses] /\ iq1 \in [Slot -> SlotQueue]
  <2> HIDE DEF k1, l1, st1, iq1
  <2>1. Shows(k1, l1, st1, iq1)
    BY <1>2 DEF l1, k1, st1, iq1
  <2>2. QED  BY <2>1 DEF Shows, Stands
<1>5. d \in Slot /\ st1[d] = st[d] /\ \A t \in Slot : st1[t] = "RUNNING" => t = d
  BY DEF Departs, Set
<1>6. l1[ReadyQueue] = l[ReadyQueue] \o w
  <2> DEFINE y == l[ReadyQueue] \o w
  <2>1. l1 = [l EXCEPT ![ReadyQueue] = y, ![BlockQueue] = al]
    BY DEF Awake
  <2> HIDE DEF y, l1
  <2>2. l1[ReadyQueue] = y
    BY <1>1, <2>1
  <2>3. QED  BY <2>2 DEF y
<1>7. CASE st[d] \in {"BLOCKED", "EXITED"}
  <2>1. Again(st) = <<>>
    BY <1>7 DEF Again
  <2>2. Filled(l, w, al, <<>>) = l1
    <3>1. (l[ReadyQueue] \o w) \o <<>> = l[ReadyQueue] \o w
      <4> DEFINE y == l[ReadyQueue] \o w
      <4>1. y \in Seq(Slot)
        BY <1>1
      <4> HIDE DEF y
      <4>2. y \o <<>> = y
        BY <4>1
      <4>3. QED  BY <4>2 DEF y
    <3> DEFINE y == l[ReadyQueue] \o w
               z == y \o <<>>
    <3>2. l1 = [l EXCEPT ![ReadyQueue] = y, ![BlockQueue] = al]
      BY DEF Awake
    <3>3. Filled(l, w, al, <<>>) = [l EXCEPT ![BlockQueue] = al, ![ReadyQueue] = z]
      BY DEF Filled
    <3>4. z = y
      BY <3>1
    <3> HIDE DEF y, z, l1
    <3>5. QED  BY <1>1, <3>2, <3>3, <3>4
  <2>3. Readied(st, l, lf, <<>>) = st1
    <3>1. Members(<<>>) = {}
      BY DEF Members
    <3>2. QED  BY <3>1 DEF Readied, Set
  <2>4. FilledBy(k0, lf) = k1
    <3> HIDE DEF k1
    <3>1. k1.status[d] \in {"BLOCKED", "EXITED"}
      BY <1>4, <1>5, <1>7
    <3>2. QED  BY <3>1 DEF FilledBy, k1
  <2>5. \A t \in Slot : st1[t] # "RUNNING"
    BY <1>5, <1>7
  <2> HIDE DEF l1, st1, iq1, k1, due
  <2>6. /\ Shows(FilledBy(k0, lf), Filled(l, w, al, Again(st)), Readied(st, l, lf, Again(st)), Moved(iq, l, lf))
        /\ Placed(Filled(l, w, al, Again(st)), Readied(st, l, lf, Again(st)), Moved(iq, l, lf), {})
        /\ \A t \in Slot : Readied(st, l, lf, Again(st))[t] # "RUNNING"
    BY <1>2, <1>3, <2>1, <2>2, <2>3, <2>4, <2>5 DEF Moved, iq1, due, l1
  <2>7. QED  BY <1>2, <2>6 DEF due
<1>8. CASE st[d] = "RUNNING"
  <2> DEFINE l2 == [l1 EXCEPT ![ReadyQueue] = Append(@, d)]
             st2 == [st1 EXCEPT ![d] = "READY"]
  <2>1. Again(st) = <<d>> /\ <<d>> \in Seq(Slot) /\ Members(<<d>>) = {d}
    <3>1. Again(st) = <<d>> /\ <<d>> \in Seq(Slot)
      BY <1>5, <1>8 DEF Again
    <3>2. Members(<<d>>) = {d}
      BY DEF Members
    <3>3. QED  BY <3>1, <3>2
  <2>2. Nowhere(d, l1)
    <3> HIDE DEF l1, st1, iq1
    <3>1. QED  BY <1>3, <1>5, <1>8 DEF Placed
  <2>3. Filled(l, w, al, <<d>>) = l2
    <3> DEFINE y == l[ReadyQueue] \o w
               z == y \o <<d>>
    <3>1. z = Append(y, d)
      <4>1. y \in Seq(Slot)
        BY <1>1
      <4> HIDE DEF y
      <4>2. QED  BY <1>5, <4>1
    <3>2. l1 = [l EXCEPT ![ReadyQueue] = y, ![BlockQueue] = al]
      BY DEF Awake
    <3>3. Filled(l, w, al, <<d>>) = [l EXCEPT ![BlockQueue] = al, ![ReadyQueue] = z]
      BY DEF Filled
    <3>4. l2 = [l1 EXCEPT ![ReadyQueue] = z]
      <4>1. l1[ReadyQueue] = y
        BY <1>6
      <4> HIDE DEF y, z, l1
      <4>2. QED  BY <3>1, <4>1
    <3> HIDE DEF y, z, l1, l2
    <3>5. QED  BY <1>1, <3>2, <3>3, <3>4
  <2>4. Readied(st, l, lf, <<d>>) = st2
    BY <1>5, <2>1 DEF Readied, Set
  <2>5. FilledBy(k0, lf) = Procs!Put(k1, ReadyQueue, d, "READY")
    <3> HIDE DEF k1
    <3>1. ~ (k1.status[d] \in {"BLOCKED", "EXITED"})
      BY <1>4, <1>5, <1>8
    <3>2. QED  BY <3>1 DEF FilledBy, k1
  <2> HIDE DEF l1, st1, iq1, k1, due
  <2>6. Shows(Procs!Put(k1, ReadyQueue, d, "READY"), l2, st2, iq1)
    BY <1>1, <1>2, <1>5, <2>2, PutShows DEF l1
  <2>7. Placed(l1, st1, iq1, {d})
    BY <1>3 DEF Placed
  <2>8. Placed(l2, st2, iq1, {})
    <3>1. \A t \in Slot \ {d} : iq1[t] = iq1[t]
      OBVIOUS
    <3>2. "READY" \in {"READY", "BLOCKED", "EXITED"} /\ "READY" # "BLOCKED"
      OBVIOUS
    <3>3. QED  BY <1>1, <1>4, <1>5, <2>7, <3>1, <3>2, PutPlaced
  <2>9. \A t \in Slot : st2[t] # "RUNNING"
    BY <1>4, <1>5
  <2> HIDE DEF l2, st2
  <2>10. /\ Shows(FilledBy(k0, lf), Filled(l, w, al, Again(st)), Readied(st, l, lf, Again(st)), Moved(iq, l, lf))
         /\ Placed(Filled(l, w, al, Again(st)), Readied(st, l, lf, Again(st)), Moved(iq, l, lf), {})
         /\ \A t \in Slot : Readied(st, l, lf, Again(st))[t] # "RUNNING"
    BY <2>1, <2>3, <2>4, <2>5, <2>6, <2>8, <2>9 DEF Moved, iq1, due
  <2>11. QED  BY <1>2, <2>10 DEF due
<1>9. QED  BY <1>7, <1>8 DEF Departs

\* The PCBs after a step.
After == [mem |-> a', status |-> b', inQueue |-> c']

LEMMA LinesNow ==
  ASSUME NEW l, NEW st, NEW iq, Shows(Procs!Now, l, st, iq)
  PROVE  Procs!Lines = l /\ st = b /\ iq = c
<1>1. Stands(a, l) /\ st = b /\ iq = c
  BY DEF Shows, Procs!Now
<1>2. Procs!Lines = [q \in SlotQueue |-> Procs!Line(a, q)]
  BY DEF Procs!Lines, SlotQueue
<1>3. QED  BY <1>1, <1>2, StandsLines

LEMMA LinesAfter ==
  ASSUME NEW l, NEW st, NEW iq, Shows(After, l, st, iq)
  PROVE  Procs!Lines' = l /\ st = b' /\ iq = c'
<1>1. Stands(a', l) /\ st = b' /\ iq = c'
  BY DEF Shows, After
<1>2. Procs!Lines' = [q \in SlotQueue |-> Procs!Line(a', q)]
  BY DEF Procs!Lines, SlotQueue
<1>3. QED  BY <1>1, <1>2, StandsLines

LEMMA BecomesAfter ==
  ASSUME NEW k0, NEW l, NEW st, NEW iq, Shows(k0, l, st, iq), Procs!Becomes(k0)
  PROVE  Shows(After, l, st, iq) /\ Procs!Lines' = l /\ b' = st /\ c' = iq
<1>1. After = k0
  BY DEF Shows, Procs!Becomes, After
<1>2. Shows(After, l, st, iq)
  BY <1>1
<1>3. QED  BY <1>2, LinesAfter

\* What a call of scheduler() leaves: the queues are well formed and say where everybody is.
Fits(k0, cur) ==
  \E l : /\ Shows(k0, l, k0.status, k0.inQueue)
         /\ Placed(l, k0.status, k0.inQueue, {})
         /\ \A t \in Slot : k0.status[t] = "RUNNING" <=> t = cur

LEMMA AbstractSchedule ==
  ASSUME NEW l, NEW st \in [Slot -> Statuses], NEW iq, NEW lf, d \in Slot, d \notin DueIn(l, lf),
         NEW w \in Procs!Abstract!InOrder(l[BlockQueue], DueIn(l, lf)),
         NEW al \in Procs!Abstract!InOrder(l[BlockQueue], Members(l[BlockQueue]) \ DueIn(l, lf)),
         e' = lf, c' = Moved(iq, l, lf),
         LET line == (l[ReadyQueue] \o w) \o Again(st)
         IN IF line = <<>>
            THEN /\ d' = Null
                 /\ Procs!Lines' = [l EXCEPT ![BlockQueue] = al]
                 /\ b' = Readied(st, l, lf, Again(st))
            ELSE /\ d' = Head(line)
                 /\ Procs!Lines' = [l EXCEPT ![BlockQueue] = al, ![ReadyQueue] = Tail(line)]
                 /\ b' = [Readied(st, l, lf, Again(st)) EXCEPT ![Head(line)] = "RUNNING"]
  PROVE  Procs!Abstract!Schedule(st, l, iq, lf)
<1> DEFINE due == DueIn(l, lf)
<1>1. Procs!Abstract!Due(l, lf) = due
  BY SameInSched DEF Procs!Abstract!Due, DueIn
<1>2. Procs!Abstract!Woken(st, due) = Set(st, due, "READY")
  BY DEF Procs!Abstract!Woken, Set
<1>3. Set(st, due, "READY")[d] = st[d]
  BY DEF Set
<1>4. Again(st) = IF Procs!Abstract!StaysRunnable(d, Set(st, due, "READY")[d]) THEN <<d>> ELSE <<>>
  BY <1>3 DEF Again, Procs!Abstract!StaysRunnable
<1>5. Readied(st, l, lf, Again(st))
        = Procs!Abstract!Woken(Set(st, due, "READY"), Procs!Abstract!Members(Again(st)))
  BY SameInSched DEF Readied, Procs!Abstract!Woken, Set
<1>6. Procs!Abstract!Line(l[ReadyQueue], w, Again(st)) = (l[ReadyQueue] \o w) \o Again(st)
  BY DEF Procs!Abstract!Line
<1>7. Moved(iq, l, lf) = [t \in Slot |-> IF t \in due THEN ReadyQueue ELSE iq[t]]
  BY DEF Moved, Set
<1>8. Procs!Abstract!Members(l[BlockQueue]) = Members(l[BlockQueue])
  BY SameInSched
<1> DEFINE Does(x, y, D, awake, again) ==
             LET line == Procs!Abstract!Line(l[ReadyQueue], x, again)
                 back == Procs!Abstract!Woken(awake, Procs!Abstract!Members(again))
             IN /\ e' = lf
                /\ c' = [t \in Slot |-> IF t \in D THEN ReadyQueue ELSE iq[t]]
                /\ IF line = <<>>
                   THEN /\ d' = Null
                        /\ Procs!Lines' = [l EXCEPT ![BlockQueue] = y]
                        /\ b' = back
                   ELSE /\ d' = Head(line)
                        /\ Procs!Lines' = [l EXCEPT ![BlockQueue] = y, ![ReadyQueue] = Tail(line)]
                        /\ b' = [back EXCEPT ![Head(line)] = "RUNNING"]
           D0 == Procs!Abstract!Due(l, lf)
           awake0 == Procs!Abstract!Woken(st, D0)
           again0 == IF Procs!Abstract!StaysRunnable(d, awake0[d]) THEN <<d>> ELSE <<>>
<1>9. Procs!Abstract!Schedule(st, l, iq, lf)
        <=> \E x \in Procs!Abstract!InOrder(l[BlockQueue], D0),
               y \in Procs!Abstract!InOrder(l[BlockQueue], Procs!Abstract!Members(l[BlockQueue]) \ D0) :
              Does(x, y, D0, awake0, again0)
  BY DEF Procs!Abstract!Schedule
<1>10. D0 = due /\ awake0 = Set(st, due, "READY") /\ again0 = Again(st)
  <2> HIDE DEF due
  <2>1. QED  BY <1>1, <1>2, <1>4
<1>11. Does(w, al, due, Set(st, due, "READY"), Again(st))
  <2> DEFINE line == (l[ReadyQueue] \o w) \o Again(st)
             back == Readied(st, l, lf, Again(st))
  <2> HIDE DEF due, line, back
  <2>1. Procs!Abstract!Line(l[ReadyQueue], w, Again(st)) = line
    BY <1>6 DEF line
  <2>2. Procs!Abstract!Woken(Set(st, due, "READY"), Procs!Abstract!Members(Again(st))) = back
    BY <1>5 DEF back
  <2>3. c' = [t \in Slot |-> IF t \in due THEN ReadyQueue ELSE iq[t]]
    BY <1>7
  <2>4. IF line = <<>>
        THEN d' = Null /\ Procs!Lines' = [l EXCEPT ![BlockQueue] = al] /\ b' = back
        ELSE /\ d' = Head(line)
             /\ Procs!Lines' = [l EXCEPT ![BlockQueue] = al, ![ReadyQueue] = Tail(line)]
             /\ b' = [back EXCEPT ![Head(line)] = "RUNNING"]
    BY DEF line, back
  <2>5. QED  BY <2>1, <2>2, <2>3, <2>4
<1> HIDE DEF Does, D0, awake0, again0, due
<1>12. Does(w, al, D0, awake0, again0)
  BY <1>10, <1>11
<1>13. /\ w \in Procs!Abstract!InOrder(l[BlockQueue], D0)
       /\ al \in Procs!Abstract!InOrder(l[BlockQueue], Procs!Abstract!Members(l[BlockQueue]) \ D0)
  BY <1>8, <1>10 DEF due
<1>14. QED  BY <1>9, <1>12, <1>13

\* A call of scheduler() does to the lists what Sched says it does to the queues.
LEMMA ScheduleShows ==
  ASSUME NEW k0, NEW l, NEW st, NEW iq, Shows(k0, l, st, iq), Placed(l, st, iq, {}),
         NEW lf \in [Slot -> Nat], Departs(l, st, lf), Procs!Schedule(k0, lf)
  PROVE  /\ Procs!Abstract!Schedule(st, l, iq, lf)
         /\ Fits(After, d') /\ d' \in Slot \cup {Null} /\ e' = lf
<1> DEFINE k2 == FilledBy(k0, lf)
           m == k2.mem
           next == Procs!Dequeued(m, ReadyQueue)
           k3 == [k2 EXCEPT !.mem = Procs!QueueDequeue(@, ReadyQueue), !.status[next] = "RUNNING"]
           st2 == Readied(st, l, lf, Again(st))
           iq2 == Moved(iq, l, lf)
<1>1. /\ e' = lf /\ d' = next
      /\ IF next = Null THEN Procs!Becomes(k2) ELSE Procs!Becomes(k3)
  BY DEF Procs!Schedule, FilledBy
<1>2. PICK w \in Seq(Slot), al \in Seq(Slot) :
        /\ w \in Procs!Abstract!InOrder(l[BlockQueue], DueIn(l, lf))
        /\ al \in Procs!Abstract!InOrder(l[BlockQueue], Members(l[BlockQueue]) \ DueIn(l, lf))
        /\ Shows(k2, Filled(l, w, al, Again(st)), st2, iq2)
        /\ Placed(Filled(l, w, al, Again(st)), st2, iq2, {})
        /\ \A t \in Slot : st2[t] # "RUNNING"
  BY LineShows
<1> DEFINE l2 == Filled(l, w, al, Again(st))
           line == (l[ReadyQueue] \o w) \o Again(st)
<1>3. /\ l \in [SlotQueue -> Seq(Slot)] /\ st \in [Slot -> Statuses]
      /\ ReadyQueue \in SlotQueue /\ BlockQueue \in SlotQueue /\ BlockQueue # ReadyQueue
      /\ d \in Slot /\ d \notin DueIn(l, lf) /\ Null \notin Slot
  BY ProcSizes DEF Shows, Stands, SlotQueue, Departs
<1>4. l2 = [l EXCEPT ![BlockQueue] = al, ![ReadyQueue] = line]
  BY DEF Filled
<1> HIDE DEF l2, line
<1>5. /\ l2[ReadyQueue] = line
      /\ \A x : [l2 EXCEPT ![ReadyQueue] = x] = [l EXCEPT ![BlockQueue] = al, ![ReadyQueue] = x]
  BY <1>3, <1>4
<1>6. line = <<>> => l2 = [l EXCEPT ![BlockQueue] = al]
  <2>1. ASSUME line = <<>> PROVE l[ReadyQueue] = <<>>
    <3> DEFINE r == l[ReadyQueue]
               v == Again(st)
    <3>1. r \in Seq(Slot) /\ v \in Seq(Slot)
      BY <1>3 DEF Again
    <3>2. (r \o w) \o v = <<>>
      BY <2>1 DEF line
    <3> HIDE DEF r, v
    <3>3. Len(r) = 0
      BY <3>1, <3>2
    <3>4. r = <<>>
      BY <3>1, <3>3
    <3>5. QED  BY <3>4 DEF r
  <2>2. QED  BY <1>3, <1>4, <2>1
<1> HIDE DEF k2, m, next, k3, st2, iq2
<1>7. /\ k2 = [mem |-> m, status |-> st2, inQueue |-> iq2] /\ Stands(m, l2)
      /\ st2 \in [Slot -> Statuses] /\ iq2 \in [Slot -> SlotQueue]
      /\ l2 \in [SlotQueue -> Seq(Slot)]
  BY <1>2 DEF Shows, Stands, m, l2
<1>8. /\ line = <<>> => next = Null
      /\ line # <<>> => /\ next = Head(line) /\ next \in Slot /\ next # Null
                        /\ Stands(Procs!QueueDequeue(m, ReadyQueue), [l2 EXCEPT ![ReadyQueue] = Tail(line)])
                        /\ Members(Tail(line)) = Members(line) \ {next} /\ next \in Members(line)
  <2>1. /\ l2[ReadyQueue] = <<>> => Procs!Dequeued(m, ReadyQueue) = Null
        /\ l2[ReadyQueue] # <<>> =>
             /\ Procs!Dequeued(m, ReadyQueue) = Head(l2[ReadyQueue]) /\ Head(l2[ReadyQueue]) \in Slot
             /\ Stands(Procs!QueueDequeue(m, ReadyQueue), [l2 EXCEPT ![ReadyQueue] = Tail(@)])
             /\ Members(Tail(l2[ReadyQueue])) = Members(l2[ReadyQueue]) \ {Head(l2[ReadyQueue])}
             /\ Head(l2[ReadyQueue]) \in Members(l2[ReadyQueue])
    BY <1>3, <1>7, StandsDequeue
  <2>2. QED  BY <1>3, <1>5, <2>1 DEF next
<1>9. c' = iq2 /\ Fits(After, d')
      /\ IF line = <<>>
         THEN d' = Null /\ Procs!Lines' = [l EXCEPT ![BlockQueue] = al] /\ b' = st2
         ELSE /\ d' = Head(line)
              /\ Procs!Lines' = [l EXCEPT ![BlockQueue] = al, ![ReadyQueue] = Tail(line)]
              /\ b' = [st2 EXCEPT ![Head(line)] = "RUNNING"]
  <2>1. CASE line = <<>>
    <3>1. next = Null /\ Procs!Becomes(k2)
      BY <1>1, <1>8, <2>1
    <3>2. Shows(After, l2, st2, iq2) /\ Procs!Lines' = l2 /\ b' = st2 /\ c' = iq2
      BY <1>2, <3>1, BecomesAfter DEF l2
    <3>3. After.status = st2 /\ After.inQueue = iq2
      BY <3>2 DEF After
    <3>4. Fits(After, d')
      <4>1. \A t \in Slot : st2[t] = "RUNNING" <=> t = d'
        BY <1>1, <1>2, <1>3, <3>1
      <4>2. Shows(After, l2, After.status, After.inQueue) /\ Placed(l2, After.status, After.inQueue, {})
        BY <1>2, <3>2, <3>3 DEF l2
      <4>3. QED  BY <3>3, <4>1, <4>2 DEF Fits
    <3>5. QED  BY <1>1, <1>6, <2>1, <3>1, <3>2, <3>4
  <2>2. CASE line # <<>>
    <3> DEFINE l3 == [l2 EXCEPT ![ReadyQueue] = Tail(line)]
               st3 == [st2 EXCEPT ![next] = "RUNNING"]
               n == Procs!QueueDequeue(m, ReadyQueue)
    <3>1. next = Head(line) /\ next \in Slot /\ Procs!Becomes(k3) /\ Stands(n, l3)
      BY <1>1, <1>8, <2>2
    <3>2. k3 = [mem |-> n, status |-> st3, inQueue |-> iq2] /\ k3.mem = n
      <4>1. k3 = [k2 EXCEPT !.mem = n, !.status = st3]
        <5>1. k2.status = st2 /\ k2.mem = m
          BY <1>7
        <5>2. QED  BY <5>1 DEF k3
      <4> HIDE DEF n, st3
      <4>2. [k2 EXCEPT !.mem = n] = [mem |-> n, status |-> st2, inQueue |-> iq2]
        <5>1. k2 = [mem |-> m, status |-> st2, inQueue |-> iq2]
          BY <1>7
        <5>2. QED  BY <5>1
      <4>3. k3 = [[mem |-> n, status |-> st2, inQueue |-> iq2] EXCEPT !.status = st3]
        BY <4>1, <4>2
      <4>4. QED  BY <4>3
    <3>3. st3 \in [Slot -> Statuses] /\ \A t \in Slot : st3[t] = IF t = next THEN "RUNNING" ELSE st2[t]
      BY <1>7, <3>1 DEF Statuses
    <3>4. Nowhere(next, l3)
      <4> SUFFICES ASSUME NEW q \in SlotQueue PROVE next \notin Members(l3[q])
        BY DEF Nowhere
      <4>1. l3[q] = IF q = ReadyQueue THEN Tail(line) ELSE l2[q]
        BY <1>7
      <4>2. q # ReadyQueue => next \notin Members(l2[q])
        BY <1>3, <1>5, <1>7, <1>8, <2>2 DEF Stands
      <4>3. QED  BY <1>8, <2>2, <4>1, <4>2
    <3>5. Placed(l3, st2, iq2, {next})
      <4> DEFINE y == Tail(line)
      <4> HIDE DEF y
      <4>1. l2[ReadyQueue] # <<>> /\ Members(y) = Members(l2[ReadyQueue]) \ {next}
        BY <1>5, <1>8, <2>2 DEF y
      <4>2. Placed(l2, st2, iq2, {})
        BY <1>2 DEF l2
      <4>3. Placed([l2 EXCEPT ![ReadyQueue] = y], st2, iq2, {next})
        BY <1>3, <1>7, <4>1, <4>2, TakePlaced
      <4>4. QED  BY <4>3 DEF y
    <3> HIDE DEF l3, n
    <3>6. Placed(l3, st3, iq2, {})
      BY <1>7, <3>1, <3>4, <3>5, StartPlaced
    <3> HIDE DEF st3
    <3>7. Shows(k3, l3, st3, iq2)
      BY <1>7, <3>1, <3>2, <3>3 DEF Shows
    <3>8. Shows(After, l3, st3, iq2) /\ Procs!Lines' = l3 /\ b' = st3 /\ c' = iq2
      BY <3>1, <3>7, BecomesAfter
    <3>9. After.status = st3 /\ After.inQueue = iq2
      BY <3>8 DEF After
    <3>10. Fits(After, d')
      <4>1. \A t \in Slot : st3[t] = "RUNNING" <=> t = d'
        BY <1>1, <1>2, <3>3
      <4>2. Shows(After, l3, After.status, After.inQueue) /\ Placed(l3, After.status, After.inQueue, {})
        BY <3>6, <3>8, <3>9
      <4>3. QED  BY <3>9, <4>1, <4>2 DEF Fits
    <3>11. l3 = [l EXCEPT ![BlockQueue] = al, ![ReadyQueue] = Tail(line)]
      BY <1>5 DEF l3
    <3>12. b' = [st2 EXCEPT ![Head(line)] = "RUNNING"]
      BY <3>1, <3>8 DEF st3
    <3>13. QED  BY <1>1, <2>2, <3>1, <3>8, <3>10, <3>11, <3>12
  <2>3. QED  BY <2>1, <2>2
<1>10. Procs!Abstract!Schedule(st, l, iq, lf)
  <2>1. IF (l[ReadyQueue] \o w) \o Again(st) = <<>>
        THEN /\ d' = Null
             /\ Procs!Lines' = [l EXCEPT ![BlockQueue] = al]
             /\ b' = Readied(st, l, lf, Again(st))
        ELSE /\ d' = Head((l[ReadyQueue] \o w) \o Again(st))
             /\ Procs!Lines' = [l EXCEPT ![BlockQueue] = al, ![ReadyQueue] = Tail((l[ReadyQueue] \o w) \o Again(st))]
             /\ b' = [Readied(st, l, lf, Again(st)) EXCEPT ![Head((l[ReadyQueue] \o w) \o Again(st))] = "RUNNING"]
    BY <1>9 DEF line, st2
  <2>2. c' = Moved(iq, l, lf)
    BY <1>9 DEF iq2
  <2>3. QED  BY <1>1, <1>2, <1>3, <2>1, <2>2, AbstractSchedule
<1>11. d' \in Slot \cup {Null} /\ e' = lf
  BY <1>1, <1>8
<1>12. QED  BY <1>9, <1>10, <1>11

-----------------------------------------------------------------------------
(* Exit and kill                                                           *)

\* The queues and statuses once t is in the exit queue and those who waited for it are ready.
Gone(l, t) == [Freed(l, t) EXCEPT ![ExitQueue] = Append(@, t)]
Dead(st, l, t) == [Set(st, Members(l[t]), "READY") EXCEPT ![t] = "EXITED"]

\* The PCBs show that, and everybody is placed.
Interred(k0, l, st, iq, t) ==
  /\ Shows(Procs!Buried(k0, t), Gone(l, t), Dead(st, l, t), iq)
  /\ Placed(Gone(l, t), Dead(st, l, t), iq, {})
  /\ \A x \in Slot : Dead(st, l, t)[x] = "RUNNING" <=> st[x] = "RUNNING" /\ x # t

LEMMA BuriedShows ==
  ASSUME NEW k0, NEW l, NEW st, NEW iq, NEW t \in Slot,
         Shows(k0, l, st, iq), Placed(l, st, iq, {t}), Nowhere(t, l)
  PROVE  Interred(k0, l, st, iq, t)
<1>1. /\ l \in [SlotQueue -> Seq(Slot)] /\ st \in [Slot -> Statuses] /\ iq \in [Slot -> SlotQueue]
      /\ t \in SlotQueue /\ t # ReadyQueue /\ ExitQueue \in SlotQueue /\ ExitQueue \notin Slot
      /\ ReadyQueue \in SlotQueue
      /\ "EXITED" \in Statuses
      /\ l[ReadyQueue] \in Seq(Slot) /\ l[t] \in Seq(Slot)
  BY ProcSizes DEF Shows, Stands, SlotQueue, Statuses
<1> DEFINE k1 == Procs!UnblockAll(k0, t)
           l1 == Freed(l, t)
           S == Members(l[t])
           st1 == Set(st, S, "READY")
<1>2. Shows(k1, l1, st1, iq)
  BY <1>1, UnblockAllShows
<1>3. Placed(l1, st1, iq, {t})
  BY <1>1, UnblockPlaced DEF Freed
<1>4. Nowhere(t, l1)
  <2>1. \A p \in SlotQueue : l1[p] = IF p = t THEN <<>>
                                    ELSE IF p = ReadyQueue THEN l[ReadyQueue] \o l[t] ELSE l[p]
    <3> DEFINE y == l[ReadyQueue] \o l[t]
    <3>1. l1 = [l EXCEPT ![ReadyQueue] = y, ![t] = <<>>]
      BY DEF Freed
    <3> HIDE DEF y, l1
    <3>2. \A p \in SlotQueue : l1[p] = IF p = t THEN <<>> ELSE IF p = ReadyQueue THEN y ELSE l[p]
      BY <1>1, <3>1
    <3>3. QED  BY <3>2 DEF y
  <2>2. Members(l[ReadyQueue] \o l[t]) = Members(l[ReadyQueue]) \cup S
    BY <1>1, ConcatFacts
  <2>3. Members(<<>>) = {}
    BY DEF Members
  <2> HIDE DEF l1, S
  <2> SUFFICES ASSUME NEW p \in SlotQueue PROVE t \notin Members(l1[p])
    BY DEF Nowhere
  <2>4. \A q \in SlotQueue : t \notin Members(l[q])
    BY DEF Nowhere
  <2>5. t \notin S
    BY <1>1, <2>4 DEF S
  <2>6. QED  BY <1>1, <2>1, <2>2, <2>3, <2>4, <2>5
<1>5. /\ l1 \in [SlotQueue -> Seq(Slot)] /\ st1 \in [Slot -> Statuses]
  <2> HIDE DEF l1, st1, k1
  <2>1. QED  BY <1>2 DEF Shows, Stands
<1> HIDE DEF k1, l1, st1
<1>6. Shows(Procs!Put(k1, ExitQueue, t, "EXITED"), [l1 EXCEPT ![ExitQueue] = Append(@, t)],
            [st1 EXCEPT ![t] = "EXITED"], iq)
  BY <1>1, <1>2, <1>4, PutShows
<1>7. Placed([l1 EXCEPT ![ExitQueue] = Append(@, t)], [st1 EXCEPT ![t] = "EXITED"], iq, {})
  <2>1. \A x \in Slot \ {t} : iq[x] = iq[x]
    OBVIOUS
  <2>2. "EXITED" \in {"READY", "BLOCKED", "EXITED"} /\ "EXITED" # "BLOCKED" /\ "EXITED" # "READY"
    OBVIOUS
  <2>3. QED  BY <1>1, <1>3, <1>5, <2>1, <2>2, PutPlaced
<1>8. Procs!Buried(k0, t) = Procs!Put(k1, ExitQueue, t, "EXITED")
  BY DEF Procs!Buried, k1
<1>9. ASSUME NEW x \in Slot
      PROVE  Dead(st, l, t)[x] = "RUNNING" <=> st[x] = "RUNNING" /\ x # t
  <2>1. st1[x] = IF x \in S THEN "READY" ELSE st[x]
    BY DEF st1, Set
  <2>2. Dead(st, l, t)[x] = IF x = t THEN "EXITED" ELSE st1[x]
    BY <1>5 DEF Dead, st1
  <2>3. x \in S => Placed(l, st, iq, {t}) /\ x # t /\ ~ Nowhere(x, l)
    BY <1>1 DEF Nowhere
  <2>4. x \in S => st[x] # "RUNNING"
    BY <2>3 DEF Placed
  <2>5. QED  BY <2>1, <2>2, <2>4
<1>10. /\ Shows(Procs!Buried(k0, t), Gone(l, t), Dead(st, l, t), iq)
       /\ Placed(Gone(l, t), Dead(st, l, t), iq, {})
  BY <1>6, <1>7, <1>8 DEF Gone, Dead, l1, st1
<1>11. QED  BY <1>9, <1>10 DEF Interred

\* What Sched says of mutexes does not change.
LEMMA NoLocks ==
  /\ Procs!Abstract!lockVars' = Procs!Abstract!lockVars
  /\ Procs!Abstract!lockVars = <<[x \in {} |-> "UNLOCKED"], [t \in Slot |-> 0], [t \in Slot |-> [n \in {0} |-> Null]],
                                 [x \in {} |-> {}]>>
BY DEF Procs!Abstract!lockVars

\* Between two steps the lists are queues that say where everybody is, one task
\* runs, and whoever is being killed is still in the ready queue.
ProcInv ==
  /\ Fits(Procs!Now, d)
  /\ d \in Slot \cup {Null}
  /\ e \in [Slot -> Nat]
  /\ f \in [kind : {"none", "exit", "kill"}, task : Slot]
  /\ f.kind # "none" => d \in Slot
  /\ f.kind = "kill" => b[f.task] = "READY"

\* The queues the refinement reads off the lists are those of the invariant.
LEMMA NowFits ==
  ASSUME ProcInv
  PROVE  \E l : /\ Shows(Procs!Now, l, b, c) /\ Placed(l, b, c, {}) /\ Procs!Lines = l
                /\ \A t \in Slot : b[t] = "RUNNING" <=> t = d
<1>1. PICK l : /\ Shows(Procs!Now, l, Procs!Now.status, Procs!Now.inQueue)
               /\ Placed(l, Procs!Now.status, Procs!Now.inQueue, {})
               /\ \A t \in Slot : Procs!Now.status[t] = "RUNNING" <=> t = d
  BY DEF ProcInv, Fits
<1>2. Procs!Now.status = b /\ Procs!Now.inQueue = c
  BY DEF Procs!Now
<1>3. Shows(Procs!Now, l, b, c)
  BY <1>1, <1>2
<1>4. Procs!Lines = l
  BY <1>3, LinesNow
<1>5. QED  BY <1>1, <1>2, <1>3, <1>4

LEMMA SameServing ==
  ASSUME ProcInv
  PROVE  /\ f = Procs!NoLoop <=> [kind |-> f.kind, task |-> f.task, i |-> 0] = Procs!Abstract!NoLoop
         /\ Procs!Serving => Procs!Abstract!Serving /\ d \in Slot /\ f.kind = "none"
         /\ Procs!InSyscall => Procs!Abstract!InSyscall /\ d # Boot
<1>1. f = [kind |-> f.kind, task |-> f.task]
  BY DEF ProcInv
<1>2. f = Procs!NoLoop <=> [kind |-> f.kind, task |-> f.task, i |-> 0] = Procs!Abstract!NoLoop
  BY <1>1 DEF Procs!NoLoop, Procs!Abstract!NoLoop
<1>3. Procs!Serving => Procs!Abstract!Serving /\ d \in Slot /\ f.kind = "none"
  BY <1>2 DEF Procs!Serving, Procs!Abstract!Serving, Procs!NoLoop
<1>4. QED  BY <1>2, <1>3 DEF Procs!InSyscall, Procs!Abstract!InSyscall

-----------------------------------------------------------------------------
(* The system calls                                                        *)

LEMMA InQueueShows ==
  ASSUME NEW k0, NEW l, NEW st, NEW iq, Shows(k0, l, st, iq), NEW x \in Slot, NEW q \in SlotQueue
  PROVE  Shows([k0 EXCEPT !.inQueue[x] = q], l, st, [iq EXCEPT ![x] = q])
<1> DEFINE m == k0.mem
           r == [k0 EXCEPT !.inQueue[x] = q]
           iq2 == [iq EXCEPT ![x] = q]
<1>1. k0 = [mem |-> m, status |-> st, inQueue |-> iq] /\ Stands(m, l) /\ st \in [Slot -> Statuses]
      /\ iq \in [Slot -> SlotQueue]
  BY DEF Shows
<1>2. iq2 \in [Slot -> SlotQueue]
  BY <1>1
<1> HIDE DEF m
<1>3. r = [mem |-> m, status |-> st, inQueue |-> iq2]
  <2>1. k0 = [mem |-> m, status |-> st, inQueue |-> iq]
    BY <1>1
  <2>2. r = [[mem |-> m, status |-> st, inQueue |-> iq] EXCEPT !.inQueue[x] = q]
    BY <2>1
  <2>3. [[mem |-> m, status |-> st, inQueue |-> iq] EXCEPT !.inQueue[x] = q]
          = [mem |-> m, status |-> st, inQueue |-> iq2]
    BY InQueueSet
  <2> HIDE DEF r, iq2
  <2>4. QED  BY <2>2, <2>3
<1> HIDE DEF r, iq2
<1>4. r.mem = m
  BY <1>3
<1>5. Shows(r, l, st, iq2)
  BY <1>1, <1>2, <1>3, <1>4 DEF Shows
<1>6. QED  BY <1>5 DEF r, iq2

LEMMA AfterSchedule ==
  ASSUME Fits(After, d'), d' \in Slot \cup {Null}, e' \in [Slot -> Nat], f' = Procs!NoLoop
  PROVE  ProcInv'
<1>1. Fits(Procs!Now, d)'
  BY DEF Fits, After, Procs!Now
<1>2. f' \in [kind : {"none", "exit", "kill"}, task : Slot] /\ f'.kind = "none"
  BY ProcSizes DEF Procs!NoLoop
<1>3. QED  BY <1>1, <1>2 DEF ProcInv

LEMMA TimerImplements ==
  ASSUME ProcInv, Procs!Timer
  PROVE  Procs!Abstract!Timer /\ ProcInv'
<1>1. PICK l : /\ Shows(Procs!Now, l, b, c) /\ Placed(l, b, c, {}) /\ Procs!Lines = l
               /\ \A t \in Slot : b[t] = "RUNNING" <=> t = d
  BY NowFits
<1> DEFINE lf == Procs!Ticked(e)
<1>2. Procs!Serving /\ Procs!Schedule(Procs!Now, lf) /\ f' = f
  BY DEF Procs!Timer
<1>3. Procs!Abstract!Serving /\ d \in Slot /\ f = Procs!NoLoop
  BY <1>2, SameServing DEF Procs!Serving
<1>4. lf \in [Slot -> Nat]
  BY DEF ProcInv, Procs!Ticked
<1>5. lf = Procs!Abstract!Ticked(e)
  BY DEF Procs!Ticked, Procs!Abstract!Ticked
<1> HIDE DEF lf
<1>6. Departs(l, b, lf)
  <2>1. b[d] = "RUNNING" /\ Nowhere(d, l)
    BY <1>1, <1>3 DEF Placed
  <2>2. d \notin Members(l[BlockQueue])
    BY <2>1 DEF Nowhere, SlotQueue
  <2>3. QED  BY <1>1, <1>3, <2>1, <2>2 DEF Departs, DueIn
<1>7. /\ Procs!Abstract!Schedule(b, l, c, lf)
      /\ Fits(After, d') /\ d' \in Slot \cup {Null} /\ e' = lf
  BY <1>1, <1>2, <1>4, <1>6, ScheduleShows
<1>8. ProcInv'
  BY <1>2, <1>3, <1>4, <1>7, AfterSchedule
<1>9. Procs!Abstract!Schedule(b, Procs!Lines, c, Procs!Abstract!Ticked(e))
  BY <1>1, <1>5, <1>7
<1>10. Procs!Abstract!Timer
  BY <1>2, <1>3, <1>9, NoLocks DEF Procs!Abstract!Timer
<1>11. QED  BY <1>8, <1>10

LEMMA BlockShows ==
  ASSUME NEW l, Shows(Procs!Now, l, b, c), Placed(l, b, c, {}), Procs!Lines = l,
         \A t \in Slot : b[t] = "RUNNING" <=> t = d,
         d \in Slot, NEW q \in SlotQueue, q \in Slot => b[q] # "UNUSED",
         NEW lf \in [Slot -> Nat], q = BlockQueue => lf[d] # 0, Procs!Block(q, lf)
  PROVE  /\ Procs!Abstract!Block(q, lf)
         /\ Fits(After, d') /\ d' \in Slot \cup {Null} /\ e' = lf
<1> DEFINE k1 == Procs!Put(Procs!Now, q, d, "BLOCKED")
           k2 == [k1 EXCEPT !.inQueue[d] = q]
           l1 == [l EXCEPT ![q] = Append(@, d)]
           st1 == [b EXCEPT ![d] = "BLOCKED"]
           iq1 == [c EXCEPT ![d] = q]
<1>1. Procs!Schedule(k2, lf)
  BY DEF Procs!Block
<1>2. /\ l \in [SlotQueue -> Seq(Slot)] /\ b \in [Slot -> Statuses] /\ c \in [Slot -> SlotQueue]
      /\ BlockQueue \in SlotQueue /\ "BLOCKED" \in Statuses /\ l[q] \in Seq(Slot)
      /\ b[d] = "RUNNING"
  BY DEF Shows, Stands, Statuses, SlotQueue
<1>3. Nowhere(d, l)
  BY <1>2 DEF Placed
<1>4. Shows(k1, l1, st1, c)
  <2> HIDE DEF k1
  <2>1. QED  BY <1>2, <1>3, PutShows DEF k1
<1>5. Shows(k2, l1, st1, iq1)
  <2> HIDE DEF k1, l1, st1
  <2>1. QED  BY <1>4, InQueueShows
<1>6. Placed(l1, st1, iq1, {})
  <2>1. Placed(l, b, c, {d})
    BY DEF Placed
  <2>2. \A t \in Slot \ {d} : iq1[t] = c[t]
    BY <1>2
  <2>3. iq1[d] = q
    BY <1>2
  <2>4. "BLOCKED" \in {"READY", "BLOCKED", "EXITED"} /\ "BLOCKED" # "READY"
    OBVIOUS
  <2> HIDE DEF iq1
  <2>5. QED  BY <1>2, <2>1, <2>2, <2>3, <2>4, PutPlaced
<1>7. Departs(l1, st1, lf)
  <2>1. d \notin Members(l[BlockQueue])
    BY <1>2, <1>3 DEF Nowhere
  <2>2. q # BlockQueue => l1[BlockQueue] = l[BlockQueue]
    BY <1>2
  <2>3. d \notin DueIn(l1, lf)
    <3> HIDE DEF l1
    <3>1. QED  BY <2>1, <2>2 DEF DueIn
  <2>4. st1[d] = "BLOCKED" /\ \A t \in Slot : st1[t] = "RUNNING" => t = d
    BY <1>2
  <2> HIDE DEF l1, st1
  <2>5. QED  BY <2>3, <2>4 DEF Departs
<1>8. /\ Procs!Abstract!Schedule(st1, l1, iq1, lf)
      /\ Fits(After, d') /\ d' \in Slot \cup {Null} /\ e' = lf
  <2> HIDE DEF l1, st1, iq1, k1, k2
  <2>1. QED  BY <1>1, <1>5, <1>6, <1>7, ScheduleShows
<1>9. Procs!Abstract!Block(q, lf)
  BY <1>8 DEF Procs!Abstract!Block
<1>10. QED  BY <1>8, <1>9

\* What programs promise.
Promised == {"fresh", "naps", "others", "idle"} \subseteq Discipline

LEMMA SleepImplements ==
  ASSUME Promised, ProcInv, NEW n \in SleepTimes, Procs!Sleep(n)
  PROVE  Procs!Abstract!Sleep(n) /\ ProcInv'
<1>1. PICK l : /\ Shows(Procs!Now, l, b, c) /\ Placed(l, b, c, {}) /\ Procs!Lines = l
               /\ \A t \in Slot : b[t] = "RUNNING" <=> t = d
  BY NowFits
<1> DEFINE lf == [e EXCEPT ![d] = n]
<1>2. Procs!InSyscall /\ n > 0 /\ Procs!Block(BlockQueue, lf) /\ f' = f
  BY DEF Procs!Sleep, Promised
<1>3. Procs!Abstract!InSyscall /\ d \in Slot /\ f = Procs!NoLoop
  BY <1>2, SameServing DEF Procs!InSyscall, Procs!Serving
<1>4. n \in Nat /\ BlockQueue \in SlotQueue /\ BlockQueue \notin Slot
  BY ProcSizes DEF SlotQueue
<1>5. lf \in [Slot -> Nat] /\ lf[d] # 0
  BY <1>2, <1>3, <1>4 DEF ProcInv
<1>6. /\ Procs!Abstract!Block(BlockQueue, lf)
      /\ Fits(After, d') /\ d' \in Slot \cup {Null} /\ e' = lf
  <2> HIDE DEF lf
  <2>1. QED  BY <1>1, <1>2, <1>3, <1>4, <1>5, BlockShows
<1>7. ProcInv'
  BY <1>2, <1>3, <1>5, <1>6, AfterSchedule
<1>8. Procs!Abstract!Sleep(n)
  BY <1>2, <1>3, <1>6, NoLocks DEF Procs!Abstract!Sleep
<1>9. QED  BY <1>7, <1>8

LEMMA WaitPidImplements ==
  ASSUME ProcInv, NEW t \in Slot, Procs!WaitPid(t)
  PROVE  Procs!Abstract!WaitPid(t) /\ ProcInv'
<1>1. PICK l : /\ Shows(Procs!Now, l, b, c) /\ Placed(l, b, c, {}) /\ Procs!Lines = l
               /\ \A u \in Slot : b[u] = "RUNNING" <=> u = d
  BY NowFits
<1>2. Procs!InSyscall /\ Procs!Alive(t) /\ Procs!Block(t, e) /\ f' = f
  BY DEF Procs!WaitPid
<1>3. Procs!Abstract!InSyscall /\ d \in Slot /\ f = Procs!NoLoop
  BY <1>2, SameServing DEF Procs!InSyscall, Procs!Serving
<1>4. t \in SlotQueue /\ t # BlockQueue /\ b[t] # "UNUSED"
  BY <1>2, ProcSizes DEF SlotQueue, Procs!Alive
<1>5. e \in [Slot -> Nat]
  BY DEF ProcInv
<1>6. /\ Procs!Abstract!Block(t, e)
      /\ Fits(After, d') /\ d' \in Slot \cup {Null} /\ e' = e
  BY <1>1, <1>2, <1>3, <1>4, <1>5, BlockShows
<1>7. ProcInv'
  BY <1>2, <1>3, <1>5, <1>6, AfterSchedule
<1>8. Procs!Abstract!Alive(t)
  BY <1>2 DEF Procs!Alive, Procs!Abstract!Alive
<1>9. Procs!Abstract!WaitPid(t)
  BY <1>2, <1>3, <1>6, <1>8, NoLocks DEF Procs!Abstract!WaitPid
<1>10. QED  BY <1>7, <1>9

LEMMA WaitNobodyImplements ==
  ASSUME ProcInv, Procs!WaitNobody
  PROVE  Procs!Abstract!WaitNobody /\ ProcInv'
<1>1. PICK l : /\ Shows(Procs!Now, l, b, c) /\ Placed(l, b, c, {}) /\ Procs!Lines = l
               /\ \A t \in Slot : b[t] = "RUNNING" <=> t = d
  BY NowFits
<1>2. Procs!InSyscall /\ Procs!Schedule(Procs!Now, e) /\ f' = f
  BY DEF Procs!WaitNobody
<1>3. Procs!Abstract!InSyscall /\ d \in Slot /\ f = Procs!NoLoop
  BY <1>2, SameServing DEF Procs!InSyscall, Procs!Serving
<1>4. e \in [Slot -> Nat]
  BY DEF ProcInv
<1>5. Departs(l, b, e)
  <2>1. b[d] = "RUNNING" /\ Nowhere(d, l)
    BY <1>1, <1>3 DEF Placed
  <2>2. d \notin Members(l[BlockQueue])
    BY <2>1 DEF Nowhere, SlotQueue
  <2>3. QED  BY <1>1, <1>3, <2>1, <2>2 DEF Departs, DueIn
<1>6. /\ Procs!Abstract!Schedule(b, l, c, e)
      /\ Fits(After, d') /\ d' \in Slot \cup {Null} /\ e' = e
  BY <1>1, <1>2, <1>4, <1>5, ScheduleShows
<1>7. ProcInv'
  BY <1>2, <1>3, <1>4, <1>6, AfterSchedule
<1>8. Procs!Abstract!WaitNobody
  BY <1>1, <1>2, <1>3, <1>6, NoLocks DEF Procs!Abstract!WaitNobody
<1>9. QED  BY <1>7, <1>8

LEMMA SpawnImplements ==
  ASSUME Promised, ProcInv, NEW t \in Slot, Procs!Spawn(t)
  PROVE  Procs!Abstract!Spawn(t) /\ ProcInv'
<1>1. PICK l : /\ Shows(Procs!Now, l, b, c) /\ Placed(l, b, c, {}) /\ Procs!Lines = l
               /\ \A u \in Slot : b[u] = "RUNNING" <=> u = d
  BY NowFits
<1> DEFINE k1 == Procs!Put(Procs!Now, ReadyQueue, t, "READY")
           k2 == [k1 EXCEPT !.inQueue[t] = ReadyQueue]
           k3 == [k1 EXCEPT !.inQueue[t] = ReadyQueue, !.mem = Procs!QueueInit(@, t)]
           l1 == [l EXCEPT ![ReadyQueue] = Append(@, t)]
           st1 == [b EXCEPT ![t] = "READY"]
           iq1 == [c EXCEPT ![t] = ReadyQueue]
<1>2. Procs!InSyscall /\ b[t] = "UNUSED" /\ Procs!Becomes(k3) /\ d' = d /\ e' = e /\ f' = f
  BY DEF Procs!Spawn, Promised
<1>3. Procs!Abstract!InSyscall /\ d \in Slot /\ f = Procs!NoLoop
  BY <1>2, SameServing DEF Procs!InSyscall, Procs!Serving
<1>4. /\ l \in [SlotQueue -> Seq(Slot)] /\ b \in [Slot -> Statuses] /\ c \in [Slot -> SlotQueue]
      /\ ReadyQueue \in SlotQueue /\ ReadyQueue \notin Slot /\ t \in SlotQueue /\ t # ReadyQueue
      /\ "READY" \in Statuses
  BY <1>1, ProcSizes DEF Shows, Stands, Statuses, SlotQueue
<1>5. Nowhere(t, l) /\ l[t] = <<>>
  BY <1>1, <1>2 DEF Placed
<1>6. Shows(k1, l1, st1, c)
  <2> HIDE DEF k1
  <2>1. QED  BY <1>1, <1>4, <1>5, PutShows DEF k1
<1>7. Shows(k2, l1, st1, iq1)
  <2> HIDE DEF k1, l1, st1
  <2>1. QED  BY <1>4, <1>6, InQueueShows
<1>8. k3 = k2
  <2> DEFINE m == k2.mem
  <2>1. k2 = [mem |-> m, status |-> st1, inQueue |-> iq1] /\ Stands(m, l1)
    BY <1>7 DEF Shows
  <2>2. l1[t] = <<>>
    BY <1>4, <1>5
  <2>3. k1.mem = m
    <3>1. k1 = [mem |-> k1.mem, status |-> st1, inQueue |-> c]
      BY <1>6 DEF Shows
    <3> HIDE DEF k1
    <3>2. QED  BY <3>1
  <2>4. k3 = [k2 EXCEPT !.mem = Procs!QueueInit(m, t)]
    <3> HIDE DEF k1, m
    <3>1. QED  BY <2>3
  <2> HIDE DEF m, k2, l1, k3
  <2>5. Procs!QueueInit(m, t) = m
    BY <1>4, <2>1, <2>2, StandsDequeue
  <2> HIDE DEF st1, iq1
  <2>6. k3 = [k2 EXCEPT !.mem = m]
    BY <2>4, <2>5
  <2>7. QED  BY <2>1, <2>6
<1>9. Shows(After, l1, st1, iq1) /\ Procs!Lines' = l1 /\ b' = st1 /\ c' = iq1
  <2> HIDE DEF k2, k3, l1, st1, iq1
  <2>1. QED  BY <1>2, <1>7, <1>8, BecomesAfter
<1>10. Placed(l1, st1, iq1, {})
  <2>1. Placed(l, b, c, {t})
    BY <1>1 DEF Placed
  <2>2. \A u \in Slot \ {t} : iq1[u] = c[u]
    BY <1>4
  <2>3. "READY" \in {"READY", "BLOCKED", "EXITED"} /\ "BLOCKED" # "READY"
    OBVIOUS
  <2> HIDE DEF iq1
  <2>4. QED  BY <1>4, <2>1, <2>2, <2>3, PutPlaced
<1>11. Fits(After, d')
  <2>1. \A u \in Slot : st1[u] = "RUNNING" <=> u = d
    BY <1>1, <1>2, <1>4
  <2>2. After.status = st1 /\ After.inQueue = iq1
    BY <1>9 DEF After
  <2> HIDE DEF st1, iq1, l1
  <2>3. QED  BY <1>2, <1>9, <1>10, <2>1, <2>2 DEF Fits
<1>12. ProcInv'
  <2>1. e' \in [Slot -> Nat] /\ f' = Procs!NoLoop /\ d' \in Slot \cup {Null}
    BY <1>2, <1>3 DEF ProcInv
  <2>2. QED  BY <1>11, <2>1, AfterSchedule
<1>13. Procs!Lines' = [Procs!Lines EXCEPT ![ReadyQueue] = Append(@, t), ![t] = <<>>]
  <2>1. l1 = [l EXCEPT ![ReadyQueue] = Append(@, t), ![t] = <<>>]
    BY <1>4, <1>5
  <2>2. QED  BY <1>1, <1>9, <2>1
<1>14. Procs!Abstract!Spawn(t)
  <2>1. [u \in Slot |-> 0]' = [[u \in Slot |-> 0] EXCEPT ![t] = 0]
    OBVIOUS
  <2> HIDE DEF k3
  <2>2. QED  BY <1>2, <1>3, <1>9, <1>13, <2>1 DEF Procs!Abstract!Spawn
<1>15. QED  BY <1>12, <1>14

LEMMA ExitImplements ==
  ASSUME ProcInv, Procs!Exit
  PROVE  Procs!Abstract!Exit /\ ProcInv'
<1>1. /\ Procs!InSyscall /\ f' = [kind |-> "exit", task |-> d]
      /\ a' = a /\ b' = b /\ c' = c /\ d' = d /\ e' = e
  BY DEF Procs!Exit
<1>2. Procs!Abstract!InSyscall /\ d \in Slot
  BY <1>1, SameServing DEF Procs!InSyscall
<1>3. Procs!Lines' = Procs!Lines
  BY <1>1 DEF Procs!Lines
<1>4. f'.kind = "exit" /\ f'.task = d
  BY <1>1
<1>5. Procs!Abstract!Exit
  BY <1>1, <1>2, <1>3, <1>4, NoLocks DEF Procs!Abstract!Exit, Procs!Abstract!schedVars
<1>6. Fits(Procs!Now, d)'
  BY <1>1 DEF ProcInv, Fits, Procs!Now
<1>7. f' \in [kind : {"none", "exit", "kill"}, task : Slot]
  BY <1>1, <1>2
<1>8. ProcInv'
  BY <1>1, <1>2, <1>4, <1>6, <1>7 DEF ProcInv
<1>9. QED  BY <1>5, <1>8

\* Sched does not let programs kill themselves, nor the boot task.
LEMMA SameKillable ==
  ASSUME Promised, ProcInv, NEW t \in Slot, Procs!Killable(t)
  PROVE  Procs!Abstract!Killable(t) /\ d \in Slot /\ t # d /\ f = Procs!NoLoop
<1>1. Procs!Abstract!InSyscall /\ d \in Slot /\ f = Procs!NoLoop
  BY SameServing DEF Procs!Killable, Procs!InSyscall, Procs!Serving
<1>2. t # d /\ t # Boot /\ t # Shell /\ Procs!Alive(t)
  BY DEF Procs!Killable, Promised
<1>3. QED  BY <1>1, <1>2 DEF Procs!Abstract!Killable, Procs!Alive, Procs!Abstract!Alive

LEMMA KillReadyImplements ==
  ASSUME Promised, ProcInv, NEW t \in Slot, Procs!KillReady(t)
  PROVE  Procs!Abstract!KillReady(t) /\ ProcInv'
<1>1. /\ Procs!Killable(t) /\ b[t] = "READY" /\ f' = [kind |-> "kill", task |-> t]
      /\ a' = a /\ b' = b /\ c' = c /\ d' = d /\ e' = e
  BY DEF Procs!KillReady
<1>2. Procs!Abstract!Killable(t) /\ d \in Slot
  BY <1>1, SameKillable
<1>3. Procs!Lines' = Procs!Lines
  BY <1>1 DEF Procs!Lines
<1>4. f'.kind = "kill" /\ f'.task = t
  BY <1>1
<1>5. Procs!Abstract!KillReady(t)
  BY <1>1, <1>2, <1>3, <1>4, NoLocks DEF Procs!Abstract!KillReady, Procs!Abstract!schedVars
<1>6. Fits(Procs!Now, d)'
  BY <1>1 DEF ProcInv, Fits, Procs!Now
<1>7. f' \in [kind : {"none", "exit", "kill"}, task : Slot]
  BY <1>1
<1>8. ProcInv'
  BY <1>1, <1>2, <1>4, <1>6, <1>7 DEF ProcInv
<1>9. QED  BY <1>5, <1>8

LEMMA FinishExitImplements ==
  ASSUME ProcInv, Procs!FinishExit
  PROVE  Procs!Abstract!FinishExit /\ ProcInv'
<1>1. PICK l : /\ Shows(Procs!Now, l, b, c) /\ Placed(l, b, c, {}) /\ Procs!Lines = l
               /\ \A t \in Slot : b[t] = "RUNNING" <=> t = d
  BY NowFits
<1> DEFINE k1 == Procs!Buried(Procs!Now, d)
           l1 == Gone(l, d)
           st1 == Dead(b, l, d)
<1>2. f.kind = "exit" /\ Procs!Schedule(k1, e) /\ f' = Procs!NoLoop
  BY DEF Procs!FinishExit
<1>3. d \in Slot /\ e \in [Slot -> Nat] /\ f.task \in Slot
  BY <1>2 DEF ProcInv
<1>4. Nowhere(d, l) /\ Placed(l, b, c, {d})
  BY <1>1, <1>3 DEF Placed
<1>5. /\ Shows(k1, l1, st1, c) /\ Placed(l1, st1, c, {})
      /\ \A x \in Slot : st1[x] = "RUNNING" <=> b[x] = "RUNNING" /\ x # d
  <2>1. Interred(Procs!Now, l, b, c, d)
    BY <1>1, <1>3, <1>4, BuriedShows
  <2>2. QED  BY <2>1 DEF Interred
<1>6. Departs(l1, st1, e)
  <2>1. /\ l \in [SlotQueue -> Seq(Slot)] /\ BlockQueue \in SlotQueue /\ BlockQueue # d
        /\ BlockQueue # ReadyQueue /\ BlockQueue # ExitQueue
        /\ b \in [Slot -> Statuses]
    BY <1>1, <1>3, ProcSizes DEF Shows, Stands, SlotQueue
  <2>2. l1[BlockQueue] = l[BlockQueue]
    BY <2>1 DEF Gone, Freed
  <2>3. d \notin Members(l[BlockQueue])
    BY <1>4, <2>1 DEF Nowhere
  <2>4. st1[d] = "EXITED"
    BY <1>3 DEF Dead, Set
  <2> HIDE DEF l1, st1
  <2>5. d \notin DueIn(l1, e)
    BY <2>2, <2>3 DEF DueIn
  <2>6. QED  BY <1>1, <1>3, <1>5, <2>4, <2>5 DEF Departs
<1>7. /\ Procs!Abstract!Schedule(st1, l1, c, e)
      /\ Fits(After, d') /\ d' \in Slot \cup {Null} /\ e' = e
  <2> HIDE DEF k1, l1, st1
  <2>1. QED  BY <1>2, <1>3, <1>5, <1>6, ScheduleShows
<1>8. ProcInv'
  BY <1>2, <1>3, <1>7, AfterSchedule
<1>9. l1 = [Procs!Abstract!Released(Procs!Lines, d) EXCEPT ![ExitQueue] = Append(@, d)]
  BY <1>1 DEF Gone, Freed, Procs!Abstract!Released
<1>10. st1 = [Procs!Abstract!Woken(b, Procs!Abstract!Members(Procs!Lines[d])) EXCEPT ![d] = "EXITED"]
  <2>1. Procs!Abstract!Members(Procs!Lines[d]) = Members(l[d])
    BY <1>1, SameInSched
  <2>2. QED  BY <2>1 DEF Dead, Set, Procs!Abstract!Woken
<1>11. ~ Procs!Abstract!LoopReleases
  BY <1>3 DEF Procs!Abstract!LoopReleases
<1>12. [kind |-> f'.kind, task |-> f'.task, i |-> 0] = Procs!Abstract!NoLoop
  BY <1>2 DEF Procs!NoLoop, Procs!Abstract!NoLoop
<1> HIDE DEF k1, l1, st1
<1>13. Procs!Abstract!FinishExit
  BY <1>2, <1>7, <1>9, <1>10, <1>11, <1>12, NoLocks DEF Procs!Abstract!FinishExit
<1>14. QED  BY <1>8, <1>13

LEMMA BuryImplements ==
  ASSUME ProcInv, NEW l, Shows(Procs!Now, l, b, c), Placed(l, b, c, {}), Procs!Lines = l,
         \A u \in Slot : b[u] = "RUNNING" <=> u = d,
         NEW t \in Slot, t # d, NEW q \in SlotQueue, NEW n \in DOMAIN l[q], l[q][n] = t,
         Procs!Becomes(Procs!Buried(Procs!Take(Procs!Now, q, t), t)),
         d' = d, e' = e, f' = Procs!NoLoop
  PROVE  /\ Procs!Abstract!Bury(t, [Procs!Lines EXCEPT ![q] = Procs!Abstract!Without(@, n)])
         /\ ProcInv'
<1> DEFINE k1 == Procs!Take(Procs!Now, q, t)
           l1 == [l EXCEPT ![q] = Without(@, n)]
           k2 == Procs!Buried(k1, t)
           l2 == Gone(l1, t)
           st2 == Dead(b, l1, t)
<1>1. /\ l \in [SlotQueue -> Seq(Slot)] /\ b \in [Slot -> Statuses] /\ c \in [Slot -> SlotQueue]
      /\ l[q] \in Seq(Slot) /\ Distinct(l[q]) /\ l[q] # <<>>
  BY DEF Shows, Stands, HasIn, Chain
<1>2. Shows(k1, l1, b, c) /\ Nowhere(t, l1)
  <2> HIDE DEF k1, l1
  <2>1. /\ Shows(Procs!Take(Procs!Now, q, l[q][n]), [l EXCEPT ![q] = Without(@, n)], b, c)
        /\ Nowhere(l[q][n], [l EXCEPT ![q] = Without(@, n)])
    BY TakeShows
  <2>2. QED  BY <2>1 DEF k1, l1
<1>3. Placed(l1, b, c, {t})
  <2> DEFINE s == Without(l[q], n)
  <2>1. Members(s) = Members(l[q]) \ {t}
    BY <1>1, WithoutFacts
  <2> HIDE DEF s
  <2>2. Placed([l EXCEPT ![q] = s], b, c, {t})
    BY <1>1, <2>1, TakePlaced
  <2>3. QED  BY <2>2 DEF s
<1>4. /\ Shows(k2, l2, st2, c) /\ Placed(l2, st2, c, {})
      /\ \A x \in Slot : st2[x] = "RUNNING" <=> b[x] = "RUNNING" /\ x # t
  <2> HIDE DEF k1, l1
  <2>1. Interred(k1, l1, b, c, t)
    BY <1>2, <1>3, BuriedShows
  <2>2. QED  BY <2>1 DEF Interred
<1>5. Shows(After, l2, st2, c) /\ Procs!Lines' = l2 /\ b' = st2 /\ c' = c
  <2>1. Procs!Becomes(k2)
    OBVIOUS
  <2> HIDE DEF k2, l2, st2
  <2>2. QED  BY <1>4, <2>1, BecomesAfter
<1>6. Fits(After, d')
  <2>1. After.status = st2 /\ After.inQueue = c
    BY <1>5 DEF After
  <2>2. \A x \in Slot : st2[x] = "RUNNING" <=> x = d'
    BY <1>4
  <2> HIDE DEF l2, st2, k2
  <2>3. QED  BY <1>4, <1>5, <2>1, <2>2 DEF Fits
<1>7. ProcInv'
  <2>1. d' \in Slot \cup {Null} /\ e' \in [Slot -> Nat]
    BY DEF ProcInv
  <2>2. QED  BY <1>6, <2>1, AfterSchedule
<1>8. [Procs!Lines EXCEPT ![q] = Procs!Abstract!Without(@, n)] = l1
  BY SameInSched
<1>9. Procs!Abstract!Bury(t, l1)
  <2>1. Procs!Abstract!Released(l1, t) = Freed(l1, t)
    BY DEF Procs!Abstract!Released, Freed
  <2>2. l2 = [Procs!Abstract!Released(l1, t) EXCEPT ![ExitQueue] = Append(@, t)]
    BY <2>1 DEF Gone
  <2>3. st2 = [Procs!Abstract!Woken(b, Procs!Abstract!Members(l1[t])) EXCEPT ![t] = "EXITED"]
    <3> HIDE DEF l1
    <3>1. Procs!Abstract!Members(l1[t]) = Members(l1[t])
      BY SameInSched
    <3>2. QED  BY <3>1 DEF Dead, Set, Procs!Abstract!Woken
  <2>4. [kind |-> f'.kind, task |-> f'.task, i |-> 0] = Procs!Abstract!NoLoop
    BY DEF Procs!NoLoop, Procs!Abstract!NoLoop
  <2> HIDE DEF l1, l2, st2, k2
  <2>5. QED  BY <1>5, <2>2, <2>3, <2>4, NoLocks DEF Procs!Abstract!Bury
<1>10. QED  BY <1>7, <1>8, <1>9

LEMMA FinishKillReadyImplements ==
  ASSUME ProcInv, Procs!FinishKillReady
  PROVE  Procs!Abstract!FinishKillReady /\ ProcInv'
<1>1. PICK l : /\ Shows(Procs!Now, l, b, c) /\ Placed(l, b, c, {}) /\ Procs!Lines = l
               /\ \A u \in Slot : b[u] = "RUNNING" <=> u = d
  BY NowFits
<1> DEFINE t == f.task
<1>2. /\ f.kind = "kill" /\ f' = Procs!NoLoop /\ d' = d /\ e' = e
      /\ Procs!Becomes(Procs!Buried(Procs!Take(Procs!Now, ReadyQueue, t), t))
  BY DEF Procs!FinishKillReady
<1>3. t \in Slot /\ b[t] = "READY" /\ t # d /\ ReadyQueue \in SlotQueue
  BY <1>1, <1>2 DEF ProcInv, SlotQueue
<1>4. PICK n \in DOMAIN l[ReadyQueue] : l[ReadyQueue][n] = t
  BY <1>1, <1>3 DEF Placed, Members
<1> HIDE DEF t
<1>5. /\ Procs!Abstract!Bury(t, [Procs!Lines EXCEPT ![ReadyQueue] = Procs!Abstract!Without(@, n)])
      /\ ProcInv'
  BY <1>1, <1>2, <1>3, <1>4, BuryImplements
<1>6. ~ Procs!Abstract!LoopReleases
  BY <1>3 DEF Procs!Abstract!LoopReleases, t
<1>7. Procs!Abstract!FinishKillReady
  BY <1>1, <1>2, <1>4, <1>5, <1>6 DEF Procs!Abstract!FinishKillReady, t
<1>8. QED  BY <1>5, <1>7

LEMMA KillElsewhereImplements ==
  ASSUME Promised, ProcInv, NEW t \in Slot, Procs!KillElsewhere(t)
  PROVE  Procs!Abstract!KillBlocked(t) /\ ProcInv'
<1>1. PICK l : /\ Shows(Procs!Now, l, b, c) /\ Placed(l, b, c, {}) /\ Procs!Lines = l
               /\ \A u \in Slot : b[u] = "RUNNING" <=> u = d
  BY NowFits
<1>2. /\ Procs!Killable(t) /\ b[t] # "READY" /\ d' = d /\ e' = e /\ f' = f
      /\ Procs!Becomes(Procs!Buried(IF b[t] = "BLOCKED" THEN Procs!Take(Procs!Now, c[t], t)
                                    ELSE Procs!Now, t))
  BY DEF Procs!KillElsewhere
<1>3. Procs!Abstract!Killable(t) /\ d \in Slot /\ t # d /\ f = Procs!NoLoop
  BY <1>2, SameKillable
<1>4. b[t] = "BLOCKED" /\ c[t] \in SlotQueue
  <2>1. b[t] \in {"READY", "BLOCKED", "RUNNING"}
    BY <1>2 DEF Procs!Killable, Procs!Alive
  <2>2. b[t] # "RUNNING"
    BY <1>1, <1>3
  <2>3. c \in [Slot -> SlotQueue]
    BY <1>1 DEF Shows
  <2>4. QED  BY <1>2, <2>1, <2>2, <2>3
<1>5. PICK n \in DOMAIN l[c[t]] : l[c[t]][n] = t
  BY <1>1, <1>4 DEF Placed, Members
<1> DEFINE q == c[t]
<1> HIDE DEF q
<1>6. /\ q \in SlotQueue /\ n \in DOMAIN l[q] /\ l[q][n] = t
      /\ Procs!Becomes(Procs!Buried(Procs!Take(Procs!Now, q, t), t))
  BY <1>2, <1>4, <1>5 DEF q
<1>7. f' = Procs!NoLoop
  BY <1>2, <1>3
<1>8. /\ Procs!Abstract!Bury(t, [Procs!Lines EXCEPT ![q] = Procs!Abstract!Without(@, n)])
      /\ ProcInv'
  BY <1>1, <1>2, <1>3, <1>6, <1>7, BuryImplements
<1>9. Procs!Abstract!KillBlocked(t)
  BY <1>1, <1>3, <1>4, <1>6, <1>8 DEF Procs!Abstract!KillBlocked, q
<1>10. QED  BY <1>8, <1>9

-----------------------------------------------------------------------------
(* The refinement                                                          *)

\* The boot task runs and the shell is ready.
LEMMA ProcInitially ==
  ASSUME Procs!Init
  PROVE  Procs!Abstract!Init /\ ProcInv
<1> DEFINE m0 == [head |-> [q \in SlotQueue |-> Null], tail |-> [q \in SlotQueue |-> Null],
                  next |-> [x \in Slot |-> Null],      prev |-> [x \in Slot |-> Null]]
           l0 == [q \in SlotQueue |-> <<>>]
           l == [l0 EXCEPT ![ReadyQueue] = Append(@, Shell)]
           st0 == [t \in Slot |-> IF t = Boot THEN "RUNNING" ELSE IF t = Shell THEN "READY" ELSE "UNUSED"]
<1>1. /\ a = Procs!QueuePush(m0, ReadyQueue, Shell)
      /\ b = st0
      /\ c = [t \in Slot |-> ReadyQueue]
      /\ d = Boot /\ e = [t \in Slot |-> 0] /\ f = Procs!NoLoop
  <2>1. b = st0
    <3>1. b = [t \in Slot |-> CASE t = Boot -> "RUNNING" [] t = Shell -> "READY" [] OTHER -> "UNUSED"]
      BY DEF Procs!Init
    <3>2. \A t \in Slot : (CASE t = Boot -> "RUNNING" [] t = Shell -> "READY" [] OTHER -> "UNUSED")
                          = IF t = Boot THEN "RUNNING" ELSE IF t = Shell THEN "READY" ELSE "UNUSED"
      BY ProcSizes
    <3>3. QED  BY <3>1, <3>2
  <2>2. SlotQueue = {ReadyQueue, BlockQueue, ExitQueue} \cup Slot
    BY DEF SlotQueue
  <2> HIDE DEF st0
  <2>3. QED  BY <2>1, <2>2 DEF Procs!Init
<1>2. ReadyQueue \in SlotQueue /\ Shell \in Slot /\ Boot \in Slot /\ Boot # Shell /\ Slot \subseteq SlotQueue
      /\ ReadyQueue \notin Slot
  BY ProcSizes DEF SlotQueue
<1>3. Stands(m0, l0)
  <2>1. m0 \in MemoryOn(Slot, SlotQueue)
    BY DEF MemoryOn, PointerTo
  <2>2. l0 \in [SlotQueue -> Seq(Slot)]
    OBVIOUS
  <2>3. \A q \in SlotQueue : HasIn(Slot, m0, q, l0[q])
    BY DEF HasIn, Chain, Visits, Distinct
  <2>4. \A q, r \in SlotQueue : Members(l0[q]) \cap Members(l0[r]) = {}
    BY DEF Members
  <2> HIDE DEF m0, l0
  <2>5. QED  BY <2>1, <2>2, <2>3, <2>4 DEF Stands
<1>4. Nowhere(Shell, l0)
  BY DEF Nowhere, Members
<1>5. Stands(a, l)
  <2> HIDE DEF m0, l0
  <2>1. QED  BY <1>1, <1>2, <1>3, <1>4, StandsPush
<1>6. \A q \in SlotQueue : l[q] = IF q = ReadyQueue THEN <<Shell>> ELSE <<>>
  <2>1. Append(<<>>, Shell) = <<Shell>>
    OBVIOUS
  <2>2. l0[ReadyQueue] = <<>>
    BY <1>2
  <2>3. l = [l0 EXCEPT ![ReadyQueue] = <<Shell>>]
    BY <2>1, <2>2
  <2> HIDE DEF l
  <2>4. QED  BY <2>3
<1>7. b \in [Slot -> Statuses] /\ c \in [Slot -> SlotQueue]
  BY <1>1, <1>2 DEF Statuses
<1>8. Shows(Procs!Now, l, b, c)
  <2> HIDE DEF l
  <2>1. QED  BY <1>5, <1>7 DEF Shows, Procs!Now
<1>9. Members(<<Shell>>) = {Shell} /\ Members(<<>>) = {}
  BY DEF Members
<1>10. Placed(l, b, c, {})
  <2> HIDE DEF l
  <2> SUFFICES ASSUME NEW t \in Slot
               PROVE  /\ b[t] = "READY" => t \in Members(l[ReadyQueue])
                      /\ b[t] = "BLOCKED" => t \in Members(l[c[t]])
                      /\ b[t] \in {"UNUSED", "RUNNING"} => Nowhere(t, l)
                      /\ b[t] = "UNUSED" => l[t] = <<>>
    BY DEF Placed
  <2>1. b[t] = IF t = Boot THEN "RUNNING" ELSE IF t = Shell THEN "READY" ELSE "UNUSED"
    BY <1>1
  <2>2. l[t] = <<>>
    BY <1>2, <1>6
  <2>3. t # Shell => Nowhere(t, l)
    BY <1>6, <1>9 DEF Nowhere
  <2>4. QED  BY <1>2, <1>6, <1>9, <2>1, <2>2, <2>3
<1>11. \A t \in Slot : b[t] = "RUNNING" <=> t = d
  BY <1>1, <1>2
<1>12. Procs!Lines = l
  <2> HIDE DEF l
  <2>1. QED  BY <1>8, LinesNow
<1>13. ProcInv
  <2>1. Fits(Procs!Now, d)
    <3> HIDE DEF l
    <3>1. Procs!Now.status = b /\ Procs!Now.inQueue = c
      BY DEF Procs!Now
    <3>2. QED  BY <1>8, <1>10, <1>11, <3>1 DEF Fits
  <2>2. f \in [kind : {"none", "exit", "kill"}, task : Slot] /\ f.kind = "none"
    BY <1>1, <1>2 DEF Procs!NoLoop
  <2>3. e \in [Slot -> Nat] /\ d \in Slot
    BY <1>1, <1>2
  <2>4. QED  BY <2>1, <2>2, <2>3 DEF ProcInv
<1>14. Procs!Abstract!Init
  <2>1. b = [t \in Slot |-> CASE t = Boot -> "RUNNING" [] t = Shell -> "READY" [] OTHER -> "UNUSED"]
    BY DEF Procs!Init
  <2>2. Procs!Lines = [q \in Procs!Abstract!Queue |-> IF q = ReadyQueue THEN <<Shell>> ELSE <<>>]
    <3>1. Procs!Abstract!Queue = SlotQueue
      BY DEF Procs!Abstract!Queue, SlotQueue
    <3>2. l = [q \in SlotQueue |-> l[q]]
      OBVIOUS
    <3> HIDE DEF l
    <3>3. QED  BY <1>6, <1>12, <3>1, <3>2
  <2>3. [kind |-> f.kind, task |-> f.task, i |-> 0] = Procs!Abstract!NoLoop
    BY <1>13, <1>1, SameServing
  <2>4. c = [t \in Slot |-> ReadyQueue] /\ d = Boot /\ e = [t \in Slot |-> 0]
    BY <1>1
  <2>5. [x \in {} |-> "UNLOCKED"] = [x \in {} \cup {} |-> "UNLOCKED"]
    OBVIOUS
  <2>6. [t \in Slot |-> [n \in {0} |-> Null]] = [t \in Slot |-> [n \in 0 .. (1 - 1) |-> Null]]
    OBVIOUS
  <2>7. QED  BY <2>1, <2>2, <2>3, <2>4, <2>5, <2>6 DEF Procs!Abstract!Init
<1>15. QED  BY <1>13, <1>14

LEMMA ProcStep ==
  ASSUME Promised, ProcInv, Procs!Next
  PROVE  Procs!Abstract!Next /\ ProcInv'
<1>1. CASE Procs!Timer
  BY <1>1, TimerImplements DEF Procs!Abstract!Next
<1>2. CASE \E n \in SleepTimes : Procs!Sleep(n)
  BY <1>2, SleepImplements DEF Procs!Abstract!Next
<1>3. ASSUME NEW t \in Slot, Procs!Spawn(t) PROVE Procs!Abstract!Next /\ ProcInv'
  BY <1>3, SpawnImplements DEF Procs!Abstract!Next
<1>4. ASSUME NEW t \in Slot, Procs!WaitPid(t) PROVE Procs!Abstract!Next /\ ProcInv'
  BY <1>4, WaitPidImplements DEF Procs!Abstract!Next
<1>5. ASSUME NEW t \in Slot, Procs!KillReady(t) PROVE Procs!Abstract!Next /\ ProcInv'
  BY <1>5, KillReadyImplements DEF Procs!Abstract!Next
<1>6. ASSUME NEW t \in Slot, Procs!KillElsewhere(t) PROVE Procs!Abstract!Next /\ ProcInv'
  BY <1>6, KillElsewhereImplements DEF Procs!Abstract!Next
<1>7. CASE Procs!WaitNobody
  BY <1>7, WaitNobodyImplements DEF Procs!Abstract!Next
<1>8. CASE Procs!Exit
  BY <1>8, ExitImplements DEF Procs!Abstract!Next
<1>9. CASE Procs!FinishExit
  BY <1>9, FinishExitImplements DEF Procs!Abstract!Next
<1>10. CASE Procs!FinishKillReady
  BY <1>10, FinishKillReadyImplements DEF Procs!Abstract!Next
<1>11. QED  BY <1>1, <1>2, <1>3, <1>4, <1>5, <1>6, <1>7, <1>8, <1>9, <1>10 DEF Procs!Next

LEMMA ProcAlways ==
  ASSUME Promised
  PROVE  PartsSpec => [](part = "processes" => ProcInv)
<1>1. InitParts => (part = "processes" => ProcInv)
  BY ProcInitially DEF InitParts
<1>2. (part = "processes" => ProcInv) /\ [NextOfPart]_allVars => (part = "processes" => ProcInv)'
  <2> SUFFICES ASSUME part = "processes" => ProcInv, [NextOfPart]_allVars, part' = "processes"
               PROVE  ProcInv'
    OBVIOUS
  <2>1. CASE InProcs(Procs!Next)
    BY <2>1, ProcStep DEF InProcs
  <2>2. CASE UNCHANGED allVars
    <3>1. part = "processes" /\ UNCHANGED <<a, b, c, d, e, f>>
      BY <2>2 DEF allVars
    <3>2. Fits(Procs!Now, d)' = Fits(Procs!Now, d)
      BY <3>1 DEF Procs!Now, Fits
    <3>3. QED  BY <3>1, <3>2 DEF ProcInv
  <2>3. InProcs(Procs!Next) \/ UNCHANGED allVars
    BY DEF NextOfPart, InLists, InProcs, InBarrier, InCond, InMailbox, InNames, InNet
  <2>4. QED  BY <2>1, <2>2, <2>3
<1>3. QED  BY <1>1, <1>2, PTL DEF PartsSpec

\* What the kernel does to the linked lists of the processes is what Sched says of
\* queues, for any number of slots (sched.c: do_scheduler, check_sleeping, do_spawn,
\* do_sleep, do_exit, do_kill, do_waitpid), as long as programs spawn each task once,
\* sleep a tick at least, and kill neither themselves nor pid 0.
THEOREM ImplementsSchedAlways == Promised => (PartsSpec => ImplementsSched)
<1> SUFFICES ASSUME Promised PROVE PartsSpec => ImplementsSched
  OBVIOUS
<1>1. PartsSpec => [](part = "processes" => ProcInv)
  BY ProcAlways
<1>2. InitParts => (part = "processes" => Procs!Abstract!Init)
  BY ProcInitially DEF InitParts
<1>3. (part = "processes" => ProcInv) /\ [NextOfPart]_allVars
        => [part = "processes" => Procs!Abstract!Next \/ UNCHANGED Procs!Abstract!vars]_allVars
  <2> SUFFICES ASSUME part = "processes" => ProcInv, NextOfPart, part = "processes"
               PROVE  Procs!Abstract!Next
    OBVIOUS
  <2>1. Procs!Next
    BY DEF NextOfPart, InLists, InProcs, InBarrier, InCond, InMailbox, InNames, InNet
  <2>2. QED  BY <2>1, ProcStep
<1>4. QED  BY <1>1, <1>2, <1>3, PTL DEF PartsSpec, ImplementsSched
=============================================================================
