----------------------------- MODULE SchedProofs -----------------------------
(***************************************************************************)
(* Proofs about Sched, for every number of tasks, mutexes and semaphores:  *)
(* where a task is, its two queues, and then the mutexes.                  *)
(***************************************************************************)
EXTENDS Sched, QueueFacts, FiniteSetTheorems, TLAPS

\* The tasks of S in the order of s: exactly S, each once.
LEMMA InOrderFacts ==
  ASSUME NEW S \in SUBSET Task, NEW s \in Seq(Task), Distinct(s),
         NEW w \in InOrder(s, S)
  PROVE  /\ w \in Seq(Task)
         /\ Members(w) = S
         /\ Distinct(w)
<1>1. IsFiniteSet(S) /\ Cardinality(S) \in Nat
  BY FS_Subset, FS_CardinalityType, TasksAssumption
<1>2. w \in [1..Cardinality(S) -> S] /\ Members(w) = S
  BY DEF InOrder
<1>3. w \in Seq(Task)
  BY <1>1, <1>2
<1>4. \A i, j \in DOMAIN w : i < j => w[i] # w[j]
  BY <1>2 DEF InOrder, Distinct, Members
<1>5. Distinct(w)
  BY <1>1, <1>2, <1>4 DEF Distinct
<1>6. QED  BY <1>2, <1>3, <1>5

-----------------------------------------------------------------------------
(* Where the tasks are, said of any statuses and queues, so that it can be  *)
(* said between two calls of one handler.                                   *)

Status == {"UNUSED", "READY", "BLOCKED", "RUNNING", "EXITED"}
Live == {"READY", "BLOCKED", "RUNNING"}

QueuesOK(qs) == qs \in [Queue -> Seq(Task)]

Separate(qs) ==
  /\ \A q \in Queue : Distinct(qs[q])
  /\ \A q, r \in Queue : q # r => Members(qs[q]) \cap Members(qs[r]) = {}

LocatedAt(st, qs, inq, t) ==
  /\ st[t] = "READY"   <=> t \in Members(qs[Ready])
  /\ st[t] = "EXITED"  <=> t \in Members(qs[Exited])
  /\ st[t] = "BLOCKED" <=>
       \E q \in Queue \ {Ready, Exited} : t \in Members(qs[q])
  /\ st[t] = "BLOCKED" => t \in Members(qs[inq[t]])

Located(st, qs, inq) == \A t \in Task : LocatedAt(st, qs, inq, t)

OneRuns(st, cur) == \A t \in Task : st[t] = "RUNNING" <=> t = cur

Placed(st, qs, inq) ==
  /\ st \in [Task -> Status]
  /\ QueuesOK(qs)
  /\ inq \in [Task -> Queue]
  /\ Separate(qs)
  /\ Located(st, qs, inq)

\* OnePlace in terms of the sets of tasks queued.
LEMMA OnePlaceIsSeparate ==
  ASSUME QueuesOK(queue)
  PROVE  OnePlace <=> Separate(queue)
<1>1. ASSUME OnePlace PROVE Separate(queue)
  BY <1>1 DEF OnePlace, Separate, Distinct, Members
<1>2. ASSUME Separate(queue) PROVE OnePlace
  <2> SUFFICES ASSUME NEW q \in Queue, NEW r \in Queue,
                      NEW i \in DOMAIN queue[q], NEW j \in DOMAIN queue[r],
                      queue[q][i] = queue[r][j]
               PROVE  q = r /\ i = j
    BY DEF OnePlace
  <2>1. queue[q][i] \in Members(queue[q]) /\ queue[r][j] \in Members(queue[r])
    BY DEF Members
  <2>2. q = r
    BY <1>2, <2>1 DEF Separate
  <2>3. QED  BY <1>2, <2>2 DEF Separate, Distinct
<1>3. QED  BY <1>1, <1>2

LEMMA QueueNames ==
  /\ Ready \in Queue /\ Sleeping \in Queue /\ Exited \in Queue
  /\ Ready # Sleeping /\ Ready # Exited /\ Sleeping # Exited
  /\ \A t \in Task : t \in Queue /\ t \notin {Ready, Sleeping, Exited}
  /\ \A l \in Lock \cup Sem : l \in Queue /\ l \notin {Ready, Sleeping, Exited}
BY QueuesAssumption DEF Queue

\* scheduler() leaves every task in the queue its status says, provided the
\* task it leaves is not a sleeper whose time is already up.
LEMMA ScheduleKeepsPlaces ==
  ASSUME NEW STATE st, NEW STATE qs, NEW STATE inq, NEW STATE lf,
         Placed(st, qs, inq),
         lf \in [Task -> Nat],
         current \in Task,
         \A t \in Task : st[t] = "RUNNING" => t = current,
         st[current] \in {"RUNNING", "BLOCKED", "EXITED"},
         current \in Members(qs[Sleeping]) => lf[current] # 0,
         Schedule(st, qs, inq, lf)
  PROVE  /\ Placed(status', queue', inQueue')
         /\ OneRuns(status', current')
         /\ current' \in Task \cup {NoTask}
         /\ left' = lf
         /\ \A q \in Queue \ {Ready, Sleeping} : queue'[q] = qs[q]
         /\ \A t \in Task : \/ status'[t] = st[t]
                            \/ st[t] \in Live /\ status'[t] \in {"READY", "RUNNING"}
         /\ (\E t \in Task : st[t] \in {"READY", "RUNNING"}) => current' # NoTask
<1> DEFINE due   == Due(qs, lf)
           awake == Woken(st, due)
           again == IF StaysRunnable(current, awake[current])
                    THEN <<current>> ELSE <<>>
           back  == Woken(awake, Members(again))
<1>1. due \in SUBSET Task /\ due \subseteq Members(qs[Sleeping])
  BY QueueNames DEF Due, Placed, QueuesOK, Members
<1>2. PICK woken \in InOrder(qs[Sleeping], due),
           asleep \in InOrder(qs[Sleeping], Members(qs[Sleeping]) \ due) :
        LET line == Line(qs[Ready], woken, again)
        IN /\ left' = lf
           /\ inQueue' = [t \in Task |-> IF t \in due THEN Ready ELSE inq[t]]
           /\ IF line = <<>>
              THEN /\ current' = NoTask
                   /\ queue' = [qs EXCEPT ![Sleeping] = asleep]
                   /\ status' = back
              ELSE /\ current' = Head(line)
                   /\ queue' = [qs EXCEPT ![Sleeping] = asleep,
                                          ![Ready] = Tail(line)]
                   /\ status' = [back EXCEPT ![Head(line)] = "RUNNING"]
  BY Zenon DEF Schedule
<1> DEFINE line == Line(qs[Ready], woken, again)
<1> HIDE DEF due, awake, again, back, line
<1> USE QueueNames
<1>3. /\ qs[Ready] \in Seq(Task) /\ qs[Sleeping] \in Seq(Task)
      /\ Distinct(qs[Ready]) /\ Distinct(qs[Sleeping])
      /\ Members(qs[Ready]) \cap Members(qs[Sleeping]) = {}
      /\ Members(qs[Sleeping]) \subseteq Task
  <2>1. /\ qs[Ready] \in Seq(Task) /\ qs[Sleeping] \in Seq(Task)
        /\ Distinct(qs[Ready]) /\ Distinct(qs[Sleeping])
        /\ Members(qs[Ready]) \cap Members(qs[Sleeping]) = {}
    BY DEF Placed, QueuesOK, Separate
  <2>2. Members(qs[Sleeping]) \subseteq Task
    BY <2>1 DEF Members
  <2>3. QED  BY <2>1, <2>2
<1>4. /\ woken \in Seq(Task) /\ Members(woken) = due /\ Distinct(woken)
      /\ asleep \in Seq(Task) /\ Distinct(asleep)
      /\ Members(asleep) = Members(qs[Sleeping]) \ due
  BY <1>1, <1>3, InOrderFacts
<1>5. current \notin due
  BY DEF Due, due
<1>6. awake[current] = st[current]
  BY <1>5 DEF Woken, awake
<1>7. /\ again \in Seq(Task) /\ Distinct(again)
      /\ Members(again) = IF st[current] = "RUNNING" THEN {current} ELSE {}
      /\ again = <<>> <=> Members(again) = {}
  <2>1. CASE st[current] = "RUNNING"
    <3>1. again = <<current>>
      BY <1>6, <2>1 DEF StaysRunnable, again
    <3>2. QED  BY <2>1, <3>1 DEF Members, Distinct
  <2>2. CASE st[current] # "RUNNING"
    <3>1. again = <<>>
      BY <1>6, <2>2 DEF StaysRunnable, again
    <3>2. QED  BY <2>2, <3>1 DEF Members, Distinct
  <2>3. QED  BY <2>1, <2>2
<1>8. current \notin Members(qs[Ready]) \cup Members(qs[Sleeping])
        \/ st[current] # "RUNNING"
  BY DEF Placed, Located, LocatedAt
<1>9. /\ line \in Seq(Task) /\ Distinct(line)
      /\ Members(line) = Members(qs[Ready]) \cup due \cup Members(again)
  <2> DEFINE first == qs[Ready] \o woken
  <2>1. /\ first \in Seq(Task)
        /\ Members(first) = Members(qs[Ready]) \cup due
        /\ Distinct(first)
    BY <1>1, <1>3, <1>4, ConcatFacts
  <2>2. Members(first) \cap Members(again) = {}
    BY <1>1, <1>7, <1>8, <1>5, <2>1
  <2>3. line = first \o again
    BY DEF Line, line
  <2> HIDE DEF first
  <2>4. /\ first \o again \in Seq(Task)
        /\ Members(first \o again) = Members(first) \cup Members(again)
        /\ Distinct(first \o again)
    BY <1>7, <2>1, <2>2, ConcatFacts
  <2>5. QED  BY <2>1, <2>3, <2>4
<1>10. /\ back \in [Task -> Status]
       /\ \A t \in Task : back[t] = IF t \in due \cup Members(again)
                                  THEN "READY" ELSE st[t]
  BY DEF Woken, Placed, Status, back, awake
<1>11. /\ left' = lf
       /\ inQueue' = [t \in Task |-> IF t \in due THEN Ready ELSE inq[t]]
       /\ inQueue' \in [Task -> Queue]
  BY <1>2 DEF Placed, line
<1>12. CASE line = <<>>
  <2>1. /\ current' = NoTask
        /\ queue' = [qs EXCEPT ![Sleeping] = asleep]
        /\ status' = back
    BY <1>2, <1>12 DEF line
  <2>2. Members(line) = {}
    BY <1>12 DEF Members
  <2>3. due = {} /\ Members(again) = {} /\ Members(qs[Ready]) = {}
    BY <1>9, <2>2
  <2>4. \A t \in Task : status'[t] = st[t] /\ inQueue'[t] = inq[t]
    BY <1>10, <1>11, <2>1, <2>3
  <2>5. /\ QueuesOK(queue')
        /\ \A q \in Queue : /\ Members(queue'[q]) = Members(qs[q])
                            /\ Distinct(queue'[q])
    BY <1>4, <2>1, <2>3 DEF QueuesOK, Placed, Separate
  <2>6. Separate(queue')
    BY <2>5 DEF Placed, Separate
  <2>7. Located(status', queue', inQueue')
    BY <2>4, <2>5 DEF Located, LocatedAt, Placed
  <2>8. OneRuns(status', current')
    BY <1>7, <2>1, <2>3, <2>4, TasksAssumption DEF OneRuns
  <2>9. \A q \in Queue \ {Ready, Sleeping} : queue'[q] = qs[q]
    BY <2>1 DEF Placed, QueuesOK
  <2>10. \A t \in Task : st[t] \notin {"READY", "RUNNING"}
    BY <1>7, <2>3 DEF Placed, Located, LocatedAt
  <2>11. QED
    BY <1>10, <1>11, <2>1, <2>4, <2>5, <2>6, <2>7, <2>8, <2>9, <2>10 DEF Placed
<1>13. CASE line # <<>>
  <2> DEFINE head == Head(line)
  <2>1. /\ current' = head
        /\ queue' = [qs EXCEPT ![Sleeping] = asleep, ![Ready] = Tail(line)]
        /\ status' = [back EXCEPT ![head] = "RUNNING"]
    BY <1>2, <1>13 DEF line
  <2>2. /\ head \in Task /\ head \in Members(line)
        /\ Tail(line) \in Seq(Task)
        /\ Members(Tail(line)) = Members(line) \ {head}
        /\ Distinct(Tail(line))
    BY <1>9, <1>13, TailFacts
  <2> HIDE DEF head
  <2>3. \A t \in Task :
          status'[t] = IF t = head THEN "RUNNING"
                       ELSE IF t \in due \cup Members(again) THEN "READY"
                       ELSE st[t]
    BY <1>10, <2>1, <2>2
  <2>4. /\ QueuesOK(queue')
        /\ queue'[Ready] = Tail(line) /\ queue'[Sleeping] = asleep
        /\ \A q \in Queue \ {Ready, Sleeping} : queue'[q] = qs[q]
    BY <1>4, <2>1, <2>2 DEF QueuesOK, Placed
  <2>5. \A q \in Queue : Distinct(queue'[q])
    BY <1>4, <2>2, <2>4 DEF Placed, Separate
  <2> DEFINE moved == due \cup Members(again) \cup Members(qs[Ready])
  <2>6. /\ head \in moved
        /\ \A t \in moved : /\ st[t] \in {"READY", "BLOCKED", "RUNNING"}
                            /\ t \notin Members(asleep)
                            /\ \A q \in Queue \ {Ready, Sleeping} :
                                 t \notin Members(qs[q])
    <3>1. head \in moved
      BY <1>9, <2>2
    <3>2. ASSUME NEW t \in due
          PROVE  /\ st[t] = "BLOCKED" /\ t \notin Members(asleep)
                 /\ \A q \in Queue \ {Ready, Sleeping} : t \notin Members(qs[q])
      BY <1>1, <1>4 DEF Placed, Separate, Located, LocatedAt
    <3>3. ASSUME NEW t \in Members(qs[Ready])
          PROVE  /\ st[t] = "READY" /\ t \notin Members(asleep)
                 /\ \A q \in Queue \ {Ready, Sleeping} : t \notin Members(qs[q])
      <4>1. t \in Task
        BY <1>3 DEF Members
      <4>2. QED  BY <1>3, <1>4, <4>1 DEF Placed, Separate, Located, LocatedAt
    <3>4. ASSUME NEW t \in Members(again)
          PROVE  /\ st[t] = "RUNNING" /\ t \notin Members(asleep)
                 /\ \A q \in Queue \ {Ready, Sleeping} : t \notin Members(qs[q])
      BY <1>4, <1>7 DEF Placed, Located, LocatedAt
    <3>5. QED  BY <3>1, <3>2, <3>3, <3>4
  <2> HIDE DEF moved
  <2>7. /\ Members(queue'[Ready]) = moved \ {head}
        /\ Members(queue'[Sleeping]) = Members(asleep)
        /\ \A q \in Queue \ {Ready, Sleeping} : Members(queue'[q]) = Members(qs[q])
    BY <1>9, <2>2, <2>4 DEF moved
  <2>8. Separate(queue')
    <3> SUFFICES ASSUME NEW q \in Queue, NEW r \in Queue, q # r
                 PROVE  Members(queue'[q]) \cap Members(queue'[r]) = {}
      BY <2>5 DEF Separate
    <3>1. \A u \in Queue \ {Ready} : Members(queue'[u]) \subseteq Members(qs[u])
      BY <1>4, <2>7
    <3>2. \A u \in Queue \ {Ready} : moved \cap Members(queue'[u]) = {}
      BY <2>6, <2>7
    <3>3. QED  BY <2>7, <3>1, <3>2 DEF Separate, Placed
  <2>9. Located(status', queue', inQueue')
    <3> SUFFICES ASSUME NEW t \in Task
                 PROVE  /\ status'[t] = "READY"   <=> t \in Members(queue'[Ready])
                        /\ status'[t] = "EXITED"  <=> t \in Members(queue'[Exited])
                        /\ status'[t] = "BLOCKED" <=>
                             \E q \in Queue \ {Ready, Exited} :
                               t \in Members(queue'[q])
                        /\ status'[t] = "BLOCKED" =>
                             t \in Members(queue'[inQueue'[t]])
      BY DEF Located, LocatedAt
    <3>1. CASE t \in moved
      <4>1. \A q \in Queue \ {Ready} : t \notin Members(queue'[q])
        BY <2>6, <2>7, <3>1
      <4>2. status'[t] = IF t = head THEN "RUNNING" ELSE "READY"
        <5>1. t \in Members(qs[Ready]) => st[t] = "READY"
          BY DEF Placed, Located, LocatedAt
        <5>2. QED  BY <2>3, <3>1, <5>1 DEF moved
      <4>3. QED  BY <2>7, <3>1, <4>1, <4>2
    <3>2. CASE t \notin moved
      <4>1. status'[t] = st[t] /\ inQueue'[t] = inq[t]
        BY <1>11, <2>3, <2>6, <3>2 DEF moved
      <4>2. t \notin Members(qs[Ready]) /\ t \notin due
        BY <3>2 DEF moved
      <4>3. \A q \in Queue : t \in Members(queue'[q]) <=> t \in Members(qs[q])
        BY <1>4, <2>7, <3>2, <4>2
      <4>4. QED  BY <4>1, <4>3 DEF Placed, Located, LocatedAt
    <3>3. QED  BY <3>1, <3>2
  <2>10. OneRuns(status', current')
    <3>1. \A t \in Task : st[t] = "RUNNING" => t \in Members(again)
      BY <1>7
    <3>2. QED  BY <2>1, <2>2, <2>3, <3>1 DEF OneRuns
  <2>11. \A t \in Task :
           \/ status'[t] = st[t]
           \/ st[t] \in Live /\ status'[t] \in {"READY", "RUNNING"}
    BY <2>3, <2>6 DEF moved, Live
  <2>12. status' \in [Task -> Status] /\ current' \in Task /\ current' # NoTask
    BY <1>10, <2>1, <2>2, TasksAssumption DEF Status
  <2>13. QED
    BY <1>11, <2>4, <2>8, <2>9, <2>10, <2>11, <2>12 DEF Placed
<1>14. QED  BY <1>12, <1>13

-----------------------------------------------------------------------------
(* A handler takes a task out of its queue, perhaps releases others, and    *)
(* puts it into another queue.                                              *)

\* Every task but v is placed, and v is in no queue.
Loose(st, qs, inq, v) ==
  /\ st \in [Task -> Status]
  /\ QueuesOK(qs)
  /\ inq \in [Task -> Queue]
  /\ Separate(qs)
  /\ v \in Task
  /\ \A q \in Queue : v \notin Members(qs[q])
  /\ \A t \in Task \ {v} : LocatedAt(st, qs, inq, t)

\* A task that runs is in no queue.
LEMMA RunningIsLoose ==
  ASSUME NEW STATE st, NEW STATE qs, NEW STATE inq, NEW STATE v,
         Placed(st, qs, inq), v \in Task, st[v] \in {"RUNNING", "UNUSED"}
  PROVE  Loose(st, qs, inq, v)
<1>1. \A q \in Queue : v \notin Members(qs[q])
  BY QueueNames DEF Placed, Located, LocatedAt
<1>2. QED  BY <1>1 DEF Placed, Located, Loose

\* Taking v out of the one queue it is in makes it loose.
LEMMA RemoveMakesLoose ==
  ASSUME NEW STATE st, NEW STATE qs, NEW STATE inq, NEW STATE v,
         NEW STATE q, NEW STATE s,
         Placed(st, qs, inq), q \in Queue, v \in Members(qs[q]),
         s \in Seq(Task), Distinct(s), Members(s) = Members(qs[q]) \ {v}
  PROVE  Loose(st, [qs EXCEPT ![q] = s], inq, v)
<1> DEFINE out == [qs EXCEPT ![q] = s]
<1>1. /\ QueuesOK(out) /\ out[q] = s
      /\ \A r \in Queue \ {q} : out[r] = qs[r]
  BY DEF Placed, QueuesOK
<1>2. v \in Task
  BY DEF Placed, QueuesOK, Members
<1> HIDE DEF out
<1>3. \A r \in Queue : Members(out[r]) = Members(qs[r]) \ {v}
  BY <1>1 DEF Placed, Separate
<1>4. Separate(out)
  BY <1>1, <1>3 DEF Placed, Separate
<1>5. ASSUME NEW t \in Task \ {v} PROVE LocatedAt(st, out, inq, t)
  <2>1. \A r \in Queue : t \in Members(out[r]) <=> t \in Members(qs[r])
    BY <1>3
  <2>2. LocatedAt(st, qs, inq, t) /\ inq[t] \in Queue
    BY DEF Placed, Located
  <2>3. QED  BY <2>1, <2>2, QueueNames DEF LocatedAt
<1>6. QED  BY <1>1, <1>2, <1>3, <1>4, <1>5 DEF Loose, Placed, out

\* do_unblock_all of the waiters for u keeps every task but v placed.
LEMMA ReleaseKeepsLoose ==
  ASSUME NEW STATE st, NEW STATE qs, NEW STATE inq, NEW STATE v, NEW STATE u,
         Loose(st, qs, inq, v), u \in Task
  PROVE  Loose(Woken(st, Members(qs[u])), Released(qs, u), inq, v)
<1> DEFINE woken == Woken(st, Members(qs[u]))
           freed == Released(qs, u)
<1> USE QueueNames
<1>1. /\ qs[Ready] \in Seq(Task) /\ qs[u] \in Seq(Task)
      /\ Distinct(qs[Ready]) /\ Distinct(qs[u])
      /\ Members(qs[Ready]) \cap Members(qs[u]) = {}
  BY DEF Loose, QueuesOK, Separate
<1>2. /\ qs[Ready] \o qs[u] \in Seq(Task)
      /\ Members(qs[Ready] \o qs[u]) = Members(qs[Ready]) \cup Members(qs[u])
      /\ Distinct(qs[Ready] \o qs[u])
  BY <1>1, ConcatFacts
<1>3. /\ QueuesOK(freed)
      /\ freed[Ready] = qs[Ready] \o qs[u] /\ freed[u] = <<>>
      /\ \A q \in Queue \ {Ready, u} : freed[q] = qs[q]
  <2>1. u \in Queue /\ Ready \in Queue /\ u # Ready
    BY DEF Loose
  <2>2. qs \in [Queue -> Seq(Task)] /\ <<>> \in Seq(Task)
    BY DEF Loose, QueuesOK
  <2>3. freed = [qs EXCEPT ![Ready] = qs[Ready] \o qs[u], ![u] = <<>>]
    BY DEF Released
  <2> HIDE DEF freed
  <2>4. QED  BY <1>2, <2>1, <2>2, <2>3 DEF QueuesOK
<1>4. /\ woken \in [Task -> Status]
      /\ \A t \in Task : woken[t] = IF t \in Members(qs[u]) THEN "READY" ELSE st[t]
  BY DEF Woken, Loose, Status
<1> HIDE DEF woken, freed
<1>5. Members(<<>>) = {} /\ Distinct(<<>>)
  BY DEF Members, Distinct
<1>6. /\ Members(freed[Ready]) = Members(qs[Ready]) \cup Members(qs[u])
      /\ Members(freed[u]) = {}
      /\ \A q \in Queue \ {Ready, u} : Members(freed[q]) = Members(qs[q])
  BY <1>2, <1>3, <1>5
<1>7. Separate(freed)
  <2>1. \A q \in Queue : Distinct(freed[q])
    BY <1>2, <1>3, <1>5 DEF Loose, Separate
  <2>2. \A q, r \in Queue : q # r => Members(freed[q]) \cap Members(freed[r]) = {}
    BY <1>6 DEF Loose, Separate
  <2>3. QED  BY <2>1, <2>2 DEF Separate
<1>8. ASSUME NEW t \in Task \ {v} PROVE LocatedAt(woken, freed, inq, t)
  <2>1. CASE t \in Members(qs[u])
    <3>1. \A q \in Queue \ {u} : t \notin Members(qs[q])
      BY <2>1 DEF Loose, Separate
    <3>2. QED  BY <1>4, <1>6, <2>1, <3>1 DEF LocatedAt
  <2>2. CASE t \notin Members(qs[u])
    <3>1. \A q \in Queue : t \in Members(freed[q]) <=> t \in Members(qs[q])
      BY <1>6, <2>2
    <3>2. woken[t] = st[t]
      BY <1>4, <2>2
    <3>3. QED  BY <3>1, <3>2 DEF Loose, LocatedAt
  <2>3. QED  BY <2>1, <2>2
<1>9. \A q \in Queue : v \notin Members(freed[q])
  BY <1>6 DEF Loose
<1>10. QED  BY <1>3, <1>4, <1>7, <1>8, <1>9 DEF Loose, woken, freed

\* The status that goes with a queue.
StatusIn(q) ==
  IF q = Ready THEN "READY" ELSE IF q = Exited THEN "EXITED" ELSE "BLOCKED"

\* Pushing the loose task into a queue, with the status that goes with it and,
\* when it blocks, its in_queue set, places it.
LEMMA PushPlaces ==
  ASSUME NEW STATE st, NEW STATE qs, NEW STATE inq, NEW STATE v,
         NEW STATE q, NEW STATE inqv,
         Loose(st, qs, inq, v), q \in Queue,
         inqv \in Queue, q \notin {Ready, Exited} => inqv = q
  PROVE  /\ Placed([st EXCEPT ![v] = StatusIn(q)],
                   [qs EXCEPT ![q] = Append(@, v)],
                   [inq EXCEPT ![v] = inqv])
<1> DEFINE put == [qs EXCEPT ![q] = Append(@, v)]
           stv == [st EXCEPT ![v] = StatusIn(q)]
           inv == [inq EXCEPT ![v] = inqv]
<1> USE QueueNames
<1>1. qs[q] \in Seq(Task) /\ Distinct(qs[q]) /\ v \notin Members(qs[q]) /\ v \in Task
  BY DEF Loose, QueuesOK, Separate
<1>2. /\ Append(qs[q], v) \in Seq(Task)
      /\ Members(Append(qs[q], v)) = Members(qs[q]) \cup {v}
      /\ Distinct(Append(qs[q], v))
  BY <1>1, AppendFacts
<1>3. /\ QueuesOK(put)
      /\ put[q] = Append(qs[q], v)
      /\ \A r \in Queue \ {q} : put[r] = qs[r]
  BY <1>2 DEF Loose, QueuesOK
<1>4. /\ stv \in [Task -> Status] /\ stv[v] = StatusIn(q)
      /\ \A t \in Task \ {v} : stv[t] = st[t]
      /\ inv \in [Task -> Queue] /\ inv[v] = inqv
      /\ \A t \in Task \ {v} : inv[t] = inq[t]
  BY DEF Loose, Status, StatusIn
<1> HIDE DEF put, stv, inv
<1>5. \A r \in Queue :
        Members(put[r]) = Members(qs[r]) \cup (IF r = q THEN {v} ELSE {})
  BY <1>2, <1>3
<1>6. Separate(put)
  <2>1. \A r \in Queue : Distinct(put[r])
    BY <1>2, <1>3 DEF Loose, Separate
  <2>2. \A r, s \in Queue : r # s => Members(put[r]) \cap Members(put[s]) = {}
    BY <1>5 DEF Loose, Separate
  <2>3. QED  BY <2>1, <2>2 DEF Separate
<1>7. \A t \in Task \ {v} : LocatedAt(stv, put, inv, t)
  BY <1>4, <1>5 DEF Loose, LocatedAt
<1>8. LocatedAt(stv, put, inv, v)
  <2>1. \A r \in Queue : v \in Members(put[r]) <=> r = q
    BY <1>5 DEF Loose
  <2>2. QED  BY <1>4, <2>1 DEF LocatedAt, StatusIn
<1>9. QED  BY <1>1, <1>3, <1>4, <1>6, <1>7, <1>8 DEF Placed, Located, put, stv, inv

-----------------------------------------------------------------------------
(* The inductive invariant: types, places, what the release loop of exit    *)
(* and kill knows of the task that dies, who may be waited for, and where   *)
(* the idle task is.                                                        *)

PlacesOK ==
  /\ Placed(status, queue, inQueue)
  /\ OneRuns(status, current)

LoopOK ==
  /\ loop.kind = "exit" => current \in Task /\ loop.task = current
  /\ loop.kind = "kill" => current \in Task /\ status[loop.task] = "READY"

\* NobodyWaitsForTheDead and WaitersWaitForTaken of any statuses and queues.
WaitsOK(st, qs, locks) ==
  /\ \A t \in Task : qs[t] # <<>> => st[t] \in Live
  /\ \A l \in Lock \cup Sem : qs[l] # <<>> => locks[l] = "LOCKED"

\* While programs leave pid 0 alone, the idle task is ready or running.
IdleOK ==
  "idle" \in Discipline =>
    /\ status[Idle] \in {"READY", "RUNNING"}
    /\ current # NoTask
    /\ loop.kind # "none" => loop.task # Idle

Inv == /\ TypeOK
       /\ PlacesOK
       /\ LoopOK
       /\ WaitsOK(status, queue, lockStatus)
       /\ IdleOK

LEMMA InitInv == Init => Inv
<1> SUFFICES ASSUME Init PROVE Inv
  OBVIOUS
<1> USE QueueNames, TasksAssumption
<1>1. TypeOK
  <2>1. queue \in [Queue -> Seq(Task)]
    BY DEF Init
  <2>2. status \in [Task -> {"UNUSED", "READY", "BLOCKED", "RUNNING", "EXITED"}]
    BY DEF Init
  <2>3. inQueue \in [Task -> Queue] /\ left \in [Task -> Nat]
    BY DEF Init
  <2>4. QED  BY <2>1, <2>2, <2>3 DEF Init, TypeOK, NoLoop
<1>2. /\ queue \in [Queue -> Seq(Task)]
      /\ queue[Ready] = <<Shell>>
      /\ \A q \in Queue \ {Ready} : queue[q] = <<>>
  BY DEF Init
<1>3. /\ Members(<<Shell>>) = {Shell} /\ Distinct(<<Shell>>)
      /\ Members(<<>>) = {} /\ Distinct(<<>>)
  BY DEF Members, Distinct
<1>4. Separate(queue)
  BY <1>2, <1>3 DEF Separate
<1>5. \A t \in Task : status[t] = IF t = Idle THEN "RUNNING"
                               ELSE IF t = Shell THEN "READY" ELSE "UNUSED"
  BY DEF Init
<1>6. Located(status, queue, inQueue)
  BY <1>2, <1>3, <1>5 DEF Located, LocatedAt
<1>7. OneRuns(status, current)
  BY <1>5 DEF OneRuns, Init
<1>8. LoopOK /\ IdleOK
  BY <1>5 DEF LoopOK, IdleOK, Init, NoLoop
<1>9. WaitsOK(status, queue, lockStatus)
  BY <1>2 DEF WaitsOK
<1>10. PlacesOK
  BY <1>1, <1>4, <1>6, <1>7 DEF PlacesOK, Placed, QueuesOK, TypeOK, Status
<1>11. QED
  BY <1>1, <1>8, <1>9, <1>10 DEF Inv

-----------------------------------------------------------------------------
(* What is left to show for each kind of handler.  DeadStay is what         *)
(* DeadForever says of one step.                                            *)

DeadStay == \A t \in Task : status[t] = "EXITED" => status'[t] = "EXITED"

\* Nobody comes to life or dies in a step, but v; a wait queue keeps its tasks.
\* The proofs about mutexes need no more of a step that leaves mutexes alone.
LivesBut(v) == \A t \in Task : status'[t] \in Live <=> status[t] \in Live /\ t # v
LinesKept == \A l \in Lock : queue'[l] = queue[l]

LockTypeOK ==
  /\ lockStatus \in [Lock \cup Sem -> {"LOCKED", "UNLOCKED"}]
  /\ lockNum \in [Task -> Int]
  /\ slot \in [Task -> [0..(MaxLocks - 1) -> Lock \cup {NoLock}]]
  /\ holds \in [Lock -> SUBSET Task]

LEMMA InvFacts ==
  ASSUME Inv
  PROVE  /\ Placed(status, queue, inQueue)
         /\ status \in [Task -> Status]
         /\ queue \in [Queue -> Seq(Task)]
         /\ inQueue \in [Task -> Queue]
         /\ \A t \in Task : status[t] = "RUNNING" <=> t = current
         /\ WaitsOK(status, queue, lockStatus)
         /\ left \in [Task -> Nat]
         /\ LockTypeOK
BY DEF Inv, PlacesOK, OneRuns, TypeOK, LockTypeOK, Placed, QueuesOK

LEMMA LocksUnchanged == ASSUME Inv, UNCHANGED lockVars PROVE LockTypeOK'
BY DEF Inv, TypeOK, LockTypeOK, lockVars

\* A handler that ends in do_scheduler, called with st, qs, inq and lf.
LEMMA SwitchStep ==
  ASSUME NEW STATE st, NEW STATE qs, NEW STATE inq, NEW STATE lf,
         Inv,
         Placed(st, qs, inq),
         lf \in [Task -> Nat],
         current \in Task,
         \A t \in Task : st[t] = "RUNNING" => t = current,
         st[current] \in {"RUNNING", "BLOCKED", "EXITED"},
         current \in Members(qs[Sleeping]) => lf[current] # 0,
         WaitsOK(st, qs, lockStatus),
         "idle" \in Discipline => st[Idle] \in {"READY", "RUNNING"},
         \A t \in Task : status[t] = "EXITED" => st[t] = "EXITED",
         Schedule(st, qs, inq, lf),
         LockTypeOK', UNCHANGED lockStatus, loop' = NoLoop
  PROVE  /\ Inv' /\ DeadStay
         /\ \A t \in Task : status'[t] \in Live <=> st[t] \in Live
         /\ \A l \in Lock : queue'[l] = qs[l]
<1>1. /\ PlacesOK'
      /\ current' \in Task \cup {NoTask}
      /\ left' = lf
      /\ \A q \in Queue \ {Ready, Sleeping} : queue'[q] = qs[q]
      /\ \A t \in Task : \/ status'[t] = st[t]
                         \/ st[t] \in Live /\ status'[t] \in {"READY", "RUNNING"}
      /\ (\E t \in Task : st[t] \in {"READY", "RUNNING"}) => current' # NoTask
  BY ScheduleKeepsPlaces DEF PlacesOK
<1>2. TypeOK'
  BY <1>1, TasksAssumption
  DEF PlacesOK, Placed, QueuesOK, Status, LockTypeOK, TypeOK, NoLoop
<1>3. LoopOK'
  BY DEF LoopOK, NoLoop
<1>4. WaitsOK(status, queue, lockStatus)'
  <2>1. \A t \in Task : queue'[t] = qs[t]
    BY <1>1, QueueNames
  <2>2. \A l \in Lock \cup Sem : queue'[l] = qs[l]
    BY <1>1, QueueNames
  <2>3. QED  BY <1>1, <2>1, <2>2 DEF WaitsOK, Live
<1>5. IdleOK'
  BY <1>1, TasksAssumption DEF IdleOK, NoLoop
<1>6. DeadStay
  BY <1>1 DEF DeadStay, Live
<1>7. /\ \A t \in Task : status'[t] \in Live <=> st[t] \in Live
      /\ \A l \in Lock : queue'[l] = qs[l]
  BY <1>1, QueueNames DEF Live
<1>8. QED  BY <1>1, <1>2, <1>3, <1>4, <1>5, <1>6, <1>7 DEF Inv

\* A handler that blocks current in q.
LEMMA BlockStep ==
  ASSUME NEW STATE q, NEW STATE lf, Inv, InSyscall,
         q \in Queue \ {Ready, Exited}, lf \in [Task -> Nat],
         q = Sleeping => lf[current] # 0,
         q \in Task => Alive(q),
         q \in Lock \cup Sem => lockStatus[q] = "LOCKED",
         Block(q, lf),
         LockTypeOK', UNCHANGED <<lockStatus, loop>>
  PROVE  /\ Inv' /\ DeadStay
         /\ LivesBut(NoTask)
         /\ \A l \in Lock \ {q} : queue'[l] = queue[l]
         /\ q \in Lock => queue'[q] = Append(queue[q], current)
<1> DEFINE st == [status EXCEPT ![current] = "BLOCKED"]
           qs == [queue EXCEPT ![q] = Append(@, current)]
           inq == [inQueue EXCEPT ![current] = q]
<1>1. /\ current \in Task /\ current # Idle /\ loop' = NoLoop
      /\ status[current] = "RUNNING"
  BY InvFacts DEF InSyscall, Serving
<1>2. Loose(status, queue, inQueue, current)
  BY <1>1, InvFacts, RunningIsLoose
<1>3. Placed(st, qs, inq)
  <2>1. StatusIn(q) = "BLOCKED"
    BY DEF StatusIn
  <2>2. q \in Queue
    OBVIOUS
  <2>3. Placed([status EXCEPT ![current] = StatusIn(q)], qs, inq)
    BY <1>2, <2>2, PushPlaces
  <2>4. QED  BY <2>1, <2>3
<1>4. /\ st[current] = "BLOCKED"
      /\ \A t \in Task \ {current} : st[t] = status[t]
  BY <1>1, InvFacts
<1>5. \A r \in Queue \ {q} : qs[r] = queue[r]
  BY InvFacts
<1>6. current \in Members(qs[Sleeping]) => lf[current] # 0
  BY <1>2, <1>5, QueueNames DEF Loose
<1>7. WaitsOK(st, qs, lockStatus)
  <2>1. \A t \in Task : qs[t] # <<>> => queue[t] # <<>> \/ t = q
    BY <1>5, QueueNames
  <2>2. \A l \in Lock \cup Sem : qs[l] # <<>> => queue[l] # <<>> \/ l = q
    BY <1>5, QueueNames
  <2>3. \A t \in Task : status[t] \in Live => st[t] \in Live
    BY <1>4 DEF Live
  <2>4. QED  BY <2>1, <2>2, <2>3, InvFacts DEF WaitsOK, Alive, Live
<1>8. "idle" \in Discipline => st[Idle] \in {"READY", "RUNNING"}
  BY <1>1, <1>4, TasksAssumption DEF Inv, IdleOK
<1>9. Schedule(st, qs, inq, lf)
  BY DEF Block
<1>10. /\ \A t \in Task : st[t] = "RUNNING" => t = current
       /\ \A t \in Task : status[t] = "EXITED" => st[t] = "EXITED"
  BY <1>1, <1>4, InvFacts
<1>11. \A t \in Task : st[t] \in Live <=> status[t] \in Live
  BY <1>1, <1>4 DEF Live
<1>12. /\ \A l \in Lock \ {q} : qs[l] = queue[l]
       /\ qs[q] = Append(queue[q], current)
  BY <1>5, QueueNames, InvFacts
<1> HIDE DEF st, qs, inq
<1>13. /\ Inv' /\ DeadStay
       /\ \A t \in Task : status'[t] \in Live <=> st[t] \in Live
       /\ \A l \in Lock : queue'[l] = qs[l]
  BY <1>1, <1>3, <1>4, <1>6, <1>7, <1>8, <1>9, <1>10, SwitchStep
<1>14. QED  BY <1>11, <1>12, <1>13, TasksAssumption DEF LivesBut

\* A handler that only calls do_scheduler.
LEMMA YieldStep ==
  ASSUME NEW STATE lf, Inv, Serving, lf \in [Task -> Nat],
         Schedule(status, queue, inQueue, lf),
         UNCHANGED <<lockVars, loop>>
  PROVE  Inv' /\ DeadStay /\ LivesBut(NoTask) /\ LinesKept
<1>1. /\ current \in Task /\ loop' = NoLoop /\ LockTypeOK'
      /\ status[current] = "RUNNING" /\ UNCHANGED lockStatus
  BY InvFacts, LocksUnchanged DEF Serving, lockVars
<1>2. current \notin Members(queue[Sleeping])
  BY <1>1, InvFacts, RunningIsLoose, QueueNames DEF Loose
<1>3. "idle" \in Discipline => status[Idle] \in {"READY", "RUNNING"}
  BY DEF Inv, IdleOK
<1>4. \A t \in Task : status[t] = "RUNNING" => t = current
  BY InvFacts
<1>5. /\ Inv' /\ DeadStay
      /\ \A t \in Task : status'[t] \in Live <=> status[t] \in Live
      /\ \A l \in Lock : queue'[l] = queue[l]
  BY <1>1, <1>2, <1>3, <1>4, InvFacts, SwitchStep
<1>6. QED  BY <1>5, TasksAssumption DEF LivesBut, LinesKept

\* A handler that returns to the task that called it.
LEMMA StayStep ==
  ASSUME Inv, PlacesOK', LockTypeOK', UNCHANGED <<current, left>>,
         loop' \in [kind : {"none", "exit", "kill"}, task : Task, i : Nat],
         LoopOK',
         WaitsOK(status, queue, lockStatus)',
         status[Idle] \in {"READY", "RUNNING"} =>
           status'[Idle] \in {"READY", "RUNNING"},
         "idle" \in Discipline /\ loop'.kind # "none" => loop'.task # Idle
  PROVE  Inv'
<1>1. TypeOK'
  BY DEF Inv, PlacesOK, Placed, QueuesOK, Status, LockTypeOK, TypeOK
<1>2. IdleOK'
  BY DEF Inv, IdleOK
<1>3. QED  BY <1>1, <1>2 DEF Inv

LEMMA NoLoopOK ==
  ASSUME loop' = NoLoop
  PROVE  /\ loop' \in [kind : {"none", "exit", "kill"}, task : Task, i : Nat]
         /\ LoopOK' /\ loop'.kind = "none"
BY TasksAssumption DEF LoopOK, NoLoop

\* A handler that changes no status and no queue.
LEMMA PlacesUnchanged ==
  ASSUME Inv, UNCHANGED <<status, queue, inQueue, current>>
  PROVE  PlacesOK' /\ DeadStay
BY DEF Inv, PlacesOK, Placed, QueuesOK, Separate, Located, LocatedAt, OneRuns,
       DeadStay

-----------------------------------------------------------------------------
(* Every step keeps the invariant: timer, sleep, spawn, wait.               *)

LEMMA TimerStep ==
  ASSUME Inv, Timer PROVE Inv' /\ DeadStay /\ LivesBut(NoTask) /\ LinesKept
<1>1. Ticked(left) \in [Task -> Nat]
  BY InvFacts DEF Ticked
<1>2. QED  BY <1>1, YieldStep DEF Timer

LEMMA SleepStep ==
  ASSUME Inv, NEW n \in SleepTimes, Sleep(n)
  PROVE  Inv' /\ DeadStay /\ LivesBut(NoTask) /\ LinesKept
<1> DEFINE lf == [left EXCEPT ![current] = n]
<1>1. lf \in [Task -> Nat] /\ lf[current] # 0
  BY BoundsAssumption, InvFacts DEF Sleep, InSyscall, Serving
<1>2. /\ Block(Sleeping, lf) /\ InSyscall /\ UNCHANGED <<lockStatus, loop>>
      /\ LockTypeOK'
  BY LocksUnchanged DEF Sleep, lockVars
<1>3. /\ Sleeping \in Queue \ {Ready, Exited}
      /\ Sleeping \notin Task /\ Sleeping \notin Lock \cup Sem
  BY QueueNames, QueuesAssumption
<1> HIDE DEF lf
<1>4. /\ Inv' /\ DeadStay /\ LivesBut(NoTask)
      /\ \A l \in Lock \ {Sleeping} : queue'[l] = queue[l]
  BY <1>1, <1>2, <1>3, BlockStep
<1>5. QED  BY <1>3, <1>4 DEF LinesKept

LEMMA WaitPidStep ==
  ASSUME Inv, NEW t \in Task, WaitPid(t)
  PROVE  Inv' /\ DeadStay /\ LivesBut(NoTask) /\ LinesKept
<1>1. /\ Block(t, left) /\ InSyscall /\ Alive(t) /\ UNCHANGED <<lockStatus, loop>>
      /\ LockTypeOK'
  BY LocksUnchanged DEF WaitPid, lockVars
<1>2. t \in Queue \ {Ready, Exited} /\ t # Sleeping /\ t \notin Lock \cup Sem
  BY QueueNames, QueuesAssumption
<1>3. /\ Inv' /\ DeadStay /\ LivesBut(NoTask)
      /\ \A l \in Lock \ {t} : queue'[l] = queue[l]
  BY <1>1, <1>2, BlockStep, InvFacts
<1>4. QED  BY <1>2, <1>3 DEF LinesKept

LEMMA WaitNobodyStep ==
  ASSUME Inv, WaitNobody PROVE Inv' /\ DeadStay /\ LivesBut(NoTask) /\ LinesKept
BY YieldStep, InvFacts DEF WaitNobody, InSyscall

LEMMA SpawnStep == ASSUME Inv, NEW t \in Task, Spawn(t) PROVE Inv' /\ DeadStay
<1> USE QueueNames
<1>1. status[t] = "UNUSED" /\ t # Ready /\ t \in Queue /\ t # current
  BY InvFacts DEF Spawn
<1>2. queue[t] = <<>>
  BY <1>1, InvFacts DEF WaitsOK, Live
<1>3. Loose(status, queue, inQueue, t)
  BY <1>1, InvFacts, RunningIsLoose
<1>4. /\ status' = [status EXCEPT ![t] = StatusIn(Ready)]
      /\ queue' = [queue EXCEPT ![Ready] = Append(@, t)]
      /\ inQueue' = [inQueue EXCEPT ![t] = Ready]
  <2>1. queue' = [queue EXCEPT ![Ready] = Append(@, t), ![t] = <<>>]
    BY DEF Spawn
  <2>2. queue' = [queue EXCEPT ![Ready] = Append(@, t)]
    BY <1>1, <1>2, <2>1, InvFacts
  <2>3. QED  BY <2>2 DEF Spawn, StatusIn
<1>5. Placed(status', queue', inQueue')
  <2>1. Placed([status EXCEPT ![t] = StatusIn(Ready)],
               [queue EXCEPT ![Ready] = Append(@, t)],
               [inQueue EXCEPT ![t] = Ready])
    BY <1>3, PushPlaces
  <2>2. QED  BY <1>4, <2>1
<1>6. \A u \in Task : status'[u] = IF u = t THEN "READY" ELSE status[u]
  BY InvFacts DEF Spawn
<1>7. PlacesOK' /\ DeadStay
  BY <1>1, <1>5, <1>6, InvFacts DEF PlacesOK, OneRuns, Spawn, DeadStay
<1>8. WaitsOK(status, queue, lockStatus)'
  <2>1. \A q \in Queue \ {Ready} : queue'[q] = queue[q]
    BY <1>4, InvFacts
  <2>2. QED  BY <1>6, <2>1, InvFacts DEF WaitsOK, Live, Spawn
<1>9. LockTypeOK'
  BY InvFacts DEF LockTypeOK, Spawn
<1>10. /\ loop' = NoLoop /\ UNCHANGED <<current, left>>
       /\ status[Idle] \in {"READY", "RUNNING"} =>
            status'[Idle] \in {"READY", "RUNNING"}
  BY <1>6, TasksAssumption DEF Spawn, InSyscall, Serving
<1>11. QED  BY <1>7, <1>8, <1>9, <1>10, NoLoopOK, StayStep
-----------------------------------------------------------------------------
(* Mutexes and semaphores.                                                  *)

\* do_unblock_one: the head p of a wait queue moves to the ready queue.
LEMMA UnblockOneStep ==
  ASSUME NEW STATE q, Inv, q \in Lock \cup Sem, queue[q] # <<>>,
         status' = [status EXCEPT ![Head(queue[q])] = "READY"],
         queue' = [queue EXCEPT ![q] = Tail(@),
                                ![Ready] = Append(@, Head(queue[q]))],
         lockStatus' = [lockStatus EXCEPT ![q] = "LOCKED"],
         UNCHANGED <<inQueue, current>>
  PROVE  /\ PlacesOK' /\ DeadStay /\ WaitsOK(status, queue, lockStatus)'
         /\ Head(queue[q]) \in Members(queue[q]) \cap Task
         /\ Members(queue'[q]) \subseteq Members(queue[q])
         /\ \A r \in Queue \ {q, Ready} : queue'[r] = queue[r]
         /\ LivesBut(NoTask)
         /\ \A t \in Task : status'[t] = status[t] \/ status'[t] = "READY"
<1> DEFINE p == Head(queue[q])
           out == [queue EXCEPT ![q] = Tail(queue[q])]
<1> USE QueueNames
<1>1. /\ Placed(status, queue, inQueue) /\ q \in Queue \ {Ready, Exited}
      /\ queue[q] \in Seq(Task) /\ Distinct(queue[q])
      /\ queue \in [Queue -> Seq(Task)]
      /\ inQueue \in [Task -> Queue]
  BY InvFacts DEF Placed, Separate
<1>2. /\ p \in Members(queue[q]) /\ p \in Task
      /\ Tail(queue[q]) \in Seq(Task)
      /\ Members(Tail(queue[q])) = Members(queue[q]) \ {p}
      /\ Distinct(Tail(queue[q]))
  BY <1>1, TailFacts
<1>3. status[p] = "BLOCKED"
  BY <1>1, <1>2 DEF Placed, Located, LocatedAt
<1> HIDE DEF p
<1>4. Loose(status, out, inQueue, p)
  BY <1>1, <1>2, RemoveMakesLoose
<1>5. /\ status' = [status EXCEPT ![p] = StatusIn(Ready)]
      /\ queue' = [out EXCEPT ![Ready] = Append(@, p)]
      /\ inQueue' = [inQueue EXCEPT ![p] = inQueue[p]]
  BY <1>1, <1>2 DEF p, StatusIn
<1>6. inQueue[p] \in Queue
  BY <1>1, <1>2
<1> HIDE DEF out
<1>7. Placed(status', queue', inQueue')
  <2>1. Placed([status EXCEPT ![p] = StatusIn(Ready)],
               [out EXCEPT ![Ready] = Append(@, p)],
               [inQueue EXCEPT ![p] = inQueue[p]])
    BY <1>4, <1>6, PushPlaces
  <2>2. QED  BY <1>5, <2>1
<1>8. \A t \in Task : status'[t] = IF t = p THEN "READY" ELSE status[t]
  BY <1>5, InvFacts DEF StatusIn
<1>9. OneRuns(status', current') /\ DeadStay
  BY <1>3, <1>8, InvFacts DEF OneRuns, DeadStay
<1>10. WaitsOK(status, queue, lockStatus)'
  <2>1. \A r \in Queue \ {Ready, q} : queue'[r] = queue[r]
    BY <1>1 DEF p
  <2>2. /\ \A t \in Task : queue'[t] = queue[t]
        /\ \A l \in Lock \cup Sem : queue'[l] = queue[l] \/ l = q
    BY <2>1, QueuesAssumption
  <2>3. \A l \in Lock \cup Sem :
          lockStatus'[l] = IF l = q THEN "LOCKED" ELSE lockStatus[l]
    BY InvFacts DEF LockTypeOK
  <2>4. QED  BY <1>8, <2>2, <2>3, InvFacts DEF WaitsOK, Live
<1>11. LivesBut(NoTask)
  BY <1>3, <1>8, TasksAssumption DEF LivesBut, Live
<1>12. /\ Members(queue'[q]) \subseteq Members(queue[q])
       /\ \A r \in Queue \ {q, Ready} : queue'[r] = queue[r]
  BY <1>1, <1>2 DEF p
<1>13. QED  BY <1>2, <1>7, <1>8, <1>9, <1>10, <1>11, <1>12 DEF PlacesOK, p

LEMMA RecordedType ==
  ASSUME NEW STATE p, NEW STATE n, NEW l \in Lock,
         slot \in [Task -> [0..(MaxLocks - 1) -> Lock \cup {NoLock}]], p \in Task
  PROVE  Recorded(slot, p, n, l) \in [Task -> [0..(MaxLocks - 1) -> Lock \cup {NoLock}]]
<1>1. slot[p] \in [0..(MaxLocks - 1) -> Lock \cup {NoLock}]
  OBVIOUS
<1>2. [slot[p] EXCEPT ![n] = l] \in [0..(MaxLocks - 1) -> Lock \cup {NoLock}]
  BY <1>1
<1>3. QED  BY <1>2 DEF Recorded

LEMMA ReleaseStep ==
  ASSUME NEW STATE l, NEW STATE x, Inv, l \in Lock, x \in Task, current \in Task,
         Release(x, l), UNCHANGED <<inQueue, current>>
  PROVE  /\ PlacesOK' /\ DeadStay /\ WaitsOK(status, queue, lockStatus)'
         /\ LockTypeOK'
         /\ \A t \in Task : status'[t] = status[t] \/ status'[t] = "READY"
<1> USE DEF LockTypeOK
<1>1. CASE queue[l] # <<>> /\ HandOver(x, l)
  <2> DEFINE p == Head(queue[l])
  <2>1. /\ PlacesOK' /\ DeadStay /\ WaitsOK(status, queue, lockStatus)'
        /\ p \in Task
        /\ \A t \in Task : status'[t] = status[t] \/ status'[t] = "READY"
    BY <1>1, UnblockOneStep DEF HandOver
  <2> HIDE DEF p
  <2>2. slot' \in [Task -> [0..(MaxLocks - 1) -> Lock \cup {NoLock}]]
    BY <1>1, <2>1, InvFacts, RecordedType DEF HandOver, p
  <2>3. lockNum' \in [Task -> Int]
    <3>1. lockNum' = [lockNum EXCEPT ![p] = @ + 1, ![current] = @ - 1]
      BY <1>1 DEF HandOver, p
    <3>2. \A n \in Int : n + 1 \in Int /\ n - 1 \in Int
      OBVIOUS
    <3>3. [lockNum EXCEPT ![p] = @ + 1] \in [Task -> Int]
      BY <2>1, <3>2, InvFacts
    <3>4. QED  BY <3>1, <3>2, <3>3, InvFacts
  <2>4. lockStatus' \in [Lock \cup Sem -> {"LOCKED", "UNLOCKED"}]
    BY <1>1, InvFacts DEF HandOver
  <2>5. holds' \in [Lock -> SUBSET Task]
    BY <1>1, <2>1, InvFacts DEF HandOver, p
  <2>6. QED  BY <2>1, <2>2, <2>3, <2>4, <2>5
<1>2. CASE queue[l] = <<>> /\ SetFree(x, l)
  <2>1. PlacesOK' /\ DeadStay
    BY <1>2, PlacesUnchanged DEF SetFree
  <2>2. WaitsOK(status, queue, lockStatus)'
    BY <1>2, InvFacts DEF SetFree, WaitsOK
  <2>3. LockTypeOK'
    BY <1>2, InvFacts DEF SetFree
  <2>4. QED  BY <1>2, <2>1, <2>2, <2>3 DEF SetFree
<1>3. QED  BY <1>1, <1>2 DEF Release

LEMMA MutexAcquireStep ==
  ASSUME Inv, NEW l \in Lock, MutexAcquire(l) PROVE Inv' /\ DeadStay
<1>1. CASE AcquireFree(l)
  <2>1. PlacesOK' /\ DeadStay
    BY <1>1, PlacesUnchanged DEF AcquireFree, schedVars
  <2>2. current \in Task
    BY DEF MutexAcquire, InSyscall, Serving
  <2>3. LockTypeOK'
    <3>1. slot' \in [Task -> [0..(MaxLocks - 1) -> Lock \cup {NoLock}]]
      BY <1>1, <2>2, InvFacts, RecordedType DEF AcquireFree, LockTypeOK
    <3>2. QED  BY <1>1, <2>2, <3>1, InvFacts DEF AcquireFree, LockTypeOK
  <2>4. WaitsOK(status, queue, lockStatus)'
    BY <1>1, InvFacts DEF AcquireFree, schedVars, WaitsOK, LockTypeOK
  <2>5. /\ loop' = NoLoop /\ UNCHANGED <<current, left, status>>
    BY <1>1 DEF MutexAcquire, InSyscall, Serving, AcquireFree, schedVars
  <2>6. QED  BY <2>1, <2>3, <2>4, <2>5, NoLoopOK, StayStep
<1>2. CASE AcquireTaken(l)
  <2>1. /\ Block(l, left) /\ lockStatus[l] = "LOCKED" /\ InSyscall
        /\ UNCHANGED <<lockStatus, loop>> /\ LockTypeOK'
    BY <1>2, LocksUnchanged DEF AcquireTaken, MutexAcquire, lockVars
  <2>2. l \in Queue \ {Ready, Exited} /\ l # Sleeping /\ l \notin Task
    BY QueueNames, QueuesAssumption
  <2>3. QED  BY <2>1, <2>2, BlockStep, InvFacts
<1>3. QED  BY <1>1, <1>2 DEF MutexAcquire

LEMMA MutexReleaseStep ==
  ASSUME Inv, NEW l \in Lock, MutexRelease(l) PROVE Inv' /\ DeadStay
<1>1. /\ current \in Task /\ Release(current, l)
      /\ UNCHANGED <<current, inQueue, left>> /\ loop' = NoLoop
  BY DEF MutexRelease, InSyscall, Serving
<1>2. /\ PlacesOK' /\ DeadStay /\ WaitsOK(status, queue, lockStatus)'
      /\ LockTypeOK'
      /\ \A t \in Task : status'[t] = status[t] \/ status'[t] = "READY"
  BY <1>1, ReleaseStep
<1>3. QED  BY <1>1, <1>2, NoLoopOK, StayStep, TasksAssumption

LEMMA SemLockStep ==
  ASSUME Inv, NEW s \in Sem, SemLock(s)
  PROVE  Inv' /\ DeadStay /\ LivesBut(NoTask) /\ LinesKept
<1>1. CASE lockStatus[s] = "UNLOCKED"
  <2>1. /\ lockStatus' = [lockStatus EXCEPT ![s] = "LOCKED"] /\ UNCHANGED schedVars
        /\ loop' = NoLoop /\ UNCHANGED <<lockNum, slot, holds>>
    BY <1>1 DEF SemLock, InSyscall, Serving
  <2>2. PlacesOK' /\ DeadStay
    BY <2>1, PlacesUnchanged DEF schedVars
  <2>3. LockTypeOK'
    BY <2>1, InvFacts DEF LockTypeOK
  <2>4. WaitsOK(status, queue, lockStatus)'
    BY <2>1, InvFacts DEF schedVars, WaitsOK, LockTypeOK
  <2>5. UNCHANGED <<current, left, status>>
    BY <2>1 DEF schedVars
  <2>6. LivesBut(NoTask) /\ LinesKept
    BY <2>1, TasksAssumption DEF LivesBut, LinesKept, schedVars
  <2>7. QED  BY <2>1, <2>2, <2>3, <2>4, <2>5, <2>6, NoLoopOK, StayStep
<1>2. CASE lockStatus[s] # "UNLOCKED"
  <2>1. /\ Block(s, left) /\ lockStatus[s] = "LOCKED" /\ InSyscall
        /\ UNCHANGED <<lockStatus, lockNum, slot, holds, loop>>
    BY <1>2 DEF SemLock
  <2>2. LockTypeOK'
    BY <2>1, LocksUnchanged DEF lockVars
  <2>3. s \in Queue \ {Ready, Exited} /\ s # Sleeping /\ s \notin Task \cup Lock
    BY QueueNames, QueuesAssumption
  <2>4. /\ Inv' /\ DeadStay /\ LivesBut(NoTask)
        /\ \A l \in Lock \ {s} : queue'[l] = queue[l]
    BY <2>1, <2>2, <2>3, BlockStep, InvFacts
  <2>5. QED  BY <2>3, <2>4 DEF LinesKept
<1>3. QED  BY <1>1, <1>2

LEMMA SemUnlockStep ==
  ASSUME Inv, NEW s \in Sem, SemUnlock(s)
  PROVE  Inv' /\ DeadStay /\ LivesBut(NoTask) /\ LinesKept
<1>1. /\ UNCHANGED <<current, inQueue, left, lockNum, slot, holds>>
      /\ loop' = NoLoop
  BY DEF SemUnlock, InSyscall, Serving
<1>2. LockTypeOK'
  BY <1>1, InvFacts DEF SemUnlock, LockTypeOK
<1>3. CASE queue[s] # <<>>
  <2>1. /\ PlacesOK' /\ DeadStay /\ WaitsOK(status, queue, lockStatus)'
        /\ LivesBut(NoTask)
        /\ \A t \in Task : status'[t] = status[t] \/ status'[t] = "READY"
    BY <1>1, <1>3, UnblockOneStep DEF SemUnlock
  <2>2. LinesKept
    BY <1>3, InvFacts, QueueNames, QueuesAssumption DEF SemUnlock, LinesKept
  <2>3. QED  BY <1>1, <1>2, <2>1, <2>2, NoLoopOK, StayStep, TasksAssumption
<1>4. CASE queue[s] = <<>>
  <2>1. /\ lockStatus' = [lockStatus EXCEPT ![s] = "UNLOCKED"]
        /\ UNCHANGED <<queue, status>>
    BY <1>4 DEF SemUnlock
  <2>2. PlacesOK' /\ DeadStay
    BY <1>1, <2>1, PlacesUnchanged
  <2>3. WaitsOK(status, queue, lockStatus)'
    BY <1>4, <2>1, InvFacts DEF WaitsOK, LockTypeOK
  <2>4. LivesBut(NoTask) /\ LinesKept
    BY <2>1, TasksAssumption DEF LivesBut, LinesKept
  <2>5. QED  BY <1>1, <1>2, <2>1, <2>2, <2>3, <2>4, NoLoopOK, StayStep
<1>5. QED  BY <1>3, <1>4
-----------------------------------------------------------------------------
(* Exit and kill.                                                           *)

LEMMA ExitStep == ASSUME Inv, Exit PROVE Inv' /\ DeadStay
<1>1. UNCHANGED <<schedVars, lockVars>> /\ current \in Task /\ current # Idle
  BY DEF Exit, InSyscall, Serving
<1>2. PlacesOK' /\ DeadStay /\ UNCHANGED <<current, left, status>>
  BY <1>1, PlacesUnchanged DEF schedVars
<1>3. WaitsOK(status, queue, lockStatus)'
  BY <1>1, InvFacts DEF WaitsOK, schedVars, lockVars
<1>4. LoopOK' /\ loop'.task # Idle
      /\ loop' \in [kind : {"none", "exit", "kill"}, task : Task, i : Nat]
  BY <1>1, <1>2 DEF LoopOK, Exit
<1>5. QED  BY <1>1, <1>2, <1>3, <1>4, LocksUnchanged, StayStep

LEMMA KillReadyStep ==
  ASSUME Inv, NEW v \in Task, KillReady(v) PROVE Inv' /\ DeadStay
<1>1. /\ UNCHANGED <<schedVars, lockVars>> /\ current \in Task
      /\ status[v] = "READY" /\ ("idle" \in Discipline => v # Idle)
      /\ loop' = [kind |-> "kill", task |-> v, i |-> 0]
  BY DEF KillReady, Killable, InSyscall, Serving
<1>2. PlacesOK' /\ DeadStay /\ UNCHANGED <<current, left, status>>
  BY <1>1, PlacesUnchanged DEF schedVars
<1>3. WaitsOK(status, queue, lockStatus)'
  BY <1>1, InvFacts DEF WaitsOK, schedVars, lockVars
<1>4. LoopOK' /\ ("idle" \in Discipline => loop'.task # Idle)
      /\ loop' \in [kind : {"none", "exit", "kill"}, task : Task, i : Nat]
  BY <1>1, <1>2 DEF LoopOK
<1>5. QED  BY <1>1, <1>2, <1>3, <1>4, LocksUnchanged, StayStep

LEMMA ReleaseNextStep == ASSUME Inv, ReleaseNext PROVE Inv' /\ DeadStay
<1>1. /\ current \in Task /\ loop.kind # "none"
      /\ loop' = [loop EXCEPT !.i = @ + 1]
      /\ UNCHANGED <<current, inQueue, left>>
      /\ loop \in [kind : {"none", "exit", "kill"}, task : Task, i : Nat]
  BY DEF ReleaseNext, LoopReleases, Inv, TypeOK
<1>2. PICK l \in Lock : Release(loop.task, l)
  BY DEF ReleaseNext
<1>3. /\ PlacesOK' /\ DeadStay /\ WaitsOK(status, queue, lockStatus)'
      /\ LockTypeOK'
      /\ \A t \in Task : status'[t] = status[t] \/ status'[t] = "READY"
  BY <1>1, <1>2, ReleaseStep
<1>4. /\ loop' \in [kind : {"none", "exit", "kill"}, task : Task, i : Nat]
      /\ loop'.kind = loop.kind /\ loop'.task = loop.task
  BY <1>1
<1>5. LoopOK'
  BY <1>1, <1>3, <1>4 DEF Inv, LoopOK
<1>6. "idle" \in Discipline => loop'.task # Idle
  BY <1>1, <1>4 DEF Inv, IdleOK
<1>7. QED  BY <1>1, <1>3, <1>4, <1>5, <1>6, StayStep, TasksAssumption

LEMMA FinishExitStep ==
  ASSUME Inv, FinishExit PROVE Inv' /\ DeadStay /\ LivesBut(current) /\ LinesKept
<1> DEFINE woken == Woken(status, Members(queue[current]))
           freed == Released(queue, current)
           st == [woken EXCEPT ![current] = "EXITED"]
           qs == [freed EXCEPT ![Exited] = Append(@, current)]
<1> USE QueueNames
<1>1. /\ current \in Task /\ loop' = NoLoop /\ UNCHANGED lockVars
      /\ status[current] = "RUNNING" /\ loop.kind = "exit"
      /\ ("idle" \in Discipline => current # Idle)
  BY InvFacts DEF FinishExit, Inv, LoopOK, IdleOK
<1>2. Schedule(st, qs, inQueue, left)
  BY DEF FinishExit
<1>3. Loose(woken, freed, inQueue, current)
  BY <1>1, InvFacts, RunningIsLoose, ReleaseKeepsLoose
<1>4. Placed(st, qs, inQueue)
  <2>1. inQueue[current] \in Queue /\ inQueue = [inQueue EXCEPT ![current] = inQueue[current]]
    BY <1>1, InvFacts
  <2>2. Placed([woken EXCEPT ![current] = StatusIn(Exited)], qs,
               [inQueue EXCEPT ![current] = inQueue[current]])
    BY <1>3, <2>1, PushPlaces
  <2>3. StatusIn(Exited) = "EXITED"
    BY DEF StatusIn
  <2>4. QED  BY <2>1, <2>2, <2>3
<1>5. /\ st[current] = "EXITED"
      /\ \A t \in Task \ {current} : st[t] = status[t] \/ st[t] = "READY"
      /\ \A t \in Task \ {current} : status[t] = "EXITED" => st[t] = "EXITED"
  <2>1. \A t \in Members(queue[current]) : t \in Task => status[t] = "BLOCKED"
    BY <1>1, InvFacts DEF Placed, Separate, Located, LocatedAt
  <2>2. \A t \in Task : woken[t] = IF t \in Members(queue[current])
                                  THEN "READY" ELSE status[t]
    BY DEF Woken
  <2>3. \A t \in Task : st[t] = IF t = current THEN "EXITED" ELSE woken[t]
    BY <1>1 DEF Woken
  <2> HIDE DEF st, woken
  <2>4. QED  BY <1>1, <2>1, <2>2, <2>3
<1>6. \A t \in Task \ {current} : st[t] \in Live <=> status[t] \in Live
  <2>1. \A t \in Members(queue[current]) : t \in Task => status[t] = "BLOCKED"
    BY <1>1, InvFacts DEF Placed, Separate, Located, LocatedAt
  <2>2. \A t \in Task : st[t] = IF t = current THEN "EXITED"
                              ELSE IF t \in Members(queue[current])
                              THEN "READY" ELSE status[t]
    BY <1>1 DEF Woken
  <2> HIDE DEF st, woken
  <2>3. QED  BY <2>1, <2>2 DEF Live
<1>7. /\ qs[current] = <<>>
      /\ \A t \in Task \ {current} : qs[t] = queue[t]
      /\ \A l \in Lock \cup Sem : qs[l] = queue[l]
      /\ qs[Sleeping] = queue[Sleeping]
  <2>1. \A q \in Queue \ {Ready, Exited, current} : qs[q] = queue[q]
    BY <1>1, InvFacts DEF Released
  <2>2. qs[current] = <<>>
    BY <1>1, InvFacts DEF Released
  <2> HIDE DEF qs
  <2>3. QED  BY <1>1, <2>1, <2>2, QueuesAssumption
<1>8. current \notin Members(qs[Sleeping])
  BY <1>1, <1>7, InvFacts, RunningIsLoose DEF Loose
<1> HIDE DEF st, qs, woken, freed
<1>9. WaitsOK(st, qs, lockStatus)
  BY <1>5, <1>7, InvFacts DEF WaitsOK, Live
<1>10. "idle" \in Discipline => st[Idle] \in {"READY", "RUNNING"}
  BY <1>1, <1>5, TasksAssumption DEF Inv, IdleOK
<1>11. /\ \A t \in Task : st[t] = "RUNNING" => t = current
       /\ \A t \in Task : status[t] = "EXITED" => st[t] = "EXITED"
  BY <1>1, <1>5, InvFacts
<1>12. LockTypeOK' /\ UNCHANGED lockStatus
  BY <1>1, LocksUnchanged DEF lockVars
<1>13. /\ Inv' /\ DeadStay
       /\ \A t \in Task : status'[t] \in Live <=> st[t] \in Live
       /\ \A l \in Lock : queue'[l] = qs[l]
  <2>1. /\ left \in [Task -> Nat] /\ current \in Task /\ loop' = NoLoop
        /\ st[current] \in {"RUNNING", "BLOCKED", "EXITED"}
        /\ current \in Members(qs[Sleeping]) => left[current] # 0
    BY <1>1, <1>5, <1>8, InvFacts
  <2>2. QED  BY <1>2, <1>4, <1>9, <1>10, <1>11, <1>12, <2>1, SwitchStep
<1>14. LivesBut(current)
  <2> SUFFICES ASSUME NEW t \in Task
               PROVE  status'[t] \in Live <=> status[t] \in Live /\ t # current
    BY DEF LivesBut
  <2>1. CASE t = current
    BY <1>5, <1>13, <2>1 DEF Live
  <2>2. CASE t # current
    BY <1>6, <1>13, <2>2
  <2>3. QED  BY <2>1, <2>2
<1>15. LinesKept
  BY <1>7, <1>13 DEF LinesKept
<1>16. QED  BY <1>13, <1>14, <1>15

\* The end of do_kill, once the victim v is out of its queue.
LEMMA BuryStep ==
  ASSUME NEW STATE v, NEW STATE qs, Inv, current \in Task, v # current,
         Loose(status, qs, inQueue, v),
         "idle" \in Discipline => v # Idle,
         \A q \in Queue \ {Ready, Exited} : qs[q] # <<>> => queue[q] # <<>>,
         Bury(v, qs)
  PROVE  /\ Inv' /\ DeadStay
         /\ LivesBut(v)
         /\ \A l \in Lock : queue'[l] = qs[l]
<1> DEFINE woken == Woken(status, Members(qs[v]))
           freed == Released(qs, v)
<1> USE QueueNames
<1>1. /\ v \in Task /\ v \in Queue /\ loop' = NoLoop
      /\ UNCHANGED <<current, inQueue, left, lockVars>>
      /\ queue' = [freed EXCEPT ![Exited] = Append(@, v)]
      /\ status' = [woken EXCEPT ![v] = "EXITED"]
  BY DEF Bury, Loose
<1>2. Loose(woken, freed, inQueue, v)
  BY <1>1, ReleaseKeepsLoose
<1>3. Placed(status', queue', inQueue')
  <2>1. /\ inQueue[v] \in Queue
        /\ inQueue = [inQueue EXCEPT ![v] = inQueue[v]]
    BY <1>1, InvFacts
  <2>2. Placed([woken EXCEPT ![v] = StatusIn(Exited)],
               [freed EXCEPT ![Exited] = Append(@, v)],
               [inQueue EXCEPT ![v] = inQueue[v]])
    BY <1>2, <2>1, PushPlaces
  <2>3. StatusIn(Exited) = "EXITED"
    BY DEF StatusIn
  <2>4. QED  BY <1>1, <2>1, <2>2, <2>3
<1>4. \A t \in Members(qs[v]) \cap Task : status[t] = "BLOCKED"
  <2> SUFFICES ASSUME NEW t \in Task, t \in Members(qs[v])
               PROVE  status[t] = "BLOCKED"
    OBVIOUS
  <2>1. t # v
    BY <1>1 DEF Loose
  <2>2. QED  BY <1>1, <2>1 DEF Loose, LocatedAt
<1>5. \A t \in Task :
        status'[t] = IF t = v THEN "EXITED"
                     ELSE IF t \in Members(qs[v]) THEN "READY" ELSE status[t]
  BY <1>1 DEF Woken
<1>6. PlacesOK' /\ DeadStay
  BY <1>1, <1>3, <1>4, <1>5, InvFacts DEF PlacesOK, OneRuns, DeadStay
<1>7. WaitsOK(status, queue, lockStatus)'
  <2>1. qs \in [Queue -> Seq(Task)]
    BY DEF Loose, QueuesOK
  <2>2. \A q \in Queue \ {Ready, Exited, v} : queue'[q] = qs[q]
    BY <1>1, <2>1 DEF Released
  <2>3. queue'[v] = <<>>
    BY <1>1, <2>1 DEF Released
  <2>4. /\ \A t \in Task : queue'[t] # <<>> => queue[t] # <<>> /\ t # v
        /\ \A l \in Lock \cup Sem : queue'[l] # <<>> => queue[l] # <<>>
    BY <1>1, <2>2, <2>3, QueuesAssumption
  <2>5. QED  BY <1>1, <1>5, <2>4, InvFacts DEF WaitsOK, Live, lockVars
<1>8. \/ "idle" \notin Discipline
      \/ status[Idle] \in {"READY", "RUNNING"} =>
           status'[Idle] \in {"READY", "RUNNING"}
  BY <1>5, TasksAssumption
<1>9. TypeOK' /\ LoopOK' /\ IdleOK'
  <2>1. LoopOK' /\ IdleOK'
    BY <1>1, <1>8, NoLoopOK DEF Inv, IdleOK
  <2>2. TypeOK'
    BY <1>1, <1>6, LocksUnchanged, InvFacts, NoLoopOK
    DEF PlacesOK, Placed, QueuesOK, Status, LockTypeOK, TypeOK
  <2>3. QED  BY <2>1, <2>2
<1>10. LivesBut(v)
  BY <1>4, <1>5 DEF LivesBut, Live
<1>11. \A l \in Lock : queue'[l] = qs[l]
  BY <1>1, QueuesAssumption DEF Loose, QueuesOK, Released
<1>12. QED  BY <1>6, <1>7, <1>9, <1>10, <1>11 DEF Inv

\* queue_remove of the victim v from place k of queue q.
LEMMA UnlinkStep ==
  ASSUME NEW STATE v, NEW STATE q, NEW STATE k, Inv, current \in Task,
         q \in Queue, k \in DOMAIN queue[q], queue[q][k] = v,
         status[v] \in {"READY", "BLOCKED"},
         "idle" \in Discipline => v # Idle,
         Bury(v, [queue EXCEPT ![q] = Without(@, k)])
  PROVE  /\ Inv' /\ DeadStay
         /\ LivesBut(v)
         /\ \A l \in Lock : Members(queue'[l]) \subseteq Members(queue[l])
<1> DEFINE s == Without(queue[q], k)
           qs == [queue EXCEPT ![q] = s]
<1>1. /\ queue[q] \in Seq(Task) /\ Distinct(queue[q])
      /\ v \in Members(queue[q]) /\ v \in Task
  BY InvFacts DEF Placed, Separate, Members
<1>2. s \in Seq(Task) /\ Members(s) = Members(queue[q]) \ {v} /\ Distinct(s)
  BY <1>1, WithoutFacts
<1> HIDE DEF s
<1>3. Loose(status, qs, inQueue, v)
  BY <1>1, <1>2, InvFacts, RemoveMakesLoose
<1>4. \A r \in Queue : qs[r] # <<>> => queue[r] # <<>>
  <2>1. queue[q] # <<>>
    BY <1>1 DEF Members
  <2>2. QED  BY <2>1, InvFacts
<1>5. v # current
  BY <1>1, InvFacts
<1>6. Bury(v, qs)
  BY DEF s
<1>7. \A l \in Lock : Members(qs[l]) \subseteq Members(queue[l])
  <2>1. qs[q] = s /\ \A r \in Queue \ {q} : qs[r] = queue[r]
    BY InvFacts
  <2> HIDE DEF qs
  <2>2. QED  BY <1>2, <2>1, QueueNames
<1> HIDE DEF qs
<1>8. /\ Inv' /\ DeadStay /\ LivesBut(v)
      /\ \A l \in Lock : queue'[l] = qs[l]
  BY <1>3, <1>4, <1>5, <1>6, BuryStep
<1>9. QED  BY <1>7, <1>8

LEMMA FinishKillReadyStep ==
  ASSUME Inv, FinishKillReady
  PROVE  /\ Inv' /\ DeadStay
         /\ LivesBut(loop.task)
         /\ \A l \in Lock : Members(queue'[l]) \subseteq Members(queue[l])
<1>1. /\ current \in Task /\ status[loop.task] = "READY"
      /\ ("idle" \in Discipline => loop.task # Idle)
  BY DEF FinishKillReady, Inv, LoopOK, IdleOK
<1>2. PICK k \in DOMAIN queue[Ready] :
        /\ queue[Ready][k] = loop.task
        /\ Bury(loop.task, [queue EXCEPT ![Ready] = Without(@, k)])
  BY DEF FinishKillReady
<1>3. QED  BY <1>1, <1>2, QueueNames, UnlinkStep

LEMMA KillBlockedStep ==
  ASSUME Inv, NEW v \in Task, KillBlocked(v)
  PROVE  /\ Inv' /\ DeadStay
         /\ LivesBut(v)
         /\ \A l \in Lock : Members(queue'[l]) \subseteq Members(queue[l])
<1>1. /\ current \in Task /\ status[v] = "BLOCKED" /\ inQueue[v] \in Queue
      /\ ("idle" \in Discipline => v # Idle)
  BY InvFacts DEF KillBlocked, Killable, InSyscall, Serving
<1>2. PICK k \in DOMAIN queue[inQueue[v]] :
        /\ queue[inQueue[v]][k] = v
        /\ Bury(v, [queue EXCEPT ![inQueue[v]] = Without(@, k)])
  BY DEF KillBlocked
<1>3. QED  BY <1>1, <1>2, UnlinkStep

-----------------------------------------------------------------------------
(* The theorems.                                                            *)

LEMMA NextInv == ASSUME Inv, [Next]_vars PROVE Inv' /\ DeadStay
<1>1. ASSUME NEW n \in SleepTimes, Sleep(n) PROVE Inv' /\ DeadStay
  BY <1>1, SleepStep
<1>2. ASSUME NEW t \in Task,
             Spawn(t) \/ WaitPid(t) \/ KillReady(t) \/ KillBlocked(t)
      PROVE  Inv' /\ DeadStay
  BY <1>2, SpawnStep, WaitPidStep, KillReadyStep, KillBlockedStep
<1>3. ASSUME NEW l \in Lock, MutexAcquire(l) \/ MutexRelease(l)
      PROVE  Inv' /\ DeadStay
  BY <1>3, MutexAcquireStep, MutexReleaseStep
<1>4. ASSUME NEW s \in Sem, SemLock(s) \/ SemUnlock(s)
      PROVE  Inv' /\ DeadStay
  BY <1>4, SemLockStep, SemUnlockStep
<1>5. CASE UNCHANGED vars
  <2>1. PlacesOK' /\ DeadStay
    BY <1>5, PlacesUnchanged DEF vars
  <2>2. TypeOK' /\ LoopOK' /\ IdleOK' /\ WaitsOK(status, queue, lockStatus)'
    BY <1>5 DEF Inv, vars, TypeOK, LoopOK, IdleOK, WaitsOK
  <2>3. QED  BY <2>1, <2>2 DEF Inv
<1>6. QED
  BY <1>1, <1>2, <1>3, <1>4, <1>5, TimerStep, WaitNobodyStep, ExitStep,
     ReleaseNextStep, FinishExitStep, FinishKillReadyStep DEF Next

LEMMA SpecInv == Spec => []Inv
<1>1. Inv /\ [Next]_vars => Inv'
  BY NextInv
<1>2. QED  BY InitInv, <1>1, PTL DEF Spec

\* Every field keeps its type.
THEOREM TypeCorrect == Spec => []TypeOK
BY SpecInv, PTL DEF Inv

\* No list of the kernel ever links a PCB that another place of a list links.
THEOREM OnePlaceAlways == Spec => []OnePlace
<1>1. Inv => OnePlace
  BY OnePlaceIsSeparate DEF Inv, PlacesOK, Placed
<1>2. QED  BY SpecInv, <1>1, PTL

\* The status of a task always says in which queue it is, and in_queue where
\* do_kill has to look for a blocked one.
THEOREM StatusTellsPlaceAlways == Spec => []StatusTellsPlace
<1>1. Inv => StatusTellsPlace
  BY InvFacts DEF StatusTellsPlace, Placed, Located, LocatedAt
<1>2. QED  BY SpecInv, <1>1, PTL

\* If programs leave pid 0 alone the scheduler always finds a task to run.
THEOREM NeverFaultsAlways == "idle" \in Discipline => (Spec => []NeverFaults)
<1>1. ASSUME "idle" \in Discipline PROVE Inv => NeverFaults
  BY <1>1 DEF Inv, IdleOK, NeverFaults
<1>2. ASSUME "idle" \in Discipline PROVE Spec => []NeverFaults
  BY <1>1, <1>2, SpecInv, PTL
<1>3. QED  BY <1>2

\* Whoever waits for a task to end is released when it exits or is killed.
THEOREM NobodyWaitsForTheDeadAlways == Spec => []NobodyWaitsForTheDead
<1>1. Inv => NobodyWaitsForTheDead
  BY DEF Inv, WaitsOK, Live, NobodyWaitsForTheDead, Alive
<1>2. QED  BY SpecInv, <1>1, PTL

\* No mutex or semaphore is free while a task waits for it.
THEOREM WaitersWaitForTakenAlways == Spec => []WaitersWaitForTaken
<1>1. Inv => WaitersWaitForTaken
  BY DEF Inv, WaitsOK, WaitersWaitForTaken
<1>2. QED  BY SpecInv, <1>1, PTL

\* Every task is where its status says, and one of them runs, if programs
\* leave pid 0 alone.
THEOREM EverybodyPlacedAlways == "idle" \in Discipline => (Spec => []EverybodyPlaced)
<1>1. ASSUME "idle" \in Discipline PROVE Spec => []EverybodyPlaced
  <2>1. Spec => []NeverFaults
    BY <1>1, NeverFaultsAlways
  <2>2. QED
    BY <2>1, TypeCorrect, OnePlaceAlways, StatusTellsPlaceAlways, PTL DEF EverybodyPlaced
<1>2. QED  BY <1>1

\* Nobody waits for a dead task or a free mutex.
THEOREM NobodyWaitsInVainAlways == Spec => []NobodyWaitsInVain
BY NobodyWaitsForTheDeadAlways, WaitersWaitForTakenAlways, PTL DEF NobodyWaitsInVain

\* A task that exited or was killed never becomes ready or runs again.
THEOREM DeadForeverAlways == Spec => DeadForever
<1>1. Inv /\ [Next]_vars =>
        [\A t \in Task : status[t] = "EXITED" => status'[t] = "EXITED"]_vars
  BY NextInv DEF DeadStay
<1>2. QED  BY SpecInv, <1>1, PTL DEF Spec, DeadForever

-----------------------------------------------------------------------------
(* The mutexes: who holds one, what pcb.lock[] and lock_num say of it, and *)
(* to whom it is handed over, also while the release loops of do_exit and  *)
(* do_kill run.  This rests on the promises "lifo", "exit" and "kill" of   *)
(* the programs, without which the runs any_order and exit_two show the    *)
(* faults; see README 2.1.                                                 *)

Promised == {"lifo", "exit", "kill"} \subseteq Discipline

\* A mutex is taken by nobody or by one live task.
HoldersOK ==
  \A l \in Lock :
    /\ lockStatus[l] = "LOCKED" <=> holds[l] # {}
    /\ \A t \in holds[l] : Alive(t)
    /\ \A t, u \in holds[l] : t = u

\* A live task has recorded what it holds, each mutex once.
SlotsOK ==
  \A t \in Task :
    /\ lockNum[t] \in 0..MaxLocks
    /\ Alive(t) => /\ \A l \in Lock : t \in holds[l] <=>
                        \E i \in 0..(lockNum[t] - 1) : slot[t][i] = l
                   /\ \A i \in 0..(lockNum[t] - 1) : slot[t][i] \in Lock
                   /\ \A i, j \in 0..(lockNum[t] - 1) : slot[t][i] = slot[t][j] => i = j

\* Who waits for a mutex does not hold it, and has room to record it.
WaitersOK ==
  \A l \in Lock : \A t \in Members(queue[l]) :
    t \notin holds[l] /\ lockNum[t] < MaxLocks

\* A task that exits has one mutex to release at most, one that is killed none.
DyingOK ==
  /\ loop.kind = "exit" =>
       lockNum[loop.task] <= 1 /\ (loop.i # 0 => lockNum[loop.task] = 0)
  /\ loop.kind = "kill" => lockNum[loop.task] = 0

\* What is left of the invariant when no release loop is looked at.
RecordsOK == HoldersOK /\ SlotsOK /\ WaitersOK
LockInv == RecordsOK /\ DyingOK

LEMMA InitLockInv == Init => LockInv
<1> SUFFICES ASSUME Init PROVE LockInv
  OBVIOUS
<1>1. /\ \A l \in Lock : holds[l] = {} /\ lockStatus[l] = "UNLOCKED" /\ queue[l] = <<>>
      /\ \A t \in Task : lockNum[t] = 0
      /\ loop.kind = "none"
  BY QueueNames DEF Init, NoLoop
<1>2. HoldersOK /\ WaitersOK /\ DyingOK
  BY <1>1 DEF HoldersOK, WaitersOK, DyingOK, Members
<1>3. SlotsOK
  BY <1>1, BoundsAssumption DEF SlotsOK
<1>4. QED  BY <1>2, <1>3 DEF LockInv, RecordsOK

\* What the proofs of the steps use of the invariants.
LEMMA LockFacts ==
  ASSUME Inv, RecordsOK
  PROVE  /\ lockNum \in [Task -> Int]
         /\ slot \in [Task -> [0..(MaxLocks - 1) -> Lock \cup {NoLock}]]
         /\ holds \in [Lock -> SUBSET Task]
         /\ lockStatus \in [Lock \cup Sem -> {"LOCKED", "UNLOCKED"}]
         /\ MaxLocks \in Nat
         /\ \A l \in Lock : Members(queue[l]) \subseteq Task
         /\ \A t \in Task : t \in Members(queue[Ready]) => status[t] = "READY"
         /\ \A l \in Lock : \A t \in Members(queue[l]) : status[t] = "BLOCKED"
<1>1. \A l \in Lock : l \in Queue \ {Ready, Exited} /\ Members(queue[l]) \subseteq Task
  BY InvFacts, QueueNames DEF Members
<1>2. \A l \in Lock : \A t \in Members(queue[l]) : status[t] = "BLOCKED"
  BY <1>1, InvFacts DEF Placed, Located, LocatedAt
<1>3. \A t \in Task : t \in Members(queue[Ready]) => status[t] = "READY"
  BY InvFacts DEF Placed, Located, LocatedAt
<1>4. QED  BY <1>1, <1>2, <1>3, InvFacts, BoundsAssumption DEF LockTypeOK

-----------------------------------------------------------------------------
(* Steps that leave the mutexes and their records alone, but may let a task *)
(* v die that holds none.                                                   *)

LEMMA Untouched ==
  ASSUME NEW STATE v, Inv, RecordsOK,
         UNCHANGED <<lockNum, slot, holds>>,
         \A l \in Lock : lockStatus'[l] = lockStatus[l],
         LivesBut(v),
         \A l \in Lock : v \notin holds[l],
         \A l \in Lock : \A t \in Members(queue'[l]) :
           t \in Members(queue[l]) \/ (t \notin holds[l] /\ lockNum[t] < MaxLocks)
  PROVE  RecordsOK'
<1>1. HoldersOK'
  <2> SUFFICES ASSUME NEW l \in Lock
               PROVE  /\ lockStatus'[l] = "LOCKED" <=> holds'[l] # {}
                      /\ \A t \in holds'[l] : status'[t] \in Live
                      /\ \A t, u \in holds'[l] : t = u
    BY DEF HoldersOK, Alive, Live
  <2>1. \A t \in holds[l] : t \in Task /\ t # v /\ status[t] \in Live
    BY LockFacts DEF RecordsOK, HoldersOK, Alive, Live
  <2>2. QED  BY <2>1 DEF RecordsOK, HoldersOK, LivesBut
<1>2. SlotsOK'
  <2>1. \A t \in Task : status'[t] \in Live => status[t] \in Live
    BY DEF LivesBut
  <2>2. QED  BY <2>1 DEF RecordsOK, SlotsOK, Alive, Live
<1>3. WaitersOK'
  BY DEF RecordsOK, WaitersOK
<1>4. QED  BY <1>1, <1>2, <1>3 DEF RecordsOK

LEMMA NobodyHoldsAsNoTask ==
  ASSUME Inv PROVE \A l \in Lock : NoTask \notin holds[l]
BY InvFacts, TasksAssumption DEF LockTypeOK

LEMMA QuietStep ==
  ASSUME Inv, LockInv, UNCHANGED <<lockNum, slot, holds, loop>>,
         \A l \in Lock : lockStatus'[l] = lockStatus[l],
         LivesBut(NoTask), LinesKept
  PROVE  LockInv'
<1>1. RecordsOK'
  <2>1. /\ RecordsOK /\ UNCHANGED <<lockNum, slot, holds>>
        /\ \A l \in Lock : NoTask \notin holds[l]
    BY NobodyHoldsAsNoTask DEF LockInv
  <2>2. \A l \in Lock : \A t \in Members(queue'[l]) :
          t \in Members(queue[l]) \/ (t \notin holds[l] /\ lockNum[t] < MaxLocks)
    BY DEF LinesKept
  <2>3. QED  BY <2>1, <2>2, Untouched
<1>2. DyingOK'
  BY DEF LockInv, DyingOK
<1>3. QED  BY <1>1, <1>2 DEF LockInv

\* No mutex is held by a task that has recorded none.
LEMMA EmptyRecord ==
  ASSUME Inv, RecordsOK, NEW STATE v, v \in Task, Alive(v)
  PROVE  lockNum[v] = 0 <=> \A l \in Lock : v \notin holds[l]
<1>1. /\ lockNum[v] \in 0..MaxLocks
      /\ \A l \in Lock : v \in holds[l] <=>
           \E i \in 0..(lockNum[v] - 1) : slot[v][i] = l
      /\ \A i \in 0..(lockNum[v] - 1) : slot[v][i] \in Lock
  BY DEF RecordsOK, SlotsOK
<1>2. lockNum[v] # 0 => 0 \in 0..(lockNum[v] - 1)
  BY <1>1
<1>3. lockNum[v] = 0 => 0..(lockNum[v] - 1) = {}
  BY <1>1
<1>4. QED  BY <1>1, <1>2, <1>3

\* The end of a task that has recorded no mutex.
LEMMA DeathStep ==
  ASSUME NEW STATE v, Inv, LockInv, v \in Task, Alive(v), lockNum[v] = 0,
         UNCHANGED lockVars, loop' = NoLoop, LivesBut(v),
         \A l \in Lock : Members(queue'[l]) \subseteq Members(queue[l])
  PROVE  LockInv'
<1>1. \A l \in Lock : v \notin holds[l]
  BY EmptyRecord DEF LockInv
<1>2. RecordsOK'
  <2>1. /\ RecordsOK /\ UNCHANGED <<lockNum, slot, holds>>
        /\ \A l \in Lock : lockStatus'[l] = lockStatus[l]
    BY DEF LockInv, lockVars
  <2>2. \A l \in Lock : \A t \in Members(queue'[l]) :
          t \in Members(queue[l]) \/ (t \notin holds[l] /\ lockNum[t] < MaxLocks)
    OBVIOUS
  <2>3. QED  BY <1>1, <2>1, <2>2, Untouched
<1>3. DyingOK'
  BY DEF DyingOK, NoLoop
<1>4. QED  BY <1>2, <1>3 DEF LockInv

LEMMA SpawnLocks ==
  ASSUME Inv, LockInv, NEW v \in Task, Spawn(v) PROVE LockInv'
<1>1. /\ status[v] = "UNUSED" /\ loop' = NoLoop
      /\ lockNum' = [lockNum EXCEPT ![v] = 0]
      /\ UNCHANGED <<lockStatus, slot, holds>>
      /\ \A t \in Task : status'[t] = IF t = v THEN "READY" ELSE status[t]
      /\ \A l \in Lock : queue'[l] = queue[l] \/ l = v
  BY InvFacts, QueueNames, QueuesAssumption DEF Spawn, InSyscall, Serving
<1>2. \A l \in Lock : queue'[l] = queue[l]
  BY <1>1, QueuesAssumption
<1>3. \A l \in Lock : v \notin holds[l] /\ v \notin Members(queue[l])
  BY <1>1, LockFacts DEF LockInv, RecordsOK, HoldersOK, Alive
<1>4. /\ lockNum'[v] = 0
      /\ \A t \in Task \ {v} : lockNum'[t] = lockNum[t]
  BY <1>1, LockFacts DEF LockInv
<1>5. HoldersOK'
  <2>1. \A l \in Lock : \A t \in holds[l] : t \in Task /\ t # v
    BY <1>3, LockFacts DEF LockInv
  <2>2. QED  BY <1>1, <2>1 DEF LockInv, RecordsOK, HoldersOK, Alive
<1>6. SlotsOK'
  <2>1. 0..(lockNum'[v] - 1) = {} /\ lockNum'[v] \in 0..MaxLocks
    BY <1>4, BoundsAssumption
  <2>2. \A l \in Lock : v \notin holds'[l]
    BY <1>1, <1>3
  <2>3. ASSUME NEW t \in Task \ {v}
        PROVE  /\ lockNum'[t] \in 0..MaxLocks
               /\ status'[t] \in Live =>
                    /\ \A l \in Lock : t \in holds'[l] <=>
                         \E i \in 0..(lockNum'[t] - 1) : slot'[t][i] = l
                    /\ \A i \in 0..(lockNum'[t] - 1) : slot'[t][i] \in Lock
                    /\ \A i, j \in 0..(lockNum'[t] - 1) :
                         slot'[t][i] = slot'[t][j] => i = j
    BY <1>1, <1>4 DEF LockInv, RecordsOK, SlotsOK, Alive, Live
  <2>4. QED  BY <2>1, <2>2, <2>3 DEF SlotsOK, Alive, Live
<1>7. WaitersOK'
  BY <1>1, <1>2, <1>3, <1>4, LockFacts DEF LockInv, RecordsOK, WaitersOK
<1>8. DyingOK'
  BY <1>1 DEF DyingOK, NoLoop
<1>9. QED  BY <1>5, <1>6, <1>7, <1>8 DEF LockInv, RecordsOK

-----------------------------------------------------------------------------
(* Steps that take a mutex, wait for it or give it up.                      *)

LEMMA AcquireLocks ==
  ASSUME Inv, LockInv, NEW m \in Lock, MutexAcquire(m) PROVE LockInv'
<1>1. /\ current \in Task /\ status[current] = "RUNNING" /\ Alive(current)
      /\ current \notin holds[m] /\ lockNum[current] < MaxLocks
      /\ loop' = NoLoop /\ InSyscall
  BY InvFacts DEF MutexAcquire, InSyscall, Serving, Alive
<1>2. DyingOK'
  BY <1>1 DEF DyingOK, NoLoop
<1>3. \A l \in Lock : current \notin Members(queue[l])
  BY <1>1, LockFacts DEF LockInv
<1>4. CASE AcquireFree(m)
  <2> DEFINE n == lockNum[current]
  <2>1. /\ lockStatus[m] = "UNLOCKED" /\ lockStatus' = [lockStatus EXCEPT ![m] = "LOCKED"]
        /\ lockNum' = [lockNum EXCEPT ![current] = n + 1]
        /\ holds' = [holds EXCEPT ![m] = @ \cup {current}]
        /\ UNCHANGED <<status, queue>>
    BY <1>4 DEF AcquireFree, schedVars
  <2>2. n \in 0..(MaxLocks - 1) /\ n + 1 \in 0..MaxLocks
    BY <1>1, BoundsAssumption DEF LockInv, RecordsOK, SlotsOK
  <2>3. slot' = [slot EXCEPT ![current][n] = m]
    BY <1>4, <2>2 DEF AcquireFree, Recorded
  <2>4. holds[m] = {} /\ queue[m] = <<>>
    BY <2>1, InvFacts DEF LockInv, RecordsOK, HoldersOK, WaitsOK
  <2>5. /\ holds'[m] = {current}
        /\ \A l \in Lock \ {m} : holds'[l] = holds[l] /\ lockStatus'[l] = lockStatus[l]
        /\ lockStatus'[m] = "LOCKED"
    BY <2>1, <2>4, LockFacts DEF LockInv
  <2>6. HoldersOK'
    BY <1>1, <2>1, <2>5 DEF LockInv, RecordsOK, HoldersOK, Alive
  <2>7. /\ lockNum'[current] = n + 1
        /\ slot'[current] = [slot[current] EXCEPT ![n] = m]
        /\ \A t \in Task \ {current} : lockNum'[t] = lockNum[t] /\ slot'[t] = slot[t]
    BY <1>1, <2>1, <2>3, LockFacts DEF LockInv
  <2>8. /\ slot'[current][n] = m
        /\ \A i \in 0..(n - 1) : slot'[current][i] = slot[current][i]
        /\ 0..n = 0..(n - 1) \cup {n} /\ n \notin 0..(n - 1)
    BY <1>1, <2>2, <2>7, LockFacts DEF LockInv
  <2>9. SlotsOK'
    <3>1. ASSUME NEW t \in Task, t # current
          PROVE  /\ lockNum'[t] \in 0..MaxLocks
                 /\ status'[t] \in Live =>
                      /\ \A l \in Lock : t \in holds'[l] <=>
                           \E i \in 0..(lockNum'[t] - 1) : slot'[t][i] = l
                      /\ \A i \in 0..(lockNum'[t] - 1) : slot'[t][i] \in Lock
                      /\ \A i, j \in 0..(lockNum'[t] - 1) :
                           slot'[t][i] = slot'[t][j] => i = j
      <4>1. \A l \in Lock : t \in holds'[l] <=> t \in holds[l]
        BY <2>4, <2>5, <3>1
      <4>2. lockNum'[t] = lockNum[t] /\ slot'[t] = slot[t] /\ status'[t] = status[t]
        BY <2>1, <2>7, <3>1
      <4>3. QED  BY <4>1, <4>2 DEF LockInv, RecordsOK, SlotsOK, Alive, Live
    <3>2. /\ \A l \in Lock : current \in holds[l] <=>
               \E i \in 0..(n - 1) : slot[current][i] = l
          /\ \A i \in 0..(n - 1) : slot[current][i] \in Lock
          /\ \A i, j \in 0..(n - 1) : slot[current][i] = slot[current][j] => i = j
      BY <1>1 DEF LockInv, RecordsOK, SlotsOK
    <3>3. \A i \in 0..(n - 1) : slot[current][i] # m
      BY <1>1, <3>2
    <3>4. /\ lockNum'[current] - 1 = n
          /\ \A l \in Lock : current \in holds'[l] <=> l = m \/ current \in holds[l]
      BY <2>2, <2>5, <2>7
    <3>5. /\ lockNum'[current] \in 0..MaxLocks
          /\ \A l \in Lock : current \in holds'[l] <=>
               \E i \in 0..n : slot'[current][i] = l
          /\ \A i \in 0..n : slot'[current][i] \in Lock
          /\ \A i, j \in 0..n : slot'[current][i] = slot'[current][j] => i = j
      BY <2>2, <2>7, <2>8, <3>2, <3>3, <3>4
    <3>6. QED  BY <3>1, <3>4, <3>5 DEF SlotsOK, Alive, Live
  <2>10. WaitersOK'
    <3>1. \A l \in Lock : \A t \in Members(queue[l]) : t \in Task \ {current} /\ l # m
      BY <1>3, <2>4, LockFacts DEF LockInv, Members
    <3>2. QED
      BY <2>1, <2>5, <2>7, <3>1 DEF LockInv, RecordsOK, WaitersOK
  <2>11. QED  BY <1>2, <2>6, <2>9, <2>10 DEF LockInv, RecordsOK
<1>5. CASE AcquireTaken(m)
  <2>1. /\ Block(m, left) /\ lockStatus[m] = "LOCKED"
        /\ UNCHANGED lockVars /\ loop' = loop
    BY <1>5 DEF AcquireTaken, MutexAcquire
  <2>2. m \in Queue \ {Ready, Exited} /\ m # Sleeping /\ m \notin Task
    BY QueueNames, QueuesAssumption
  <2>3. /\ LivesBut(NoTask)
        /\ \A l \in Lock \ {m} : queue'[l] = queue[l]
        /\ queue'[m] = Append(queue[m], current)
    <3>1. LockTypeOK' /\ UNCHANGED <<lockStatus, loop>> /\ left \in [Task -> Nat]
      BY <2>1, LocksUnchanged, InvFacts DEF lockVars
    <3>2. QED  BY <1>1, <2>1, <2>2, <3>1, BlockStep
  <2>4. Members(queue'[m]) = Members(queue[m]) \cup {current}
    <3>1. Distinct(queue[m]) /\ queue[m] \in Seq(Task)
      BY InvFacts, QueueNames DEF Placed, Separate
    <3>2. QED  BY <1>1, <1>3, <2>3, <3>1, AppendFacts
  <2>5. \A l \in Lock : \A t \in Members(queue'[l]) :
          t \in Members(queue[l]) \/ (t \notin holds[l] /\ lockNum[t] < MaxLocks)
    BY <1>1, <2>3, <2>4
  <2>6. /\ UNCHANGED <<lockNum, slot, holds>> /\ RecordsOK
        /\ \A l \in Lock : lockStatus'[l] = lockStatus[l]
        /\ \A l \in Lock : NoTask \notin holds[l]
    BY <2>1, NobodyHoldsAsNoTask DEF lockVars, LockInv
  <2>7. RecordsOK'
    BY <2>3, <2>5, <2>6, Untouched
  <2>8. QED  BY <1>2, <2>7 DEF LockInv
<1>6. QED  BY <1>4, <1>5 DEF MutexAcquire

\* do_mutex_lock_release of the mutex recorded last: its holder x has it no
\* more, and who waited first has it recorded.
LEMMA ReleaseLocks ==
  ASSUME NEW STATE m, Inv, RecordsOK, m \in Lock, current \in Task,
         status[current] = "RUNNING", current \in holds[m],
         lockNum[current] # 0, slot[current][lockNum[current] - 1] = m,
         Release(current, m), UNCHANGED <<inQueue, current>>
  PROVE  /\ RecordsOK'
         /\ lockNum'[current] = lockNum[current] - 1
         /\ \A l \in Lock \ {m} : holds'[l] = holds[l]
         /\ queue[m] # <<>> => holds'[m] = {Head(queue[m])}
<1> DEFINE n == lockNum[current]
           last == n - 1
<1>1. /\ n \in 1..MaxLocks /\ last \in 0..(MaxLocks - 1) /\ last \notin 0..(last - 1)
      /\ 0..(n - 1) = 0..(last - 1) \cup {last}
  BY BoundsAssumption DEF RecordsOK, SlotsOK
<1>2. /\ \A l \in Lock : current \in holds[l] <=>
           \E i \in 0..(n - 1) : slot[current][i] = l
      /\ \A i \in 0..(n - 1) : slot[current][i] \in Lock
      /\ \A i, j \in 0..(n - 1) : slot[current][i] = slot[current][j] => i = j
  BY DEF RecordsOK, SlotsOK, Alive
<1>3. holds[m] = {current}
  BY DEF RecordsOK, HoldersOK
\* What holds' and the fields of current are, whoever gets the mutex.
<1> DEFINE heir == IF queue[m] # <<>> THEN {Head(queue[m])} ELSE {}
<1>4. /\ holds' = [holds EXCEPT ![m] = heir]
      /\ \A t \in heir : t \in Task /\ t \in Members(queue[m]) /\ t # current
      /\ lockStatus'[m] = IF heir = {} THEN "UNLOCKED" ELSE "LOCKED"
      /\ \A l \in Lock \ {m} : lockStatus'[l] = lockStatus[l]
      /\ \A t \in Task : lockNum'[t] = IF t = current THEN n - 1
                                       ELSE IF t \in heir THEN lockNum[t] + 1
                                       ELSE lockNum[t]
      /\ \A t \in Task \ heir : slot'[t] = slot[t]
      /\ \A t \in heir : slot'[t] = [slot[t] EXCEPT ![lockNum[t]] = m]
      /\ LivesBut(NoTask)
      /\ \A l \in Lock : Members(queue'[l]) \subseteq Members(queue[l]) \ (IF l = m THEN heir ELSE {})
  <2>1. CASE queue[m] # <<>> /\ HandOver(current, m)
    <3> DEFINE p == Head(queue[m])
    <3>1. /\ p \in Members(queue[m]) \cap Task
          /\ LivesBut(NoTask)
          /\ \A r \in Queue \ {m, Ready} : queue'[r] = queue[r]
      BY <2>1, UnblockOneStep DEF HandOver
    <3>2. /\ lockStatus' = [lockStatus EXCEPT ![m] = "LOCKED"]
          /\ lockNum' = [lockNum EXCEPT ![p] = @ + 1, ![current] = @ - 1]
          /\ holds' = [holds EXCEPT ![m] = (@ \ {current}) \cup {p}]
          /\ slot' = Recorded(slot, p, lockNum[p], m)
          /\ queue' = [queue EXCEPT ![m] = Tail(@), ![Ready] = Append(@, p)]
      BY <2>1 DEF HandOver
    <3>3. Members(Tail(queue[m])) = Members(queue[m]) \ {p}
      BY <2>1, InvFacts, QueueNames, TailFacts DEF Placed, Separate
    <3>4. heir = {p} /\ heir # {}
      BY <2>1
    <3> HIDE DEF p, heir
    <3>5. p # current /\ lockNum[p] \in 0..(MaxLocks - 1)
      <4>1. lockNum[p] \in 0..MaxLocks /\ lockNum[p] < MaxLocks /\ MaxLocks \in Nat
        BY <3>1, LockFacts DEF RecordsOK, SlotsOK, WaitersOK
      <4>2. status[p] = "BLOCKED"
        BY <3>1, LockFacts
      <4>3. QED  BY <4>1, <4>2
    <3>6. slot' = [slot EXCEPT ![p][lockNum[p]] = m]
      BY <3>2, <3>5 DEF Recorded
    <3>7. holds' = [holds EXCEPT ![m] = heir]
      BY <1>3, <3>2, <3>4
    <3>8. \A t \in Task : lockNum'[t] = IF t = current THEN n - 1
                                        ELSE IF t \in heir THEN lockNum[t] + 1
                                        ELSE lockNum[t]
      BY <3>1, <3>2, <3>4, <3>5, LockFacts
    <3>9. /\ \A t \in Task \ heir : slot'[t] = slot[t]
          /\ slot'[p] = [slot[p] EXCEPT ![lockNum[p]] = m]
      BY <3>1, <3>4, <3>6, LockFacts
    <3>10. \A l \in Lock : Members(queue'[l]) \subseteq
                             Members(queue[l]) \ (IF l = m THEN heir ELSE {})
      <4>1. queue'[m] = Tail(queue[m])
        BY <3>2, InvFacts, QueueNames
      <4>2. \A l \in Lock \ {m} : queue'[l] = queue[l]
        BY <3>1, QueueNames
      <4>3. QED  BY <3>3, <3>4, <4>1, <4>2
    <3>11. /\ lockStatus'[m] = "LOCKED"
           /\ \A l \in Lock \ {m} : lockStatus'[l] = lockStatus[l]
      BY <3>2, LockFacts
    <3>12. QED
      BY <3>1, <3>4, <3>5, <3>7, <3>8, <3>9, <3>10, <3>11
  <2>2. CASE queue[m] = <<>> /\ SetFree(current, m)
    <3>1. /\ lockStatus' = [lockStatus EXCEPT ![m] = "UNLOCKED"]
          /\ lockNum' = [lockNum EXCEPT ![current] = @ - 1]
          /\ holds' = [holds EXCEPT ![m] = @ \ {current}]
          /\ UNCHANGED <<queue, status, slot>>
      BY <2>2 DEF SetFree
    <3>2. heir = {}
      BY <2>2
    <3> HIDE DEF heir
    <3>3. holds' = [holds EXCEPT ![m] = heir]
      BY <1>3, <3>1, <3>2
    <3>4. /\ lockStatus'[m] = "UNLOCKED"
          /\ \A l \in Lock \ {m} : lockStatus'[l] = lockStatus[l]
      BY <3>1, LockFacts
    <3>5. \A t \in Task : lockNum'[t] = IF t = current THEN n - 1 ELSE lockNum[t]
      BY <3>1, LockFacts
    <3>6. LivesBut(NoTask)
      BY <3>1, TasksAssumption DEF LivesBut
    <3>7. QED  BY <3>1, <3>2, <3>3, <3>4, <3>5, <3>6
  <2>3. QED  BY <2>1, <2>2 DEF Release
<1>5. /\ holds'[m] = heir /\ \A l \in Lock \ {m} : holds'[l] = holds[l]
      /\ \A t, u \in heir : t = u
  BY <1>4, LockFacts
<1>6. queue[m] # <<>> => holds'[m] = {Head(queue[m])}
  BY <1>5
<1> HIDE DEF heir
<1>7. \A t \in Task : status'[t] \in Live <=> status[t] \in Live
  BY <1>4, TasksAssumption DEF LivesBut
<1>8. \A t \in heir : /\ status[t] = "BLOCKED" /\ t \notin holds[m]
                      /\ lockNum[t] \in 0..(MaxLocks - 1)
  BY <1>4, LockFacts DEF RecordsOK, WaitersOK, SlotsOK
<1>9. HoldersOK'
  <2> SUFFICES ASSUME NEW l \in Lock
               PROVE  /\ lockStatus'[l] = "LOCKED" <=> holds'[l] # {}
                      /\ \A t \in holds'[l] : status'[t] \in Live
                      /\ \A t, u \in holds'[l] : t = u
    BY DEF HoldersOK, Alive, Live
  <2>1. CASE l = m
    BY <1>4, <1>5, <1>7, <1>8, <2>1 DEF Live
  <2>2. CASE l # m
    <3>1. \A t \in holds[l] : t \in Task /\ status[t] \in Live
      BY LockFacts DEF RecordsOK, HoldersOK, Alive, Live
    <3>2. QED  BY <1>4, <1>5, <1>7, <2>2, <3>1 DEF RecordsOK, HoldersOK
  <2>3. QED  BY <2>1, <2>2
<1>10. WaitersOK'
  <2> SUFFICES ASSUME NEW l \in Lock, NEW t \in Members(queue'[l])
               PROVE  t \notin holds'[l] /\ lockNum'[t] < MaxLocks
    BY DEF WaitersOK
  <2>1. /\ t \in Members(queue[l]) /\ t \in Task /\ t # current
        /\ t \notin holds[l] /\ lockNum[t] < MaxLocks
        /\ l = m => t \notin heir
    BY <1>4, LockFacts DEF RecordsOK, WaitersOK
  <2>2. l # m => t \notin heir
    <3>1. \A q, r \in Queue : q # r => Members(queue[q]) \cap Members(queue[r]) = {}
      BY InvFacts DEF Placed, Separate
    <3>2. QED  BY <1>4, <2>1, <3>1, QueueNames
  <2>3. QED  BY <1>4, <1>5, <2>1, <2>2
<1>11. SlotsOK'
  <2> SUFFICES ASSUME NEW t \in Task
               PROVE  /\ lockNum'[t] \in 0..MaxLocks
                      /\ status'[t] \in Live =>
                           /\ \A l \in Lock : t \in holds'[l] <=>
                                \E i \in 0..(lockNum'[t] - 1) : slot'[t][i] = l
                           /\ \A i \in 0..(lockNum'[t] - 1) : slot'[t][i] \in Lock
                           /\ \A i, j \in 0..(lockNum'[t] - 1) :
                                slot'[t][i] = slot'[t][j] => i = j
    BY DEF SlotsOK, Alive, Live
  <2>0. /\ lockNum[t] \in 0..MaxLocks
        /\ status[t] \in Live =>
             /\ \A l \in Lock : t \in holds[l] <=>
                  \E i \in 0..(lockNum[t] - 1) : slot[t][i] = l
             /\ \A i \in 0..(lockNum[t] - 1) : slot[t][i] \in Lock
             /\ \A i, j \in 0..(lockNum[t] - 1) : slot[t][i] = slot[t][j] => i = j
    BY DEF RecordsOK, SlotsOK, Alive, Live
  <2>1. CASE t = current
    <3>1. lockNum'[t] = last /\ slot'[t] = slot[t] /\ t \notin heir
      BY <1>4, <2>1
    <3>2. last \in 0..MaxLocks
      BY <1>1, BoundsAssumption
    <3>3. \A l \in Lock : t \in holds'[l] <=> t \in holds[l] /\ l # m
      BY <1>5, <2>1, <3>1
    <3>4. \A l \in Lock : t \in holds'[l] <=>
            \E i \in 0..(last - 1) : slot[t][i] = l
      BY <1>1, <1>2, <2>1, <3>3
    <3>5. QED  BY <1>1, <1>2, <2>1, <3>1, <3>2, <3>4
  <2>2. CASE t \in heir
    <3> DEFINE k == lockNum[t]
    <3>1. /\ lockNum'[t] = k + 1 /\ k \in 0..(MaxLocks - 1)
          /\ slot'[t] = [slot[t] EXCEPT ![k] = m]
      BY <1>4, <1>8, <2>2
    <3>2. /\ slot'[t][k] = m
          /\ \A i \in 0..(k - 1) : slot'[t][i] = slot[t][i]
          /\ 0..(lockNum'[t] - 1) = 0..(k - 1) \cup {k} /\ k \notin 0..(k - 1)
          /\ lockNum'[t] \in 0..MaxLocks
      BY <3>1, LockFacts
    <3>3. /\ t \notin holds[m] /\ status[t] \in Live
          /\ \A l \in Lock : t \in holds'[l] <=> l = m \/ t \in holds[l]
      BY <1>5, <1>8, <2>2 DEF Live
    <3>4. \A i \in 0..(k - 1) : slot[t][i] # m
      BY <2>0, <3>3
    <3>5. QED  BY <2>0, <3>2, <3>3, <3>4
  <2>3. CASE t # current /\ t \notin heir
    <3>1. lockNum'[t] = lockNum[t] /\ slot'[t] = slot[t]
      BY <1>4, <2>3
    <3>2. \A l \in Lock : t \in holds'[l] <=> t \in holds[l]
      BY <1>3, <1>5, <2>3
    <3>3. QED  BY <1>7, <2>0, <3>1, <3>2
  <2>4. QED  BY <2>1, <2>2, <2>3
<1>12. lockNum'[current] = lockNum[current] - 1
  BY <1>4
<1>13. QED  BY <1>5, <1>6, <1>9, <1>10, <1>11, <1>12 DEF RecordsOK

LEMMA MutexReleaseLocks ==
  ASSUME Promised, Inv, LockInv, NEW m \in Lock, MutexRelease(m) PROVE LockInv'
<1>1. /\ current \in Task /\ status[current] = "RUNNING" /\ current \in holds[m]
      /\ Release(current, m) /\ UNCHANGED <<inQueue, current>> /\ loop' = NoLoop
  BY InvFacts DEF MutexRelease, InSyscall, Serving
<1>2. PICK i \in DOMAIN slot[current] : i = lockNum[current] - 1 /\ slot[current][i] = m
  BY DEF MutexRelease, Promised
<1>3. lockNum[current] # 0
  BY <1>1, <1>2, LockFacts DEF LockInv
<1>4. RecordsOK'
  BY <1>1, <1>2, <1>3, ReleaseLocks DEF LockInv
<1>5. DyingOK'
  BY <1>1 DEF DyingOK, NoLoop
<1>6. QED  BY <1>4, <1>5 DEF LockInv

\* The release loop releases the one mutex of a task that exits.
LEMMA LoopRelease ==
  ASSUME Inv, LockInv, ReleaseNext
  PROVE  /\ loop.kind = "exit" /\ loop.task = current /\ current \in Task
         /\ status[current] = "RUNNING" /\ lockNum[current] = 1
         /\ slot[current][0] \in Lock /\ current \in holds[slot[current][0]]
         /\ Release(current, slot[current][0])
<1>1. /\ loop \in [kind : {"none", "exit", "kill"}, task : Task, i : Nat]
      /\ loop.kind # "none" /\ loop.i < lockNum[loop.task] /\ current \in Task
  BY DEF ReleaseNext, LoopReleases, Inv, TypeOK
<1>2. loop.kind = "exit" /\ loop.task = current /\ loop.i = 0 /\ lockNum[current] = 1
  BY <1>1, LockFacts DEF Inv, LoopOK, LockInv, DyingOK
<1>3. status[current] = "RUNNING"
  BY <1>1, InvFacts
<1>4. \E l \in Lock : l = slot[current][0] /\ Release(current, l)
  BY <1>2 DEF ReleaseNext
<1>5. \A l \in Lock : current \in holds[l] <=>
        \E i \in 0..(lockNum[current] - 1) : slot[current][i] = l
  BY <1>1, <1>3 DEF LockInv, RecordsOK, SlotsOK, Alive
<1>6. QED  BY <1>1, <1>2, <1>3, <1>4, <1>5

LEMMA ReleaseNextLocks == ASSUME Inv, LockInv, ReleaseNext PROVE LockInv'
<1>1. /\ loop.kind = "exit" /\ loop.task = current /\ current \in Task
      /\ status[current] = "RUNNING" /\ lockNum[current] = 1
      /\ slot[current][0] \in Lock /\ current \in holds[slot[current][0]]
      /\ Release(current, slot[current][0])
  BY LoopRelease
<1>2. RecordsOK' /\ lockNum'[current] = 0
  BY <1>1, ReleaseLocks DEF ReleaseNext, LockInv
<1>3. /\ loop' = [loop EXCEPT !.i = @ + 1] /\ UNCHANGED current
      /\ loop \in [kind : {"none", "exit", "kill"}, task : Task, i : Nat]
  BY DEF ReleaseNext, Inv, TypeOK
<1>4. loop'.kind = "exit" /\ loop'.task = current
  BY <1>1, <1>3
<1>5. QED  BY <1>2, <1>4 DEF LockInv, DyingOK

\* A task that holds at most one mutex has recorded at most one.
LEMMA FewHeldFewRecorded ==
  ASSUME Inv, RecordsOK, NEW STATE v, v \in Task, Alive(v), Cardinality(HeldBy(v)) <= 1
  PROVE  lockNum[v] <= 1
<1> DEFINE n == lockNum[v]
           at == slot[v]
<1>1. /\ n \in 0..MaxLocks
      /\ \A l \in Lock : v \in holds[l] <=> \E i \in 0..(n - 1) : at[i] = l
      /\ \A i \in 0..(n - 1) : at[i] \in Lock
      /\ \A i, j \in 0..(n - 1) : at[i] = at[j] => i = j
  BY DEF RecordsOK, SlotsOK
<1> HIDE DEF n, at
<1> SUFFICES ASSUME 1 < n PROVE FALSE
  BY <1>1, BoundsAssumption DEF n
<1>2. HeldBy(v) = {at[i] : i \in 0..(n - 1)}
  BY <1>1 DEF HeldBy
<1>3. IsFiniteSet(HeldBy(v))
  <2>1. IsFiniteSet(0..(n - 1))
    BY <1>1, FS_Interval, BoundsAssumption
  <2> DEFINE f == [i \in 0..(n - 1) |-> at[i]]
  <2>2. f \in Surjection(0..(n - 1), HeldBy(v))
    BY <1>2 DEF Surjection
  <2> HIDE DEF f
  <2>3. QED  BY <2>1, <2>2, FS_Surjection
<1>4. 0 \in 0..(n - 1) /\ 1 \in 0..(n - 1)
  BY <1>1, BoundsAssumption
<1>5. {at[0], at[1]} \subseteq HeldBy(v) /\ at[0] # at[1]
  BY <1>1, <1>2, <1>4
<1>6. Cardinality({at[0], at[1]}) <= Cardinality(HeldBy(v))
  BY <1>3, <1>5, FS_Subset
<1>7. Cardinality({at[0], at[1]}) = 2
  <2>1. IsFiniteSet({at[0]}) /\ Cardinality({at[0]}) = 1
    BY FS_Singleton
  <2>2. Cardinality({at[0]} \cup {at[1]}) = Cardinality({at[0]}) + 1
    BY <1>5, <2>1, FS_AddElement
  <2>3. {at[0]} \cup {at[1]} = {at[0], at[1]}
    OBVIOUS
  <2>4. QED  BY <2>1, <2>2, <2>3
<1>8. Cardinality(HeldBy(v)) \in Nat
  BY <1>3, FS_CardinalityType
<1>9. QED  BY <1>6, <1>7, <1>8

LEMMA ExitLocks == ASSUME Promised, Inv, LockInv, Exit PROVE LockInv'
<1>1. /\ current \in Task /\ Alive(current) /\ Cardinality(HeldBy(current)) <= 1
      /\ UNCHANGED <<schedVars, lockVars>>
      /\ loop' = [kind |-> "exit", task |-> current, i |-> 0]
  BY InvFacts DEF Exit, InSyscall, Serving, Alive, Promised
<1>2. lockNum[current] <= 1
  BY <1>1, FewHeldFewRecorded DEF LockInv
<1>3. DyingOK'
  BY <1>1, <1>2 DEF DyingOK, lockVars
<1>4. RecordsOK'
  BY <1>1 DEF LockInv, RecordsOK, HoldersOK, SlotsOK, WaitersOK, Alive, schedVars, lockVars
<1>5. QED  BY <1>3, <1>4 DEF LockInv

LEMMA KillReadyLocks ==
  ASSUME Promised, Inv, LockInv, NEW v \in Task, KillReady(v) PROVE LockInv'
<1>1. /\ Alive(v) /\ HeldBy(v) = {} /\ UNCHANGED <<schedVars, lockVars>>
      /\ loop' = [kind |-> "kill", task |-> v, i |-> 0]
  BY DEF KillReady, Killable, Promised
<1>2. lockNum[v] = 0
  BY <1>1, EmptyRecord DEF LockInv, HeldBy
<1>3. DyingOK'
  BY <1>1, <1>2 DEF DyingOK, lockVars
<1>4. RecordsOK'
  BY <1>1 DEF LockInv, RecordsOK, HoldersOK, SlotsOK, WaitersOK, Alive, schedVars, lockVars
<1>5. QED  BY <1>3, <1>4 DEF LockInv

LEMMA KillBlockedLocks ==
  ASSUME Promised, Inv, LockInv, NEW v \in Task, KillBlocked(v) PROVE LockInv'
<1>1. Alive(v) /\ HeldBy(v) = {}
  BY DEF KillBlocked, Killable, Promised
<1>2. lockNum[v] = 0
  BY <1>1, EmptyRecord DEF LockInv, HeldBy
<1>3. UNCHANGED lockVars /\ loop' = NoLoop
  BY DEF KillBlocked, Bury
<1>4. QED  BY <1>1, <1>2, <1>3, KillBlockedStep, DeathStep

LEMMA FinishKillReadyLocks == ASSUME Inv, LockInv, FinishKillReady PROVE LockInv'
<1>1. /\ loop.task \in Task /\ Alive(loop.task) /\ lockNum[loop.task] = 0
  BY DEF FinishKillReady, LockInv, DyingOK, Inv, TypeOK, LoopOK, Alive
<1>2. UNCHANGED lockVars /\ loop' = NoLoop
  BY DEF FinishKillReady, Bury
<1>3. QED  BY <1>1, <1>2, FinishKillReadyStep, DeathStep

LEMMA FinishExitLocks == ASSUME Inv, LockInv, FinishExit PROVE LockInv'
<1>1. /\ loop.kind = "exit" /\ loop.task = current /\ current \in Task
      /\ ~(loop.i < lockNum[current]) /\ loop.i \in Nat
  BY DEF FinishExit, LoopReleases, Inv, TypeOK, LoopOK
<1>2. lockNum[current] = 0
  <2>1. lockNum[current] \in 0..MaxLocks
    BY <1>1 DEF LockInv, RecordsOK, SlotsOK
  <2>2. QED  BY <1>1, <2>1, BoundsAssumption DEF LockInv, DyingOK
<1>3. Alive(current)
  BY <1>1, InvFacts DEF Alive
<1>4. UNCHANGED lockVars /\ loop' = NoLoop
  BY DEF FinishExit
<1>5. \A l \in Lock : Members(queue'[l]) \subseteq Members(queue[l])
  BY FinishExitStep DEF LinesKept
<1>6. QED  BY <1>1, <1>2, <1>3, <1>4, <1>5, FinishExitStep, DeathStep

-----------------------------------------------------------------------------
(* The theorems.                                                            *)

LEMMA NextLocks == ASSUME Promised, Inv, LockInv, [Next]_vars PROVE LockInv'
<1>1. ASSUME Timer PROVE LockInv'
  BY <1>1, TimerStep, QuietStep DEF Timer, lockVars
<1>2. ASSUME NEW n \in SleepTimes, Sleep(n) PROVE LockInv'
  BY <1>2, SleepStep, QuietStep DEF Sleep, lockVars
<1>3. ASSUME NEW t \in Task, WaitPid(t) PROVE LockInv'
  BY <1>3, WaitPidStep, QuietStep DEF WaitPid, lockVars
<1>4. ASSUME WaitNobody PROVE LockInv'
  BY <1>4, WaitNobodyStep, QuietStep DEF WaitNobody, lockVars
<1>5. ASSUME NEW s \in Sem, SemLock(s) \/ SemUnlock(s) PROVE LockInv'
  <2>1. /\ LivesBut(NoTask) /\ LinesKept
        /\ UNCHANGED <<lockNum, slot, holds, loop>>
    BY <1>5, SemLockStep, SemUnlockStep DEF SemLock, SemUnlock
  <2>2. \A l \in Lock : lockStatus'[l] = lockStatus[l]
    <3>1. \A l \in Lock : l # s
      BY QueuesAssumption
    <3>2. \/ lockStatus' = lockStatus
          \/ lockStatus' = [lockStatus EXCEPT ![s] = "LOCKED"]
          \/ lockStatus' = [lockStatus EXCEPT ![s] = "UNLOCKED"]
      BY <1>5 DEF SemLock, SemUnlock
    <3>3. QED  BY <3>1, <3>2, InvFacts DEF LockTypeOK
  <2>3. QED  BY <2>1, <2>2, QuietStep
<1>6. CASE UNCHANGED vars
  BY <1>6 DEF vars, LockInv, RecordsOK, HoldersOK, SlotsOK, WaitersOK, DyingOK, Alive
<1>7. ASSUME NEW t \in Task, Spawn(t) \/ KillReady(t) \/ KillBlocked(t) PROVE LockInv'
  BY <1>7, SpawnLocks, KillReadyLocks, KillBlockedLocks
<1>8. ASSUME NEW l \in Lock, MutexAcquire(l) \/ MutexRelease(l) PROVE LockInv'
  BY <1>8, AcquireLocks, MutexReleaseLocks
<1>9. QED
  BY <1>1, <1>2, <1>3, <1>4, <1>5, <1>6, <1>7, <1>8, ExitLocks, ReleaseNextLocks,
     FinishExitLocks, FinishKillReadyLocks DEF Next

LEMMA SpecLockInv == ASSUME Promised PROVE Spec => []LockInv
<1>1. Inv /\ LockInv /\ [Next]_vars => LockInv'
  BY NextLocks
<1>2. QED  BY SpecInv, InitLockInv, <1>1, PTL DEF Spec

\* If programs release in the order they acquired, exit with one mutex at most and
\* kill only tasks without, no mutex ever has two holders, those included who got
\* it from a task that died.
THEOREM MutualExclusionAlways == Promised => (Spec => []MutualExclusion)
<1>1. LockInv => MutualExclusion
  BY DEF LockInv, RecordsOK, HoldersOK, MutualExclusion
<1>2. ASSUME Promised PROVE Spec => []MutualExclusion
  BY <1>1, <1>2, SpecLockInv, PTL
<1>3. QED  BY <1>2

\* Under the same promises a taken mutex has a live holder, and pcb.lock[] with
\* lock_num says exactly which mutexes a live task holds.
THEOREM LocksHeldAlways == Promised => (Spec => []LocksHeld)
<1>1. ASSUME LockInv PROVE TakenHasLiveHolder
  BY <1>1 DEF LockInv, RecordsOK, HoldersOK, TakenHasLiveHolder
<1>2. ASSUME LockInv PROVE SlotsAreHeld
  BY <1>2 DEF LockInv, RecordsOK, SlotsOK, SlotsAreHeld, HeldBy
<1>3. LockInv => LocksHeld
  BY <1>1, <1>2 DEF LocksHeld
<1>4. ASSUME Promised PROVE Spec => []LocksHeld
  BY <1>3, <1>4, SpecLockInv, PTL
<1>5. QED  BY <1>4

\* Under the same promises a task that died left no mutex locked behind.
THEOREM DeadHoldNothingAlways == Promised => (Spec => []DeadHoldNothing)
<1>1. LockInv => DeadHoldNothing
  BY DEF LockInv, RecordsOK, HoldersOK, DeadHoldNothing, HeldBy, Alive
<1>2. ASSUME Promised PROVE Spec => []DeadHoldNothing
  BY <1>1, <1>2, SpecLockInv, PTL
<1>3. QED  BY <1>2

LEMMA NextFifo ==
  ASSUME Promised, Inv, LockInv, [Next]_vars,
         NEW l \in Lock, queue[l] # <<>>, holds'[l] # holds[l]
  PROVE  holds'[l] = {Head(queue[l])}
<1>1. lockStatus[l] = "LOCKED"
  BY InvFacts DEF WaitsOK
<1>2. \/ \E m \in Lock : MutexAcquire(m) /\ AcquireFree(m)
      \/ \E m \in Lock : MutexRelease(m)
      \/ ReleaseNext
  BY DEF Next, vars, lockVars, Timer, Sleep, Spawn, WaitPid, WaitNobody, MutexAcquire,
         AcquireTaken, SemLock, SemUnlock, Exit, FinishExit, FinishKillReady, KillReady,
         KillBlocked, Bury
<1>3. ASSUME NEW m \in Lock, AcquireFree(m) PROVE FALSE
  BY <1>1, <1>3, LockFacts DEF AcquireFree, LockInv
<1>4. ASSUME NEW m \in Lock, MutexRelease(m) PROVE holds'[l] = {Head(queue[l])}
  <2>1. /\ current \in Task /\ status[current] = "RUNNING" /\ current \in holds[m]
        /\ Release(current, m) /\ UNCHANGED <<inQueue, current>>
    BY <1>4, InvFacts DEF MutexRelease, InSyscall, Serving
  <2>2. PICK i \in DOMAIN slot[current] :
          i = lockNum[current] - 1 /\ slot[current][i] = m
    BY <1>4 DEF MutexRelease, Promised
  <2>3. lockNum[current] # 0
    BY <2>1, <2>2, LockFacts DEF LockInv
  <2>4. /\ \A k \in Lock \ {m} : holds'[k] = holds[k]
        /\ queue[m] # <<>> => holds'[m] = {Head(queue[m])}
    BY <2>1, <2>2, <2>3, ReleaseLocks DEF LockInv
  <2>5. QED  BY <2>4
<1>5. ASSUME ReleaseNext PROVE holds'[l] = {Head(queue[l])}
  <2> DEFINE m == slot[current][0]
  <2>1. /\ current \in Task /\ status[current] = "RUNNING" /\ lockNum[current] = 1
        /\ m \in Lock /\ current \in holds[m] /\ Release(current, m)
        /\ UNCHANGED <<inQueue, current>>
    BY <1>5, LoopRelease DEF ReleaseNext
  <2> HIDE DEF m
  <2>2. slot[current][lockNum[current] - 1] = m
    BY <2>1 DEF m
  <2>3. /\ \A k \in Lock \ {m} : holds'[k] = holds[k]
        /\ queue[m] # <<>> => holds'[m] = {Head(queue[m])}
    BY <2>1, <2>2, ReleaseLocks DEF LockInv
  <2>4. QED  BY <2>3
<1>6. QED  BY <1>2, <1>3, <1>4, <1>5

\* Under the same promises a mutex somebody waits for goes to the first who waits,
\* from a holder that releases it as from one that dies.
THEOREM MutexFifoAlways == Promised => (Spec => MutexFifo)
<1>1. ASSUME Promised
      PROVE  Inv /\ LockInv /\ [Next]_vars =>
               [\A l \in Lock : queue[l] # <<>> /\ holds'[l] # holds[l]
                                 => holds'[l] = {Head(queue[l])}]_vars
  BY <1>1, NextFifo
<1>2. ASSUME Promised PROVE Spec => MutexFifo
  BY <1>1, <1>2, SpecInv, SpecLockInv, PTL DEF Spec, MutexFifo
<1>3. QED  BY <1>2
=============================================================================
