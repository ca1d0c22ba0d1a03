--------------------------- MODULE PcbQueueProofs ---------------------------
(***************************************************************************)
(* The linked lists of queue.c are queues, for any number of items and     *)
(* lists.                                                                  *)
(***************************************************************************)
EXTENDS PcbQueue, QueueFacts, FiniteSetTheorems, WellFoundedInduction

-----------------------------------------------------------------------------
(* A walk is determined by the memory.                                     *)

LEMMA LeastNatural ==
  ASSUME NEW T \in SUBSET Nat, T # {}
  PROVE  \E i \in T : \A j \in T : i <= j
<1>1. PICK i \in T : \A j \in T : ~ (<<j, i>> \in OpToRel(<, Nat))
  BY NatLessThanWellFounded, WFMin
<1>2. \A j \in T : ~ (j < i)
  BY <1>1 DEF OpToRel
<1>3. QED  BY <1>2

\* Induction, for a set of numbers.
LEMMA CountUp ==
  ASSUME NEW T, 0 \in T, \A n \in Nat : n \in T => n + 1 \in T
  PROVE  \A n \in Nat : n \in T
<1> DEFINE bad == {n \in Nat : n \notin T}
<1> SUFFICES ASSUME bad # {} PROVE FALSE
  OBVIOUS
<1>1. bad \in SUBSET Nat
  OBVIOUS
<1>2. PICK n \in bad : \A m \in bad : n <= m
  BY <1>1, LeastNatural
<1>3. n \in Nat /\ n \notin T
  OBVIOUS
<1>4. n - 1 \in Nat
  BY <1>3
<1>5. n - 1 \in T
  <2>1. ~ (n <= n - 1)
    BY <1>3
  <2> HIDE DEF bad
  <2>2. n - 1 \notin bad
    BY <1>2, <2>1
  <2>3. QED  BY <1>4, <2>2 DEF bad
<1>6. n - 1 + 1 = n
  BY <1>3
<1>7. QED  BY <1>3, <1>4, <1>5, <1>6

LEMMA VisitsUnique ==
  ASSUME NEW m \in Memory, NEW q \in QueueT,
         NEW s \in Seq(Pcb), NEW t \in Seq(Pcb),
         Visits(m, q, s), Visits(m, q, t), Len(s) <= Len(t)
  PROVE  s = t
<1> USE LinksAssumption
<1>1. /\ Len(s) \in Nat /\ Len(t) \in Nat
      /\ \A i \in 1..Len(s) : s[i] \in Pcb
      /\ \A i \in 1..Len(t) : t[i] \in Pcb
  OBVIOUS
<1>2. CASE s = <<>>
  <2>1. t = <<>>
    BY <1>1, <1>2 DEF Visits
  <2>2. QED  BY <1>2, <2>1
<1>3. CASE s # <<>>
  <2>1. /\ t # <<>> /\ Len(s) >= 1
        /\ s[1] = t[1]
        /\ \A i \in 1..(Len(s) - 1) : m.next[s[i]] = s[i + 1]
        /\ m.next[s[Len(s)]] = Null
        /\ \A i \in 1..(Len(t) - 1) : m.next[t[i]] = t[i + 1]
    BY <1>1, <1>3 DEF Visits
  <2> DEFINE D == {i \in 1..Len(s) : s[i] # t[i]}
  <2>2. D = {}
    <3> SUFFICES ASSUME D # {} PROVE FALSE
      OBVIOUS
    <3>1. D \in SUBSET Nat
      OBVIOUS
    <3>2. PICK i \in D : \A j \in D : i <= j
      BY <3>1, LeastNatural
    <3>3. i \in 1..Len(s) /\ s[i] # t[i] /\ i # 1
      BY <2>1, <3>2
    <3>4. i - 1 \in 1..Len(s) /\ i - 1 \notin D
      BY <1>1, <3>2, <3>3
    <3>5. s[i - 1] = t[i - 1]
      BY <3>4
    <3>6. m.next[s[i - 1]] = s[i] /\ m.next[t[i - 1]] = t[i]
      BY <1>1, <2>1, <3>3
    <3>7. QED  BY <3>3, <3>5, <3>6
  <2>3. \A i \in 1..Len(s) : s[i] = t[i]
    BY <2>2
  <2>4. Len(s) = Len(t)
    <3> SUFFICES ASSUME Len(s) < Len(t) PROVE FALSE
      BY <1>1
    <3>1. m.next[t[Len(s)]] = t[Len(s) + 1] /\ t[Len(s) + 1] \in Pcb
      BY <1>1, <2>1
    <3>2. QED  BY <2>1, <2>3, <3>1, <1>1
  <2>5. QED  BY <2>3, <2>4, SeqEqual
<1>4. QED  BY <1>2, <1>3

\* A repetition-free walk that follows the links is the walk of the list.
LEMMA WalkIs ==
  ASSUME NEW m \in Memory, NEW q \in QueueT, NEW s \in Seq(Pcb),
         Distinct(s), Visits(m, q, s)
  PROVE  s \in Walks /\ Walk(m, q) = s
<1>1. s \in [1..Len(s) -> Pcb] /\ Len(s) \in Nat
  OBVIOUS
<1>2. Len(s) <= Cardinality(Pcb) /\ Cardinality(Pcb) \in Nat
  <2>1. s \in Injection(1..Len(s), Pcb)
    BY <1>1 DEF Injection, IsInjective, Distinct
  <2>2. Cardinality(1..Len(s)) <= Cardinality(Pcb)
    BY <2>1, FS_Injection, LinksAssumption
  <2>3. Cardinality(1..Len(s)) = Len(s)
    <3>1. 1 \in Int /\ Len(s) \in Int
      BY <1>1
    <3>2. Cardinality(1..Len(s)) = IF 1 > Len(s) THEN 0 ELSE Len(s) - 1 + 1
      BY <3>1, FS_Interval
    <3>3. QED  BY <1>1, <3>2
  <2>4. QED  BY <2>2, <2>3, FS_CardinalityType, LinksAssumption
<1>3. s \in Walks
  BY <1>1, <1>2 DEF Walks
<1>4. \A t \in Walks : t \in Seq(Pcb)
  BY FS_CardinalityType, LinksAssumption DEF Walks
<1>5. \A t \in Walks : Visits(m, q, t) => t = s
  <2> SUFFICES ASSUME NEW t \in Walks, Visits(m, q, t) PROVE t = s
    OBVIOUS
  <2>1. t \in Seq(Pcb) /\ (Len(t) <= Len(s) \/ Len(s) <= Len(t))
    BY <1>4
  <2>2. QED  BY <2>1, VisitsUnique
<1>6. QED  BY <1>3, <1>5 DEF Walk

-----------------------------------------------------------------------------
(* What each function does to the list it is given and to the others.      *)

\* A list whose head, tail and items are not written stays as it is.
LEMMA Frame ==
  ASSUME NEW P, NEW m, NEW n, NEW r, NEW t \in Seq(P), Chain(m, r, t),
         n.head[r] = m.head[r], n.tail[r] = m.tail[r],
         \A x \in Members(t) : n.next[x] = m.next[x] /\ n.prev[x] = m.prev[x]
  PROVE  Chain(n, r, t)
<1>1. /\ Len(t) \in Nat /\ DOMAIN t = 1..Len(t)
      /\ \A i \in 1..Len(t) : n.next[t[i]] = m.next[t[i]] /\ n.prev[t[i]] = m.prev[t[i]]
  BY DEF Members
<1>2. t # <<>> => Len(t) \in 1..Len(t)
  OBVIOUS
<1>3. Visits(n, r, t)
  BY <1>1, <1>2 DEF Chain, Visits
<1>4. QED  BY <1>1, <1>3 DEF Chain

\* The memory of the items P and the lists Q, and that the list of q is s.
PointerTo(P) == P \cup {Null}

MemoryOn(P, Q) == [head : [Q -> PointerTo(P)], tail : [Q -> PointerTo(P)],
                   next : [P -> PointerTo(P)], prev : [P -> PointerTo(P)]]

HasIn(P, m, q, s) == s \in Seq(P) /\ Chain(m, q, s)

LEMMA PushList ==
  ASSUME NEW P, NEW Q, Null \notin P, NEW m \in MemoryOn(P, Q), NEW q \in Q, NEW x \in P, NEW s,
         HasIn(P, m, q, s), x \notin Members(s)
  PROVE  LET n == QueuePush(m, q, x)
         IN /\ n \in MemoryOn(P, Q)
            /\ HasIn(P, n, q, Append(s, x))
            /\ \A r \in Q, t \in Seq(P) :
                 /\ HasIn(P, m, r, t) /\ r # q /\ x \notin Members(t)
                 /\ Members(s) \cap Members(t) = {}
                 => HasIn(P, n, r, t)
<1> DEFINE n == QueuePush(m, q, x)
           last == m.tail[q]
<1>1. /\ s \in Seq(P) /\ Len(s) \in Nat /\ Chain(m, q, s) /\ Distinct(s)
      /\ DOMAIN s = 1..Len(s)
      /\ \A i \in 1..Len(s) : s[i] \in P /\ s[i] # x
  BY DEF HasIn, Members, Chain
<1>2. /\ m.head \in [Q -> PointerTo(P)] /\ m.tail \in [Q -> PointerTo(P)]
      /\ m.next \in [P -> PointerTo(P)] /\ m.prev \in [P -> PointerTo(P)]
  BY DEF MemoryOn
<1>3. /\ Append(s, x) \in Seq(P) /\ Distinct(Append(s, x))
      /\ Len(Append(s, x)) = Len(s) + 1
      /\ \A i \in 1..Len(s) : Append(s, x)[i] = s[i]
      /\ Append(s, x)[Len(s) + 1] = x
  BY <1>1, AppendFacts
<1>0. m \in [head : [Q -> PointerTo(P)], tail : [Q -> PointerTo(P)],
             next : [P -> PointerTo(P)],    prev : [P -> PointerTo(P)]]
  BY DEF MemoryOn
<1>4. CASE s = <<>>
  <2>1. n = [m EXCEPT !.head[q] = x, !.tail[q] = x,
                      !.next[x] = Null, !.prev[x] = Null]
    BY <1>1, <1>4 DEF IsEmpty, QueuePush, Chain, Visits
  <2>2. /\ n.head = [m.head EXCEPT ![q] = x] /\ n.tail = [m.tail EXCEPT ![q] = x]
        /\ n.next = [m.next EXCEPT ![x] = Null] /\ n.prev = [m.prev EXCEPT ![x] = Null]
        /\ n \in MemoryOn(P, Q)
    <3>1. n.head = [m.head EXCEPT ![q] = x] /\ n.tail = [m.tail EXCEPT ![q] = x]
      BY <1>0, <2>1
    <3>2. n.next = [m.next EXCEPT ![x] = Null] /\ n.prev = [m.prev EXCEPT ![x] = Null]
      BY <1>0, <2>1
    <3>3. n \in MemoryOn(P, Q)
      <4>1. n = [head |-> n.head, tail |-> n.tail, next |-> n.next, prev |-> n.prev]
        BY <1>0, <2>1
      <4>2. /\ n.head \in [Q -> PointerTo(P)] /\ n.tail \in [Q -> PointerTo(P)]
            /\ n.next \in [P -> PointerTo(P)] /\ n.prev \in [P -> PointerTo(P)]
        BY <1>2, <3>1, <3>2 DEF PointerTo
      <4> HIDE DEF n
      <4>3. QED  BY <4>1, <4>2 DEF MemoryOn
    <3>4. QED  BY <3>1, <3>2, <3>3
  <2> HIDE DEF n
  <2>3. HasIn(P, n, q, Append(s, x))
    BY <1>2, <1>3, <1>4, <2>2 DEF HasIn, Chain, Visits
  <2>4. ASSUME NEW r \in Q, NEW t \in Seq(P), HasIn(P, m, r, t), r # q,
               x \notin Members(t)
        PROVE  HasIn(P, n, r, t)
    <3>1. \A y \in Members(t) : n.next[y] = m.next[y] /\ n.prev[y] = m.prev[y]
      BY <1>2, <2>2, <2>4
    <3>2. n.head[r] = m.head[r] /\ n.tail[r] = m.tail[r]
      BY <1>2, <2>2, <2>4
    <3>3. QED  BY <2>4, <3>1, <3>2, Frame DEF HasIn
  <2>5. QED  BY <2>2, <2>3, <2>4 DEF n
<1>5. CASE s # <<>>
  <2>1. /\ Len(s) >= 1 /\ last = s[Len(s)] /\ last # x /\ last \in P
        /\ last \in Members(s) /\ m.head[q] = s[1] /\ m.head[q] # Null
    BY <1>1, <1>5 DEF Chain, Visits, Members
  <2>2. n = [m EXCEPT !.next = [@ EXCEPT ![m.tail[q]] = x, ![x] = Null],
                      !.prev[x] = m.tail[q], !.tail[q] = x]
    BY <2>1 DEF IsEmpty, QueuePush
  <2>3. /\ n.head = m.head /\ n.tail = [m.tail EXCEPT ![q] = x]
        /\ n.next = [m.next EXCEPT ![last] = x, ![x] = Null]
        /\ n.prev = [m.prev EXCEPT ![x] = last]
        /\ n \in MemoryOn(P, Q)
    <3>1. n.head = m.head /\ n.tail = [m.tail EXCEPT ![q] = x]
      BY <1>0, <2>2
    <3>2. n.next = [m.next EXCEPT ![last] = x, ![x] = Null]
      BY <1>0, <2>2
    <3>3. n.prev = [m.prev EXCEPT ![x] = last]
      BY <1>0, <2>2
    <3>4. n \in MemoryOn(P, Q)
      <4>1. n = [head |-> n.head, tail |-> n.tail, next |-> n.next, prev |-> n.prev]
        BY <1>0, <2>2
      <4>2. /\ n.head \in [Q -> PointerTo(P)] /\ n.tail \in [Q -> PointerTo(P)]
            /\ n.next \in [P -> PointerTo(P)] /\ n.prev \in [P -> PointerTo(P)]
        BY <1>2, <2>1, <3>1, <3>2, <3>3 DEF PointerTo
      <4> HIDE DEF n
      <4>3. QED  BY <4>1, <4>2 DEF MemoryOn
    <3>5. QED  BY <3>1, <3>2, <3>3, <3>4
  <2> HIDE DEF n, last
  <2>4. /\ n.next[x] = Null /\ n.prev[x] = last /\ n.next[last] = x
        /\ \A y \in P \ {x, last} : n.next[y] = m.next[y]
        /\ \A y \in P \ {x} : n.prev[y] = m.prev[y]
        /\ n.tail[q] = x /\ n.head[q] = s[1]
    BY <1>2, <2>1, <2>3
  <2>5. \A i \in 1..(Len(s) - 1) : n.next[s[i]] = s[i + 1]
    <3> SUFFICES ASSUME NEW i \in 1..(Len(s) - 1) PROVE n.next[s[i]] = s[i + 1]
      OBVIOUS
    <3>1. s[i] # last /\ s[i] # x /\ s[i] \in P
      BY <1>1, <2>1 DEF Distinct
    <3>2. QED  BY <1>1, <1>5, <2>4, <3>1 DEF Chain, Visits
  <2>6. Visits(n, q, Append(s, x))
    <3>1. Append(s, x) # <<>> /\ Append(s, x)[1] = s[1]
      BY <1>1, <1>3, <2>1
    <3>2. \A i \in 1..Len(s) : n.next[Append(s, x)[i]] = Append(s, x)[i + 1]
      BY <1>1, <1>3, <2>1, <2>4, <2>5
    <3>3. QED  BY <1>1, <1>3, <2>4, <3>1, <3>2 DEF Visits
  <2>7. \A i \in DOMAIN Append(s, x) :
          n.prev[Append(s, x)[i]] = IF i = 1 THEN Null ELSE Append(s, x)[i - 1]
    BY <1>1, <1>3, <2>1, <2>4 DEF Chain
  <2>8. HasIn(P, n, q, Append(s, x))
    <3>1. Append(s, x) # <<>> /\ Append(s, x)[Len(Append(s, x))] = x
      BY <1>1, <1>3
    <3>2. QED  BY <1>3, <2>4, <2>6, <2>7, <3>1 DEF HasIn, Chain
  <2>9. ASSUME NEW r \in Q, NEW t \in Seq(P), HasIn(P, m, r, t), r # q,
               x \notin Members(t), Members(s) \cap Members(t) = {}
        PROVE  HasIn(P, n, r, t)
    <3>1. \A y \in Members(t) : y \in P /\ y # x /\ y # last
      BY <2>1, <2>9 DEF Members
    <3>2. n.head[r] = m.head[r] /\ n.tail[r] = m.tail[r]
      BY <1>2, <2>3, <2>9
    <3>3. QED  BY <2>4, <2>9, <3>1, <3>2, Frame DEF HasIn
  <2>10. QED  BY <2>3, <2>8, <2>9 DEF n
<1>6. QED  BY <1>4, <1>5
\* queue_remove of the item at place k of s.
LEMMA RemoveFields ==
  ASSUME NEW P, NEW Q, Null \notin P, NEW m \in MemoryOn(P, Q), NEW q \in Q, NEW s, NEW k,
         HasIn(P, m, q, s), k \in DOMAIN s
  PROVE  LET n == QueueRemove(m, q, s[k])
             p == IF k = 1 THEN Null ELSE s[k - 1]
             w == IF k = Len(s) THEN Null ELSE s[k + 1]
         IN /\ n \in MemoryOn(P, Q)
            /\ m.next[s[k]] = w
            /\ n.head = IF k = 1 THEN [m.head EXCEPT ![q] = w] ELSE m.head
            /\ n.tail = IF k = Len(s) THEN [m.tail EXCEPT ![q] = p] ELSE m.tail
            /\ p # Null => n.next[p] = w
            /\ w # Null => n.prev[w] = p
            /\ \A y \in P \ {s[k], p} : n.next[y] = m.next[y]
            /\ \A y \in P \ {s[k], w} : n.prev[y] = m.prev[y]
<1> DEFINE x == s[k]
           u == Unlink(m, q, x)
           n == QueueRemove(m, q, x)
           p == IF k = 1 THEN Null ELSE s[k - 1]
           w == IF k = Len(s) THEN Null ELSE s[k + 1]
<1>1. /\ s \in Seq(P) /\ Len(s) \in Nat /\ Chain(m, q, s)
      /\ DOMAIN s = 1..Len(s) /\ k \in 1..Len(s) /\ s # <<>>
      /\ \A i \in 1..Len(s) : s[i] \in P
      /\ \A i, j \in 1..Len(s) : s[i] = s[j] => i = j
  BY DEF HasIn, Chain, Distinct
<1>2. /\ m.head \in [Q -> PointerTo(P)] /\ m.tail \in [Q -> PointerTo(P)]
      /\ m.next \in [P -> PointerTo(P)] /\ m.prev \in [P -> PointerTo(P)]
      /\ m \in [head : [Q -> PointerTo(P)], tail : [Q -> PointerTo(P)],
                next : [P -> PointerTo(P)],    prev : [P -> PointerTo(P)]]
  BY DEF MemoryOn
<1>3. /\ x \in P /\ m.next[x] = w /\ m.prev[x] = p
      /\ m.head[q] = s[1] /\ m.tail[q] = s[Len(s)]
      /\ x = m.head[q] <=> k = 1
      /\ x = m.tail[q] <=> k = Len(s)
      /\ p \in PointerTo(P) /\ w \in PointerTo(P)
      /\ p = Null <=> k = 1
      /\ w = Null <=> k = Len(s)
      /\ p # x /\ w # x /\ (p = w => p = Null)
  BY <1>1 DEF Chain, Visits, PointerTo
<1>4. n = [u EXCEPT !.next[x] = Null, !.prev[x] = Null]
  BY DEF QueueRemove
<1> DEFINE uhead == IF k = 1 THEN [m.head EXCEPT ![q] = w] ELSE m.head
           utail == IF k = Len(s) THEN [m.tail EXCEPT ![q] = p] ELSE m.tail
           unext == IF k = 1 THEN m.next ELSE [m.next EXCEPT ![p] = w]
           uprev == IF k = Len(s) THEN m.prev ELSE [m.prev EXCEPT ![w] = p]
<1> HIDE DEF x, p, w, n
<1>5. u = [head |-> uhead, tail |-> utail, next |-> unext, prev |-> uprev]
  <2>1. CASE k = 1 /\ k = Len(s)
    <3>1. u = [m EXCEPT !.head[q] = Null, !.tail[q] = Null]
      BY <1>3, <2>1 DEF Unlink
    <3> HIDE DEF u
    <3>2. QED  BY <1>2, <1>3, <2>1, <3>1
  <2>2. CASE k = 1 /\ k # Len(s)
    <3>1. u = [m EXCEPT !.head[q] = w, !.prev[w] = Null]
      BY <1>3, <2>2 DEF Unlink
    <3> HIDE DEF u
    <3>2. QED  BY <1>2, <1>3, <2>2, <3>1
  <2>3. CASE k # 1 /\ k = Len(s)
    <3>1. u = [m EXCEPT !.tail[q] = p, !.next[p] = Null]
      BY <1>3, <2>3 DEF Unlink
    <3> HIDE DEF u
    <3>2. QED  BY <1>2, <1>3, <2>3, <3>1
  <2>4. CASE k # 1 /\ k # Len(s)
    <3>1. u = [m EXCEPT !.next[p] = w, !.prev[w] = p]
      BY <1>3, <2>4 DEF Unlink
    <3> HIDE DEF u
    <3>2. QED  BY <1>2, <1>3, <2>4, <3>1
  <2>5. QED  BY <2>1, <2>2, <2>3, <2>4
<1> HIDE DEF u
<1>6. /\ uhead \in [Q -> PointerTo(P)] /\ utail \in [Q -> PointerTo(P)]
      /\ unext \in [P -> PointerTo(P)] /\ uprev \in [P -> PointerTo(P)]
  BY <1>2, <1>3 DEF PointerTo
<1>7. /\ k # 1 => unext[p] = w
      /\ k # Len(s) => uprev[w] = p
      /\ \A y \in P \ {x, p} : unext[y] = m.next[y]
      /\ \A y \in P \ {x, w} : uprev[y] = m.prev[y]
  BY <1>2, <1>3 DEF PointerTo
<1> HIDE DEF uhead, utail, unext, uprev
<1>8. n = [head |-> uhead, tail |-> utail, next |-> [unext EXCEPT ![x] = Null],
           prev |-> [uprev EXCEPT ![x] = Null]]
  BY <1>4, <1>5
<1>9. n \in MemoryOn(P, Q)
  <2>1. /\ [unext EXCEPT ![x] = Null] \in [P -> PointerTo(P)]
        /\ [uprev EXCEPT ![x] = Null] \in [P -> PointerTo(P)]
    BY <1>6 DEF PointerTo
  <2>2. QED  BY <1>6, <1>8, <2>1 DEF MemoryOn
<1>10. /\ n.head = uhead /\ n.tail = utail
       /\ n.next = [unext EXCEPT ![x] = Null]
       /\ n.prev = [uprev EXCEPT ![x] = Null]
  BY <1>8
<1>11. /\ p # Null => n.next[p] = w
       /\ w # Null => n.prev[w] = p
       /\ \A y \in P \ {x, p} : n.next[y] = m.next[y]
       /\ \A y \in P \ {x, w} : n.prev[y] = m.prev[y]
  BY <1>3, <1>6, <1>7, <1>10 DEF PointerTo
<1>12. QED
  BY <1>3, <1>9, <1>10, <1>11 DEF x, p, w, n, uhead, utail

LEMMA RemoveList ==
  ASSUME NEW P, NEW Q, Null \notin P, NEW m \in MemoryOn(P, Q), NEW q \in Q, NEW s, NEW k,
         HasIn(P, m, q, s), k \in DOMAIN s
  PROVE  LET n == QueueRemove(m, q, s[k])
         IN /\ n \in MemoryOn(P, Q)
            /\ HasIn(P, n, q, Without(s, k))
            /\ \A r \in Q, t \in Seq(P) :
                 /\ HasIn(P, m, r, t) /\ r # q
                 /\ Members(s) \cap Members(t) = {}
                 => HasIn(P, n, r, t)
<1> DEFINE x == s[k]
           n == QueueRemove(m, q, x)
           p == IF k = 1 THEN Null ELSE s[k - 1]
           w == IF k = Len(s) THEN Null ELSE s[k + 1]
           o == Without(s, k)
<1>1. /\ s \in Seq(P) /\ Len(s) \in Nat /\ Chain(m, q, s)
      /\ DOMAIN s = 1..Len(s) /\ k \in 1..Len(s) /\ s # <<>>
      /\ \A i \in 1..Len(s) : s[i] \in P
      /\ \A i, j \in 1..Len(s) : s[i] = s[j] => i = j
      /\ Distinct(s)
  BY DEF HasIn, Chain, Distinct
<1>2. /\ n \in MemoryOn(P, Q)
      /\ m.next[x] = w
      /\ n.head = IF k = 1 THEN [m.head EXCEPT ![q] = w] ELSE m.head
      /\ n.tail = IF k = Len(s) THEN [m.tail EXCEPT ![q] = p] ELSE m.tail
      /\ p # Null => n.next[p] = w
      /\ w # Null => n.prev[w] = p
      /\ \A y \in P \ {x, p} : n.next[y] = m.next[y]
      /\ \A y \in P \ {x, w} : n.prev[y] = m.prev[y]
  BY RemoveFields
<1> HIDE DEF n
<1>3. m.head \in [Q -> PointerTo(P)] /\ m.tail \in [Q -> PointerTo(P)]
  BY DEF MemoryOn
<1>4. /\ o \in Seq(P) /\ Distinct(o)
      /\ Len(o) = Len(s) - 1 /\ DOMAIN o = 1..(Len(s) - 1)
      /\ \A i \in 1..(Len(s) - 1) : o[i] = IF i < k THEN s[i] ELSE s[i + 1]
  <2>1. o \in Seq(P) /\ Distinct(o)
    BY <1>1, WithoutFacts
  <2>2. /\ Len(o) = Len(s) - 1
        /\ \A i \in 1..(Len(s) - 1) : o[i] = IF i < k THEN s[i] ELSE s[i + 1]
    <3>1. s \in Seq(P)
      BY <1>1
    <3>2. QED  BY <3>1, WithoutPlaces, Zenon
  <2>3. DOMAIN o = 1..Len(o)
    BY <2>1
  <2>4. QED  BY <2>1, <2>2, <2>3
<1> HIDE DEF o
<1>5. /\ \A i \in 1..Len(s) : /\ i # k /\ i # k - 1 => n.next[s[i]] = m.next[s[i]]
                              /\ i # k /\ i # k + 1 => n.prev[s[i]] = m.prev[s[i]]
      /\ k > 1 => n.next[s[k - 1]] = w
      /\ k < Len(s) => n.prev[s[k + 1]] = p
  BY <1>1, <1>2
<1>6. /\ m.head[q] = s[1] /\ m.tail[q] = s[Len(s)]
      /\ \A i \in 1..(Len(s) - 1) : m.next[s[i]] = s[i + 1]
      /\ m.next[s[Len(s)]] = Null
      /\ \A i \in 1..Len(s) : m.prev[s[i]] = IF i = 1 THEN Null ELSE s[i - 1]
  BY <1>1 DEF Chain, Visits
<1>7. Visits(n, q, o)
  <2>1. n.head[q] = IF k = 1 THEN w ELSE s[1]
    BY <1>2, <1>3, <1>6
  <2>2. CASE Len(s) = 1
    <3>1. o = <<>> /\ k = 1
      BY <1>1, <1>4, <2>2
    <3>2. QED  BY <2>1, <2>2, <3>1 DEF Visits
  <2>3. CASE Len(s) > 1
    <3>1. o # <<>> /\ n.head[q] = o[1]
      BY <1>1, <1>4, <2>1, <2>3
    <3>2. ASSUME NEW i \in 1..(Len(o) - 1) PROVE n.next[o[i]] = o[i + 1]
      <4>0. /\ i \in Int /\ 1 <= i /\ i < Len(s) - 1 /\ k \in Int
            /\ i \in 1..(Len(s) - 1) /\ i + 1 \in 1..(Len(s) - 1)
        BY <1>1, <1>4
      <4>1. CASE i + 1 < k
        <5>1. o[i] = s[i] /\ o[i + 1] = s[i + 1]
          BY <1>4, <4>0, <4>1
        <5>2. i \in 1..Len(s) /\ i # k /\ i # k - 1
          BY <1>1, <4>0, <4>1
        <5>3. n.next[s[i]] = m.next[s[i]]
          BY <1>5, <5>2
        <5>4. m.next[s[i]] = s[i + 1]
          BY <1>6, <4>0
        <5>5. QED  BY <5>1, <5>3, <5>4
      <4>2. CASE i + 1 = k
        <5>1. o[i] = s[k - 1] /\ o[i + 1] = s[k + 1]
          <6>1. o[i] = s[i] /\ o[i + 1] = s[i + 1 + 1]
            BY <1>4, <4>0, <4>2
          <6>2. i = k - 1 /\ i + 1 + 1 = k + 1
            BY <4>0, <4>2
          <6>3. QED  BY <6>1, <6>2
        <5>2. k > 1 /\ k # Len(s)
          BY <1>1, <4>0, <4>2
        <5>3. n.next[s[k - 1]] = w
          BY <1>5, <5>2
        <5>4. QED  BY <5>1, <5>2, <5>3
      <4>3. CASE i >= k
        <5>1. o[i] = s[i + 1] /\ o[i + 1] = s[i + 1 + 1]
          BY <1>4, <4>0, <4>3
        <5>2. i + 1 \in 1..Len(s) /\ i + 1 # k /\ i + 1 # k - 1
          BY <1>1, <4>0, <4>3
        <5>3. n.next[s[i + 1]] = m.next[s[i + 1]]
          BY <1>5, <5>2
        <5>4. m.next[s[i + 1]] = s[i + 1 + 1]
          BY <1>6, <4>0
        <5>5. QED  BY <5>1, <5>3, <5>4
      <4>4. QED  BY <4>0, <4>1, <4>2, <4>3
    <3>3. n.next[o[Len(o)]] = Null
      <4>1. CASE k = Len(s)
        <5>1. Len(o) = k - 1 /\ o[k - 1] = s[k - 1] /\ k > 1
          BY <1>1, <1>4, <2>3, <4>1
        <5>2. n.next[s[k - 1]] = w /\ w = Null
          BY <1>5, <4>1, <5>1
        <5>3. QED  BY <5>1, <5>2
      <4>2. CASE k < Len(s)
        <5>1. o[Len(o)] = s[Len(s)]
          BY <1>1, <1>4, <2>3, <4>2
        <5>2. Len(s) \in 1..Len(s) /\ Len(s) # k /\ Len(s) # k - 1
          BY <1>1, <4>2
        <5>3. n.next[s[Len(s)]] = m.next[s[Len(s)]]
          BY <1>5, <5>2
        <5>4. QED  BY <1>6, <5>1, <5>3
      <4>3. QED  BY <1>1, <4>1, <4>2
    <3>4. QED  BY <3>1, <3>2, <3>3 DEF Visits
  <2>4. QED  BY <1>1, <2>2, <2>3
<1>8. n.tail[q] = IF o = <<>> THEN Null ELSE o[Len(o)]
  BY <1>1, <1>2, <1>3, <1>4, <1>6
<1>9. ASSUME NEW i \in DOMAIN o PROVE n.prev[o[i]] = IF i = 1 THEN Null ELSE o[i - 1]
  <2>0. /\ i \in Int /\ 1 <= i /\ i < Len(s) /\ k \in Int
        /\ i \in 1..(Len(s) - 1)
    BY <1>1, <1>4
  <2>1. CASE i < k
    <3>1. o[i] = s[i] /\ (i # 1 => o[i - 1] = s[i - 1])
      BY <1>4, <2>0, <2>1
    <3>2. i \in 1..Len(s) /\ i # k /\ i # k + 1
      BY <1>1, <2>0, <2>1
    <3>3. n.prev[s[i]] = m.prev[s[i]]
      BY <1>5, <3>2
    <3>4. m.prev[s[i]] = IF i = 1 THEN Null ELSE s[i - 1]
      BY <1>6, <3>2
    <3>5. QED  BY <3>1, <3>3, <3>4
  <2>2. CASE i = k
    <3>1. o[i] = s[k + 1] /\ (i # 1 => o[i - 1] = s[k - 1])
      BY <1>4, <2>0, <2>2
    <3>2. n.prev[s[k + 1]] = p
      BY <1>1, <1>5, <2>0, <2>2
    <3>3. QED  BY <2>2, <3>1, <3>2
  <2>3. CASE i > k
    <3>1. o[i] = s[i + 1] /\ i # 1
      BY <1>1, <1>4, <2>0, <2>3
    <3>2. o[i - 1] = s[i]
      <4>1. i - 1 \in 1..(Len(s) - 1) /\ ~ (i - 1 < k)
        BY <1>1, <2>0, <2>3
      <4>2. o[i - 1] = s[i - 1 + 1]
        BY <1>4, <4>1
      <4>3. i - 1 + 1 = i
        BY <2>0
      <4>4. QED  BY <4>2, <4>3
    <3>3. i + 1 \in 1..Len(s) /\ i + 1 # k /\ i + 1 # k + 1 /\ i + 1 # 1
      BY <1>1, <2>0, <2>3
    <3>4. n.prev[s[i + 1]] = m.prev[s[i + 1]]
      BY <1>5, <3>3
    <3>5. m.prev[s[i + 1]] = s[i]
      <4>0. m.prev[s[i + 1]] = IF i + 1 = 1 THEN Null ELSE s[i + 1 - 1]
        BY <1>6, <2>0, <3>3
      <4>1. m.prev[s[i + 1]] = s[i + 1 - 1]
        BY <3>3, <4>0
      <4>2. i + 1 - 1 = i
        BY <2>0
      <4>3. QED  BY <4>1, <4>2
    <3>6. QED  BY <3>1, <3>2, <3>4, <3>5
  <2>4. QED  BY <2>0, <2>1, <2>2, <2>3
<1>10. HasIn(P, n, q, o)
  BY <1>4, <1>7, <1>8, <1>9 DEF HasIn, Chain
<1>11. ASSUME NEW r \in Q, NEW t \in Seq(P), HasIn(P, m, r, t), r # q,
              Members(s) \cap Members(t) = {}
       PROVE  HasIn(P, n, r, t)
  <2>0. x \in Members(s) /\ p \in Members(s) \cup {Null} /\ w \in Members(s) \cup {Null}
    BY <1>1 DEF Members
  <2>1. \A y \in Members(t) : y \in P /\ y # x /\ y # p /\ y # w
    <3>1. Members(t) \subseteq P
      BY <1>11 DEF Members
    <3>2. QED  BY <1>11, <2>0, <3>1
  <2>2. n.head[r] = m.head[r] /\ n.tail[r] = m.tail[r]
    BY <1>2, <1>3, <1>11
  <2>3. \A y \in Members(t) : n.next[y] = m.next[y] /\ n.prev[y] = m.prev[y]
    BY <1>2, <2>1
  <2>4. Chain(m, r, t)
    BY <1>11 DEF HasIn
  <2>5. Chain(n, r, t)
    BY <2>2, <2>3, <2>4, Frame
  <2>6. QED  BY <1>11, <2>5 DEF HasIn
<1>12. QED  BY <1>2, <1>10, <1>11 DEF n, o

\* queue_dequeue does what queue_remove of the head does.
LEMMA DequeueIsRemove ==
  ASSUME NEW P, NEW Q, Null \notin P, NEW m \in MemoryOn(P, Q), NEW q \in Q, NEW s, HasIn(P, m, q, s), s # <<>>
  PROVE  QueueDequeue(m, q) = QueueRemove(m, q, s[1])
<1> DEFINE x == s[1]
<1>0. Len(s) \in Nat /\ Len(s) >= 1
  BY DEF HasIn
<1>1. /\ s \in Seq(P) /\ Chain(m, q, s)
      /\ \A i \in 1..Len(s) : s[i] \in P
      /\ \A i, j \in 1..Len(s) : s[i] = s[j] => i = j
  BY DEF HasIn, Chain, Distinct
<1> HIDE DEF x
<1>2. /\ m.head[q] = x /\ m.tail[q] = s[Len(s)] /\ x \in P
      /\ m.next[x] = IF Len(s) = 1 THEN Null ELSE s[2]
      /\ x = m.tail[q] <=> Len(s) = 1
  <2>1. /\ m.head[q] = s[1] /\ m.tail[q] = s[Len(s)]
        /\ \A i \in 1..(Len(s) - 1) : m.next[s[i]] = s[i + 1]
        /\ m.next[s[Len(s)]] = Null
    BY <1>1 DEF Chain, Visits
  <2>2. m.next[s[1]] = IF Len(s) = 1 THEN Null ELSE s[2]
    <3>1. CASE Len(s) = 1
      BY <2>1, <3>1
    <3>2. CASE Len(s) > 1
      <4>1. 1 \in 1..(Len(s) - 1)
        BY <1>0, <3>2
      <4>2. m.next[s[1]] = s[1 + 1]
        BY <2>1, <4>1
      <4>3. QED  BY <3>2, <4>2
    <3>3. Len(s) = 1 \/ Len(s) > 1
      <4>1. \A n \in Nat : n >= 1 => n = 1 \/ n > 1
        OBVIOUS
      <4>2. QED  BY <1>0, <4>1, Zenon
    <3>4. QED  BY <3>1, <3>2, <3>3
  <2>3. s[1] = s[Len(s)] <=> Len(s) = 1
    <3>1. 1 \in 1..Len(s) /\ Len(s) \in 1..Len(s)
      BY <1>0
    <3>2. QED  BY <1>1, <3>1
  <2>4. s[1] \in P
    BY <1>0, <1>1
  <2>5. QED  BY <2>1, <2>2, <2>3, <2>4 DEF x
<1>3. m \in [head : [Q -> PointerTo(P)], tail : [Q -> PointerTo(P)],
             next : [P -> PointerTo(P)],    prev : [P -> PointerTo(P)]]
  BY DEF MemoryOn
<1>4. CASE Len(s) = 1
  <2>1. QueueDequeue(m, q) = [m EXCEPT !.head[q] = Null, !.tail[q] = Null,
                                       !.next[x] = Null, !.prev[x] = Null]
    BY <1>2, <1>4 DEF QueueDequeue
  <2>2. Unlink(m, q, x) = [m EXCEPT !.head[q] = Null, !.tail[q] = Null]
    BY <1>2, <1>4 DEF Unlink
  <2>3. QED  BY <1>3, <2>1, <2>2 DEF QueueRemove, x
<1>5. CASE Len(s) > 1
  <2>1. m.next[x] = s[2] /\ s[2] \in P /\ s[2] # Null
    <3>1. 2 \in 1..Len(s)
      BY <1>0, <1>5
    <3>2. QED  BY <1>1, <1>2, <1>5, <3>1
  <2>2. QueueDequeue(m, q) =
          [head |-> [m.head EXCEPT ![q] = s[2]], tail |-> m.tail,
           next |-> [m.next EXCEPT ![x] = Null],
           prev |-> [m.prev EXCEPT ![s[2]] = Null, ![x] = Null]]
    BY <1>2, <1>3, <2>1 DEF QueueDequeue
  <2> DEFINE h == [m.head EXCEPT ![q] = s[2]]
             f == [m.prev EXCEPT ![s[2]] = Null]
             u == Unlink(m, q, x)
  <2>3. u = [head |-> h, tail |-> m.tail, next |-> m.next, prev |-> f]
    BY <1>2, <1>3, <1>5, <2>1 DEF Unlink
  <2>4. QueueRemove(m, q, x) = [u EXCEPT !.next[x] = Null, !.prev[x] = Null]
    BY DEF QueueRemove
  <2> HIDE DEF h, f, u
  <2>5. QueueRemove(m, q, x) =
          [head |-> h, tail |-> m.tail,
           next |-> [m.next EXCEPT ![x] = Null], prev |-> [f EXCEPT ![x] = Null]]
    BY <2>3, <2>4
  <2>6. QED  BY <2>2, <2>5 DEF x, h, f
<1>6. QED  BY <1>0, <1>4, <1>5

-----------------------------------------------------------------------------
(* The same of the items and lists of this module.                         *)

Has(m, q, s) == HasIn(Pcb, m, q, s)

LEMMA Here == Memory = MemoryOn(Pcb, QueueT) /\ Null \notin Pcb
BY LinksAssumption DEF Memory, MemoryOn, Pointer, PointerTo

LEMMA PushHere ==
  ASSUME NEW m \in Memory, NEW q \in QueueT, NEW x \in Pcb, NEW s,
         Has(m, q, s), x \notin Members(s)
  PROVE  LET n == QueuePush(m, q, x)
         IN /\ n \in Memory
            /\ Has(n, q, Append(s, x))
            /\ \A r \in QueueT, t \in Seq(Pcb) :
                 /\ Has(m, r, t) /\ r # q /\ x \notin Members(t)
                 /\ Members(s) \cap Members(t) = {}
                 => Has(n, r, t)
BY Here, PushList DEF Has

LEMMA RemoveHere ==
  ASSUME NEW m \in Memory, NEW q \in QueueT, NEW s, NEW k,
         Has(m, q, s), k \in DOMAIN s
  PROVE  LET n == QueueRemove(m, q, s[k])
         IN /\ n \in Memory
            /\ Has(n, q, Without(s, k))
            /\ \A r \in QueueT, t \in Seq(Pcb) :
                 /\ Has(m, r, t) /\ r # q
                 /\ Members(s) \cap Members(t) = {}
                 => Has(n, r, t)
BY Here, RemoveList DEF Has

LEMMA DequeueHere ==
  ASSUME NEW m \in Memory, NEW q \in QueueT, NEW s, Has(m, q, s), s # <<>>
  PROVE  QueueDequeue(m, q) = QueueRemove(m, q, s[1])
BY Here, DequeueIsRemove DEF Has

-----------------------------------------------------------------------------
(* The invariant, and what each step does to the queues the lists stand    *)
(* for.                                                                    *)

Walked(m) == [q \in QueueT |-> Walk(m, q)]

Lists(m) == \A q \in QueueT : Has(m, q, Walk(m, q))

Unshared(l) ==
  \A q, r \in QueueT : q # r => Members(l[q]) \cap Members(l[r]) = {}

ListsInv == TypeOK /\ Lists(mem) /\ Unshared(Walked(mem))

LEMMA WalkedIs ==
  ASSUME NEW n \in Memory, NEW l, l = [q \in QueueT |-> l[q]],
         \A q \in QueueT : Has(n, q, l[q])
  PROVE  Walked(n) = l /\ Lists(n)
<1>1. \A q \in QueueT : Walk(n, q) = l[q]
  BY WalkIs DEF Has, HasIn, Chain
<1>2. QED  BY <1>1 DEF Walked, Lists

LEMMA InvIsWellFormed == ListsInv => WellFormed
<1> SUFFICES ASSUME ListsInv PROVE WellFormed
  OBVIOUS
<1>1. ASSUME NEW q \in QueueT
      PROVE  Walk(mem, q) \in Walks /\ Chain(mem, q, Walk(mem, q))
  <2>1. Walk(mem, q) \in Seq(Pcb) /\ Chain(mem, q, Walk(mem, q)) /\ mem \in Memory
    BY DEF ListsInv, TypeOK, Lists, Has, HasIn
  <2>2. QED  BY <2>1, WalkIs DEF Chain
<1>2. QED  BY <1>1 DEF ListsInv, Unshared, Walked, WellFormed

LEMMA ListsInitFacts ==
  ASSUME InitLists
  PROVE  ListsInv /\ Walked(mem) = [q \in QueueT |-> <<>>]
<1> DEFINE l == [q \in QueueT |-> <<>>]
<1>1. mem \in Memory /\ ret \in Pointer
  BY DEF InitLists, Memory, Pointer
<1>2. \A q \in QueueT : Has(mem, q, l[q])
  BY DEF InitLists, Has, HasIn, Chain, Visits, Distinct
<1>3. Walked(mem) = l /\ Lists(mem)
  BY <1>1, <1>2, WalkedIs
<1>4. Unshared(l)
  BY DEF Unshared, Members
<1>5. QED  BY <1>1, <1>3, <1>4 DEF ListsInv, TypeOK

LEMMA PushStep ==
  ASSUME ListsInv, NEW q \in QueueT, NEW x \in Pcb, Push(q, x)
  PROVE  /\ ListsInv'
         /\ Walked(mem') = [Walked(mem) EXCEPT ![q] = Append(@, x)]
<1> DEFINE s == Walk(mem, q)
           l == [Walked(mem) EXCEPT ![q] = Append(@, x)]
<1>1. /\ mem \in Memory /\ ret \in Pointer /\ ret' = ret
      /\ \A r \in QueueT : Has(mem, r, Walk(mem, r)) /\ x \notin Members(Walk(mem, r))
      /\ \A r \in QueueT : r # q => Members(s) \cap Members(Walk(mem, r)) = {}
      /\ \A r \in QueueT : Walk(mem, r) \in Seq(Pcb)
      /\ mem' = QueuePush(mem, q, x)
  BY DEF ListsInv, TypeOK, Lists, Unshared, Walked, Push, InQueue, Has, HasIn
<1>2. /\ mem' \in Memory
      /\ Has(mem', q, Append(s, x))
      /\ \A r \in QueueT : r # q => Has(mem', r, Walk(mem, r))
  BY <1>1, PushHere
<1>3. \A r \in QueueT : l[r] = IF r = q THEN Append(s, x) ELSE Walk(mem, r)
  BY DEF Walked
<1>4. l = [r \in QueueT |-> l[r]]
  BY DEF Walked
<1>5. \A r \in QueueT : Has(mem', r, l[r])
  BY <1>2, <1>3
<1> HIDE DEF l
<1>6. Walked(mem') = l /\ Lists(mem')
  BY <1>2, <1>4, <1>5, WalkedIs
<1>7. Members(Append(s, x)) = Members(s) \cup {x}
  BY <1>1, AppendFacts
<1>8. Unshared(l)
  <2> SUFFICES ASSUME NEW a \in QueueT, NEW b \in QueueT, a # b
               PROVE  Members(l[a]) \cap Members(l[b]) = {}
    BY DEF Unshared
  <2>1. Members(Walk(mem, a)) \cap Members(Walk(mem, b)) = {}
    BY DEF ListsInv, Unshared, Walked
  <2>2. x \notin Members(Walk(mem, a)) /\ x \notin Members(Walk(mem, b))
    BY <1>1
  <2>3. QED  BY <1>3, <1>7, <2>1, <2>2
<1>9. ListsInv'
  BY <1>1, <1>2, <1>6, <1>8 DEF ListsInv, TypeOK
<1>10. QED  BY <1>6, <1>9 DEF l

LEMMA TakeStep ==
  ASSUME ListsInv, NEW q \in QueueT, NEW k \in DOMAIN Walk(mem, q),
         mem' = QueueRemove(mem, q, Walk(mem, q)[k]), ret' \in Pointer
  PROVE  /\ ListsInv'
         /\ Walked(mem') = [Walked(mem) EXCEPT ![q] = Without(@, k)]
<1> DEFINE s == Walk(mem, q)
           l == [Walked(mem) EXCEPT ![q] = Without(@, k)]
<1>1. /\ mem \in Memory
      /\ \A r \in QueueT : Has(mem, r, Walk(mem, r)) /\ Walk(mem, r) \in Seq(Pcb)
      /\ \A r \in QueueT : r # q => Members(s) \cap Members(Walk(mem, r)) = {}
      /\ Distinct(s)
  BY DEF ListsInv, TypeOK, Lists, Unshared, Walked, Has, HasIn, Chain
<1>2. /\ mem' \in Memory
      /\ Has(mem', q, Without(s, k))
      /\ \A r \in QueueT : r # q => Has(mem', r, Walk(mem, r))
  BY <1>1, RemoveHere
<1>3. \A r \in QueueT : l[r] = IF r = q THEN Without(s, k) ELSE Walk(mem, r)
  BY DEF Walked
<1>4. l = [r \in QueueT |-> l[r]]
  BY DEF Walked
<1>5. \A r \in QueueT : Has(mem', r, l[r])
  BY <1>2, <1>3
<1> HIDE DEF l
<1>6. Walked(mem') = l /\ Lists(mem')
  BY <1>2, <1>4, <1>5, WalkedIs
<1>7. Members(Without(s, k)) \subseteq Members(s)
  BY <1>1, WithoutFacts
<1>8. Unshared(l)
  <2> SUFFICES ASSUME NEW a \in QueueT, NEW b \in QueueT, a # b
               PROVE  Members(l[a]) \cap Members(l[b]) = {}
    BY DEF Unshared
  <2>1. Members(Walk(mem, a)) \cap Members(Walk(mem, b)) = {}
    BY DEF ListsInv, Unshared, Walked
  <2>2. QED  BY <1>3, <1>7, <2>1
<1>9. ListsInv'
  BY <1>2, <1>6, <1>8 DEF ListsInv, TypeOK
<1>10. QED  BY <1>6, <1>9 DEF l

-----------------------------------------------------------------------------
(* Every step is a step of Fifo or a stutter.                              *)

LEMMA ResetStep ==
  ASSUME ListsInv, NEW q \in QueueT, Reset(q)
  PROVE  mem' = mem /\ ret' = ret
<1>1. /\ mem \in [head : [QueueT -> Pointer], tail : [QueueT -> Pointer],
                  next : [Pcb -> Pointer],    prev : [Pcb -> Pointer]]
      /\ Has(mem, q, Walk(mem, q))
      /\ mem.head[q] = Null
      /\ mem' = [mem EXCEPT !.head[q] = Null, !.tail[q] = Null]
      /\ ret' = ret
  BY DEF ListsInv, TypeOK, Memory, Lists, Reset, IsEmpty, QueueInit
<1>2. Walk(mem, q) = <<>>
  <2> DEFINE s == Walk(mem, q)
  <2>1. s \in Seq(Pcb) /\ Visits(mem, q, s)
    BY <1>1 DEF Has, HasIn, Chain
  <2> HIDE DEF s
  <2>2. s # <<>> => s[1] \in Pcb /\ mem.head[q] = s[1]
    BY <2>1 DEF Visits
  <2>3. s = <<>>
    BY <1>1, <2>2, LinksAssumption
  <2>4. QED  BY <2>3 DEF s
<1>3. mem.tail[q] = Null
  BY <1>1, <1>2 DEF Has, HasIn, Chain
<1>4. mem' = mem
  BY <1>1, <1>3
<1>5. QED  BY <1>1, <1>4

LEMMA DequeueStep ==
  ASSUME ListsInv, NEW q \in QueueT, Dequeue(q)
  PROVE  /\ ListsInv' /\ Walk(mem, q) # <<>>
         /\ ret' = Head(Walk(mem, q))
         /\ Walked(mem') = [Walked(mem) EXCEPT ![q] = Tail(@)]
<1> DEFINE s == Walk(mem, q)
<1>1. /\ mem \in Memory /\ Has(mem, q, s) /\ s \in Seq(Pcb) /\ Visits(mem, q, s)
      /\ mem.head[q] # Null /\ ret' = mem.head[q]
      /\ mem' = QueueDequeue(mem, q)
  BY DEF ListsInv, TypeOK, Lists, Has, HasIn, Chain, Dequeue, IsEmpty, Dequeued
<1> HIDE DEF s
<1>2. s # <<>> /\ mem.head[q] = s[1] /\ s[1] \in Pcb /\ Head(s) = s[1]
  BY <1>1 DEF Visits
<1>3. mem' = QueueRemove(mem, q, s[1])
  BY <1>1, <1>2, DequeueHere
<1>4. 1 \in DOMAIN s /\ Without(s, 1) = Tail(s)
  BY <1>1, <1>2, WithoutHead
<1>5. ListsInv' /\ Walked(mem') = [Walked(mem) EXCEPT ![q] = Without(@, 1)]
  BY <1>1, <1>2, <1>3, <1>4, TakeStep DEF s, Pointer
<1>6. Walked(mem)[q] = s
  BY DEF s, Walked
<1>7. QED  BY <1>1, <1>2, <1>4, <1>5, <1>6 DEF s

LEMMA RemoveStep ==
  ASSUME ListsInv, NEW q \in QueueT, NEW x \in Pcb, Remove(q, x)
  PROVE  /\ ListsInv'
         /\ \E k \in DOMAIN Walk(mem, q) :
              /\ ret' = IF k = Len(Walk(mem, q)) THEN Null ELSE Walk(mem, q)[k + 1]
              /\ Walked(mem') = [Walked(mem) EXCEPT ![q] = Without(@, k)]
<1> DEFINE s == Walk(mem, q)
<1>1. /\ mem \in Memory /\ Has(mem, q, s) /\ s \in Seq(Pcb)
      /\ ret' = mem.next[x] /\ mem' = QueueRemove(mem, q, x)
      /\ x \in Members(s)
  BY DEF ListsInv, TypeOK, Lists, Has, HasIn, Remove, InQueue, AfterRemoved
<1>2. PICK k \in DOMAIN s : x = s[k]
  BY <1>1 DEF Members
<1> HIDE DEF s
<1>3. ret' = IF k = Len(s) THEN Null ELSE s[k + 1]
  <2>1. /\ k \in 1..Len(s) /\ Len(s) \in Nat
        /\ \A i \in 1..(Len(s) - 1) : mem.next[s[i]] = s[i + 1]
        /\ mem.next[s[Len(s)]] = Null
    BY <1>1, <1>2 DEF Has, HasIn, Chain, Visits
  <2>2. CASE k = Len(s)
    BY <1>1, <1>2, <2>1, <2>2
  <2>3. CASE k < Len(s)
    <3>1. k \in 1..(Len(s) - 1) /\ k # Len(s)
      BY <2>1, <2>3
    <3>2. QED  BY <1>1, <1>2, <2>1, <3>1
  <2>4. QED  BY <2>1, <2>2, <2>3
<1>4. ret' \in Pointer
  BY <1>1 DEF Memory
<1>5. ListsInv' /\ Walked(mem') = [Walked(mem) EXCEPT ![q] = Without(@, k)]
  BY <1>1, <1>2, <1>4, TakeStep DEF s
<1>6. QED  BY <1>3, <1>5 DEF s

LEMMA ListsStepFacts ==
  ASSUME ListsInv, [NextLists]_listVars
  PROVE  /\ ListsInv'
         /\ [Abstract!Next]_<<Walked(mem), ret>>
<1>1. ASSUME NEW q \in QueueT, Reset(q)
      PROVE  UNCHANGED listVars
  BY <1>1, ResetStep DEF listVars
<1>2. ASSUME NEW q \in QueueT, NEW x \in Pcb, Push(q, x)
      PROVE  ListsInv' /\ Abstract!Next
  <2>1. ListsInv' /\ Walked(mem') = [Walked(mem) EXCEPT ![q] = Append(@, x)]
    BY <1>2, PushStep
  <2>2. ret' = ret /\ \A r \in QueueT : x \notin Members(Walked(mem)[r])
    BY <1>2 DEF Push, InQueue, Walked
  <2>3. Abstract!Push(q, x)
    BY <2>1, <2>2 DEF Abstract!Push, Walked, Abstract!Members, Members
  <2>4. QED  BY <2>1, <2>3 DEF Abstract!Next
<1>3. ASSUME NEW q \in QueueT, Dequeue(q)
      PROVE  ListsInv' /\ Abstract!Next
  <2>1. /\ ListsInv' /\ Walk(mem, q) # <<>> /\ ret' = Head(Walk(mem, q))
        /\ Walked(mem') = [Walked(mem) EXCEPT ![q] = Tail(@)]
    BY <1>3, DequeueStep
  <2>2. Abstract!Dequeue(q)
    BY <2>1 DEF Abstract!Dequeue, Walked
  <2>3. QED  BY <2>1, <2>2 DEF Abstract!Next
<1>4. ASSUME NEW q \in QueueT, NEW x \in Pcb, Remove(q, x)
      PROVE  ListsInv' /\ Abstract!Next
  <2>1. /\ ListsInv'
        /\ \E k \in DOMAIN Walk(mem, q) :
             /\ ret' = IF k = Len(Walk(mem, q)) THEN Null ELSE Walk(mem, q)[k + 1]
             /\ Walked(mem') = [Walked(mem) EXCEPT ![q] = Without(@, k)]
    BY <1>4, RemoveStep
  <2>2. Abstract!Remove(q)
    BY <2>1 DEF Abstract!Remove, Walked, Abstract!Without, Without
  <2>3. QED  BY <2>1, <2>2 DEF Abstract!Next
<1>5. ASSUME UNCHANGED listVars
      PROVE  ListsInv' /\ UNCHANGED <<Walked(mem), ret>>
  BY <1>5 DEF listVars, ListsInv, TypeOK
<1>6. QED  BY <1>1, <1>2, <1>3, <1>4, <1>5 DEF NextLists

LEMMA ListsInvAlways == ListsSpec => []ListsInv
<1>1. InitLists => ListsInv
  BY ListsInitFacts
<1>2. ListsInv /\ [NextLists]_listVars => ListsInv'
  BY ListsStepFacts
<1>3. QED  BY <1>1, <1>2, PTL DEF ListsSpec

\* The lists are well formed after any calls of queue_push, queue_dequeue and
\* queue_remove that keep to what the callers promise (queue.c).
THEOREM WellFormedAlways == ListsSpec => []WellFormed
<1>1. QED  BY ListsInvAlways, InvIsWellFormed, PTL

\* queue.c keeps each queue first in, first out, and leaves the other queues
\* alone, for any number of items and queues.
THEOREM ListsAreQueues == ListsSpec => ImplementsFifo
<1>1. InitLists => Abstract!Init
  BY ListsInitFacts DEF Abstract!Init, Walked, InitLists
<1>2. ListsInv /\ [NextLists]_listVars => [Abstract!Next]_<<[q \in QueueT |-> Walk(mem, q)], ret>>
  BY ListsStepFacts DEF Walked
<1>3. QED  BY <1>1, <1>2, ListsInvAlways, PTL DEF ListsSpec, ImplementsFifo, Abstract!Spec
=============================================================================
