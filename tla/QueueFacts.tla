----------------------------- MODULE QueueFacts -----------------------------
(***************************************************************************)
(* What the operators on queues keep: the set of the items queued, and     *)
(* that no item is queued twice.                                           *)
(***************************************************************************)
EXTENDS Queues, SequenceTheorems, TLAPS

\* Appending a task that is not there keeps a queue free of repetitions.
LEMMA AppendFacts ==
  ASSUME NEW S, NEW s \in Seq(S), NEW x \in S
  PROVE  /\ Append(s, x) \in Seq(S)
         /\ Members(Append(s, x)) = Members(s) \cup {x}
         /\ Distinct(s) /\ x \notin Members(s) => Distinct(Append(s, x))
<1>1. /\ Append(s, x) \in Seq(S)
      /\ DOMAIN Append(s, x) = 1..(Len(s) + 1)
      /\ DOMAIN s = 1..Len(s)
      /\ Len(s) \in Nat
      /\ Append(s, x)[Len(s) + 1] = x
      /\ \A i \in 1..Len(s) : Append(s, x)[i] = s[i]
  OBVIOUS
<1>2. Members(Append(s, x)) = Members(s) \cup {x}
  <2>1. Members(Append(s, x)) \subseteq Members(s) \cup {x}
    BY <1>1 DEF Members
  <2>2. Members(s) \subseteq Members(Append(s, x))
    BY <1>1 DEF Members
  <2>3. x \in Members(Append(s, x))
    BY <1>1 DEF Members
  <2>4. QED  BY <2>1, <2>2, <2>3
<1>3. Distinct(s) /\ x \notin Members(s) => Distinct(Append(s, x))
  BY <1>1 DEF Distinct, Members
<1>4. QED  BY <1>1, <1>2, <1>3

\* Joining two queues that share no task.
LEMMA ConcatFacts ==
  ASSUME NEW S, NEW s \in Seq(S), NEW t \in Seq(S)
  PROVE  /\ s \o t \in Seq(S)
         /\ Members(s \o t) = Members(s) \cup Members(t)
         /\ Distinct(s) /\ Distinct(t) /\ Members(s) \cap Members(t) = {}
              => Distinct(s \o t)
<1>1. /\ s \o t \in Seq(S)
      /\ DOMAIN s = 1..Len(s) /\ DOMAIN t = 1..Len(t)
      /\ Len(s) \in Nat /\ Len(t) \in Nat
      /\ DOMAIN (s \o t) = 1..(Len(s) + Len(t))
      /\ \A i \in 1..Len(s) : (s \o t)[i] = s[i]
      /\ \A i \in 1..Len(t) : (s \o t)[Len(s) + i] = t[i]
  OBVIOUS
<1>2. \A i \in DOMAIN (s \o t) :
        \/ i \in 1..Len(s) /\ (s \o t)[i] = s[i]
        \/ /\ i - Len(s) \in 1..Len(t)
           /\ (s \o t)[i] = t[i - Len(s)]
  BY <1>1
<1>3. Members(s \o t) = Members(s) \cup Members(t)
  <2>1. Members(s \o t) \subseteq Members(s) \cup Members(t)
    BY <1>1, <1>2 DEF Members
  <2>2. Members(s) \subseteq Members(s \o t)
    BY <1>1 DEF Members
  <2>3. Members(t) \subseteq Members(s \o t)
    <3> SUFFICES ASSUME NEW i \in 1..Len(t)
                 PROVE  t[i] \in Members(s \o t)
      BY <1>1 DEF Members
    <3>1. Len(s) + i \in DOMAIN (s \o t)
      BY <1>1
    <3>2. QED  BY <1>1, <3>1 DEF Members
  <2>4. QED  BY <2>1, <2>2, <2>3
<1>4. Distinct(s) /\ Distinct(t) /\ Members(s) \cap Members(t) = {}
        => Distinct(s \o t)
  <2> SUFFICES ASSUME Distinct(s), Distinct(t), Members(s) \cap Members(t) = {},
                      NEW i \in DOMAIN (s \o t), NEW j \in DOMAIN (s \o t),
                      (s \o t)[i] = (s \o t)[j]
               PROVE  i = j
    BY DEF Distinct
  <2>1. \A x \in 1..Len(s), y \in 1..Len(t) : s[x] # t[y]
    BY <1>1 DEF Members
  <2>2. QED  BY <1>1, <1>2, <2>1 DEF Distinct
<1>5. QED  BY <1>1, <1>3, <1>4

\* Taking the head of a queue takes that task and no other.
LEMMA TailFacts ==
  ASSUME NEW S, NEW s \in Seq(S), s # <<>>, Distinct(s)
  PROVE  /\ Head(s) \in Members(s)
         /\ Head(s) \in S
         /\ Tail(s) \in Seq(S)
         /\ Members(Tail(s)) = Members(s) \ {Head(s)}
         /\ Distinct(Tail(s))
<1>1. /\ Len(s) \in Nat /\ Len(s) > 0
      /\ DOMAIN s = 1..Len(s)
      /\ Head(s) = s[1]
      /\ Tail(s) \in Seq(S)
      /\ DOMAIN Tail(s) = 1..(Len(s) - 1)
      /\ \A i \in 1..(Len(s) - 1) : Tail(s)[i] = s[i + 1]
  OBVIOUS
<1>2. Head(s) \in Members(s) /\ Head(s) \in S
  BY <1>1 DEF Members
<1>3. Members(Tail(s)) = Members(s) \ {Head(s)}
  <2>1. Members(Tail(s)) \subseteq Members(s) \ {Head(s)}
    BY <1>1 DEF Members, Distinct
  <2>2. ASSUME NEW i \in DOMAIN s, s[i] # Head(s)
        PROVE  s[i] \in Members(Tail(s))
    <3>1. i - 1 \in DOMAIN Tail(s) /\ Tail(s)[i - 1] = s[i]
      BY <1>1, <2>2
    <3>2. QED  BY <3>1 DEF Members
  <2>3. QED  BY <2>1, <2>2 DEF Members
<1>4. Distinct(Tail(s))
  BY <1>1 DEF Distinct
<1>5. QED  BY <1>1, <1>2, <1>3, <1>4

\* queue_remove takes out the task it is given and no other.
LEMMA WithoutFacts ==
  ASSUME NEW S, NEW s \in Seq(S), NEW k \in DOMAIN s, Distinct(s)
  PROVE  /\ Without(s, k) \in Seq(S)
         /\ Members(Without(s, k)) = Members(s) \ {s[k]}
         /\ Distinct(Without(s, k))
<1>1. /\ Len(s) \in Nat /\ DOMAIN s = 1..Len(s) /\ k \in 1..Len(s)
      /\ Len(s) - 1 \in Nat
  OBVIOUS
<1>2. /\ DOMAIN Without(s, k) = 1..(Len(s) - 1)
      /\ \A i \in 1..(Len(s) - 1) :
           Without(s, k)[i] = IF i < k THEN s[i] ELSE s[i + 1]
  BY DEF Without
<1>3. Without(s, k) \in Seq(S)
  <2>1. \A i \in 1..(Len(s) - 1) :
          (IF i < k THEN s[i] ELSE s[i + 1]) \in S
    BY <1>1
  <2>2. QED  BY <1>1, <2>1, IsASeq DEF Without
<1>4. Members(Without(s, k)) = Members(s) \ {s[k]}
  <2>1. Members(Without(s, k)) \subseteq Members(s) \ {s[k]}
    BY <1>1, <1>2 DEF Members, Distinct
  <2>2. ASSUME NEW i \in DOMAIN s, i # k
        PROVE  s[i] \in Members(Without(s, k))
    <3>1. CASE i < k
      BY <1>1, <1>2, <3>1 DEF Members
    <3>2. CASE i > k
      <4>1. i - 1 \in 1..(Len(s) - 1) /\ Without(s, k)[i - 1] = s[i]
        BY <1>1, <1>2, <3>2
      <4>2. QED  BY <1>2, <4>1 DEF Members
    <3>3. QED  BY <1>1, <2>2, <3>1, <3>2
  <2>3. QED  BY <2>1, <2>2 DEF Members
<1>5. Distinct(Without(s, k))
  <2> SUFFICES ASSUME NEW i \in 1..(Len(s) - 1), NEW j \in 1..(Len(s) - 1),
                      Without(s, k)[i] = Without(s, k)[j]
               PROVE  i = j
    BY <1>2 DEF Distinct
  <2> DEFINE at(n) == IF n < k THEN n ELSE n + 1
  <2>1. /\ at(i) \in DOMAIN s /\ Without(s, k)[i] = s[at(i)]
        /\ at(j) \in DOMAIN s /\ Without(s, k)[j] = s[at(j)]
    BY <1>1, <1>2
  <2>2. at(i) = at(j)
    BY <2>1 DEF Distinct
  <2>3. QED  BY <1>1, <2>2
<1>6. QED  BY <1>3, <1>4, <1>5

\* The places of the queue without its k-th item.
LEMMA WithoutPlaces ==
  ASSUME NEW S, NEW s \in Seq(S), NEW k \in DOMAIN s
  PROVE  /\ Without(s, k) \in Seq(S)
         /\ Len(Without(s, k)) = Len(s) - 1
         /\ \A i \in 1..(Len(s) - 1) :
              Without(s, k)[i] = IF i < k THEN s[i] ELSE s[i + 1]
<1>1. /\ Len(s) \in Nat /\ DOMAIN s = 1..Len(s) /\ k \in 1..Len(s)
      /\ Len(s) - 1 \in Nat
  OBVIOUS
<1>2. \A i \in 1..(Len(s) - 1) :
        (IF i < k THEN s[i] ELSE s[i + 1]) \in S
  BY <1>1
<1> DEFINE n == Len(s) - 1
           o == [i \in 1..n |-> IF i < k THEN s[i] ELSE s[i + 1]]
<1>3. Without(s, k) = o
  BY DEF Without
<1>4. o \in Seq(S) /\ Len(o) = n
  BY <1>1, <1>2, IsASeq
<1>5. \A i \in 1..n : o[i] = IF i < k THEN s[i] ELSE s[i + 1]
  OBVIOUS
<1>6. QED  BY <1>3, <1>4, <1>5

\* Taking the head out is taking the tail.
LEMMA WithoutHead ==
  ASSUME NEW S, NEW s \in Seq(S), s # <<>>
  PROVE  1 \in DOMAIN s /\ Without(s, 1) = Tail(s)
<1>1. /\ Len(s) \in Nat /\ Len(s) >= 1 /\ DOMAIN s = 1..Len(s) /\ 1 \in DOMAIN s
      /\ Tail(s) \in Seq(S) /\ Len(Tail(s)) = Len(s) - 1
      /\ \A i \in 1..(Len(s) - 1) : Tail(s)[i] = s[i + 1]
  OBVIOUS
<1>2. /\ Without(s, 1) \in Seq(S) /\ Len(Without(s, 1)) = Len(s) - 1
      /\ \A i \in 1..(Len(s) - 1) : Without(s, 1)[i] = s[i + 1]
  <2>1. /\ Without(s, 1) \in Seq(S) /\ Len(Without(s, 1)) = Len(s) - 1
        /\ \A i \in 1..(Len(s) - 1) :
             Without(s, 1)[i] = IF i < 1 THEN s[i] ELSE s[i + 1]
    BY <1>1, WithoutPlaces
  <2>2. \A i \in 1..(Len(s) - 1) : ~ (i < 1)
    BY <1>1
  <2>3. QED  BY <2>1, <2>2
<1>3. QED  BY <1>1, <1>2, SeqEqual

\* The head of a queue and the others.
LEMMA HeadAndTail ==
  ASSUME NEW S, NEW s \in Seq(S), s # <<>>
  PROVE  /\ Head(s) \in S /\ Tail(s) \in Seq(S)
         /\ Members(s) = {Head(s)} \cup Members(Tail(s))
<1>1. Len(s) \in Nat \ {0} /\ DOMAIN s = 1..Len(s) /\ Head(s) = s[1] /\ \A i \in 1..Len(s) : s[i] \in S
  OBVIOUS
<1>2. /\ Tail(s) \in Seq(S) /\ Len(Tail(s)) = Len(s) - 1
      /\ \A i \in 1..(Len(s) - 1) : Tail(s)[i] = s[i + 1]
  OBVIOUS
<1>3. DOMAIN Tail(s) = 1..(Len(s) - 1)
  BY <1>2
<1>4. ASSUME NEW x \in Members(s) PROVE x \in {Head(s)} \cup Members(Tail(s))
  <2>1. PICK i \in 1..Len(s) : x = s[i]
    BY <1>1 DEF Members
  <2>2. CASE i = 1
    BY <1>1, <2>1, <2>2
  <2>3. CASE i # 1
    <3>1. i - 1 \in 1..(Len(s) - 1) /\ x = Tail(s)[i - 1]
      BY <1>1, <1>2, <2>1, <2>3
    <3>2. QED  BY <1>3, <3>1 DEF Members
  <2>4. QED  BY <2>2, <2>3
<1>5. ASSUME NEW x \in Members(Tail(s)) PROVE x \in Members(s)
  <2>1. PICK i \in 1..(Len(s) - 1) : x = Tail(s)[i]
    BY <1>3 DEF Members
  <2>2. i + 1 \in 1..Len(s) /\ x = s[i + 1]
    BY <1>1, <1>2, <2>1
  <2>3. QED  BY <1>1, <2>2 DEF Members
<1>6. Head(s) \in Members(s)
  BY <1>1 DEF Members
<1>7. QED  BY <1>1, <1>2, <1>4, <1>5, <1>6

-----------------------------------------------------------------------------
(* Queues that grow, and one queue behind another.                        *)

\* One item more of a sequence.
LEMMA PrefixGrows ==
  ASSUME NEW S, NEW s \in Seq(S), NEW n \in Nat, n + 1 <= Len(s)
  PROVE  /\ SubSeq(s, 1, n) \in Seq(S) /\ Len(SubSeq(s, 1, n)) = n
         /\ \A i \in 1..n : SubSeq(s, 1, n)[i] = s[i]
         /\ s[n + 1] \in S
         /\ Append(SubSeq(s, 1, n), s[n + 1]) = SubSeq(s, 1, n + 1)
<1>1. /\ SubSeq(s, 1, n) \in Seq(S) /\ Len(SubSeq(s, 1, n)) = n
      /\ \A i \in 1..n : SubSeq(s, 1, n)[i] = s[i]
  BY SubSeqProperties
<1>2. /\ SubSeq(s, 1, n + 1) \in Seq(S) /\ Len(SubSeq(s, 1, n + 1)) = n + 1
      /\ \A i \in 1..(n + 1) : SubSeq(s, 1, n + 1)[i] = s[i]
  BY SubSeqProperties
<1>3. s[n + 1] \in S
  OBVIOUS
<1> DEFINE t == Append(SubSeq(s, 1, n), s[n + 1])
<1>4. t \in Seq(S) /\ Len(t) = n + 1 /\ \A i \in 1..n : t[i] = s[i]
  BY <1>1, <1>3
<1>5. t[n + 1] = s[n + 1]
  BY <1>1, <1>3
<1>6. \A i \in 1..(n + 1) : t[i] = SubSeq(s, 1, n + 1)[i]
  BY <1>2, <1>4, <1>5
<1> HIDE DEF t
<1>7. t = SubSeq(s, 1, n + 1)
  BY <1>2, <1>4, <1>6, SeqEqual
<1>8. QED  BY <1>1, <1>3, <1>7 DEF t

\* A queue from which the first goes to the end of another.
LEMMA MoveOne ==
  ASSUME NEW S, NEW s \in Seq(S), NEW n \in Nat, n + 1 <= Len(s)
  PROVE  /\ SubSeq(s, n + 1, Len(s)) # <<>> /\ SubSeq(s, n + 1, Len(s)) \in Seq(S)
         /\ Head(SubSeq(s, n + 1, Len(s))) = s[n + 1] /\ s[n + 1] \in S
         /\ Tail(SubSeq(s, n + 1, Len(s))) = SubSeq(s, n + 2, Len(s))
         /\ Members(SubSeq(s, 1, n + 1)) = Members(SubSeq(s, 1, n)) \cup {s[n + 1]}
<1>1. /\ SubSeq(s, 1, n) \in Seq(S) /\ s[n + 1] \in S
      /\ Append(SubSeq(s, 1, n), s[n + 1]) = SubSeq(s, 1, n + 1)
  BY PrefixGrows
<1>2. SubSeq(s, n + 1, Len(s)) \in Seq(S) /\ SubSeq(s, n + 1, Len(s)) # <<>>
  <2> DEFINE x == SubSeq(s, n + 1, Len(s))
  <2>1. x \in Seq(S) /\ Len(x) = Len(s) - (n + 1) + 1
    BY SubSeqProperties
  <2>2. Len(x) >= 1
    BY <2>1
  <2> HIDE DEF x
  <2>3. x # <<>>
    BY <2>2
  <2>4. QED  BY <2>1, <2>3 DEF x
<1>3. /\ Head(SubSeq(s, n + 1, Len(s))) = s[n + 1]
      /\ Tail(SubSeq(s, n + 1, Len(s))) = SubSeq(s, n + 1 + 1, Len(s))
  BY HeadTailOfSubSeq
<1>4. n + 1 + 1 = n + 2
  OBVIOUS
<1>5. Members(Append(SubSeq(s, 1, n), s[n + 1])) = Members(SubSeq(s, 1, n)) \cup {s[n + 1]}
  <2> DEFINE p == SubSeq(s, 1, n)
             x == s[n + 1]
  <2> HIDE DEF p, x
  <2>1. p \in Seq(S) /\ x \in S
    BY <1>1 DEF p, x
  <2>2. Members(Append(p, x)) = Members(p) \cup {x}
    BY <2>1, AppendFacts
  <2>3. QED  BY <2>2 DEF p, x
<1>6. QED  BY <1>1, <1>2, <1>3, <1>4, <1>5

\* Appending to the second of two queues joined.
Grows(r, s, x) == Append(r \o s, x) = r \o Append(s, x)

LEMMA JoinGrows ==
  ASSUME NEW S, NEW r \in Seq(S), NEW s \in Seq(S), NEW x \in S
  PROVE  Grows(r, s, x)
BY DEF Grows

\* The places of two queues joined.
LEMMA JoinPlaces ==
  ASSUME NEW S, NEW s \in Seq(S), NEW t \in Seq(S)
  PROVE  /\ s \o t \in Seq(S) /\ Len(s \o t) = Len(s) + Len(t)
         /\ \A i \in 1..Len(s) : (s \o t)[i] = s[i]
         /\ \A i \in 1..Len(t) : (s \o t)[Len(s) + i] = t[i]
OBVIOUS

\* A queue without an item in its middle.
LEMMA Middle ==
  ASSUME NEW S, NEW a \in Seq(S), NEW r \in Seq(S), r # <<>>
  PROVE  /\ Len(a) + 1 \in DOMAIN (a \o r) /\ (a \o r)[Len(a) + 1] = Head(r)
         /\ Without(a \o r, Len(a) + 1) = a \o Tail(r)
         /\ Append(a, Head(r)) \o Tail(r) = a \o r
         /\ IF Tail(r) = <<>> THEN Len(a) + 1 = Len(a \o r)
            ELSE /\ Len(a) + 1 # Len(a \o r)
                 /\ (a \o r)[Len(a) + 1 + 1] = Head(Tail(r))
<1>1. /\ a \o r \in Seq(S) /\ Len(a \o r) = Len(a) + Len(r) /\ Len(a) \in Nat /\ Len(r) \in Nat \ {0}
      /\ \A i \in 1..Len(a) : (a \o r)[i] = a[i]
      /\ \A i \in 1..Len(r) : (a \o r)[Len(a) + i] = r[i]
      /\ DOMAIN (a \o r) = 1..(Len(a) + Len(r))
  OBVIOUS
<1>2. /\ Tail(r) \in Seq(S) /\ Len(Tail(r)) = Len(r) - 1 /\ Head(r) = r[1] /\ Head(r) \in S
      /\ \A i \in 1..(Len(r) - 1) : Tail(r)[i] = r[i + 1]
      /\ Tail(r) = <<>> <=> Len(r) = 1
      /\ Tail(r) # <<>> => Head(Tail(r)) = Tail(r)[1]
  <2>1. /\ Tail(r) \in Seq(S) /\ Len(Tail(r)) = Len(r) - 1 /\ Head(r) = r[1] /\ Head(r) \in S
        /\ \A i \in 1..(Len(r) - 1) : Tail(r)[i] = r[i + 1]
        /\ Len(r) \in Nat
    OBVIOUS
  <2> DEFINE t == Tail(r)
  <2> HIDE DEF t
  <2>2. t \in Seq(S) /\ Len(t) = Len(r) - 1
    BY <2>1 DEF t
  <2>3. (t = <<>> <=> Len(r) = 1) /\ (t # <<>> => Head(t) = t[1])
    BY <2>1, <2>2
  <2>4. QED  BY <2>1, <2>3 DEF t
<1> DEFINE k == Len(a) + 1
           o == Without(a \o r, k)
           u == a \o Tail(r)
           w == Append(a, Head(r)) \o Tail(r)
<1>3. k \in DOMAIN (a \o r) /\ (a \o r)[k] = Head(r)
  BY <1>1, <1>2
<1>4. o = u
  <2>1. /\ o \in Seq(S) /\ Len(o) = Len(a) + Len(r) - 1
        /\ \A i \in 1..(Len(a) + Len(r) - 1) :
             o[i] = IF i < k THEN (a \o r)[i] ELSE (a \o r)[i + 1]
    <3> DEFINE z == a \o r
    <3> HIDE DEF z
    <3>1. z \in Seq(S) /\ k \in DOMAIN z /\ Len(z) = Len(a) + Len(r)
      BY <1>1, <1>3 DEF z
    <3> HIDE DEF k
    <3>2. /\ Without(z, k) \in Seq(S) /\ Len(Without(z, k)) = Len(z) - 1
          /\ \A i \in 1..(Len(z) - 1) : Without(z, k)[i] = IF i < k THEN z[i] ELSE z[i + 1]
      BY <3>1, WithoutPlaces
    <3>3. QED  BY <3>1, <3>2 DEF z
  <2>2. /\ u \in Seq(S) /\ Len(u) = Len(a) + Len(r) - 1
        /\ \A i \in 1..Len(a) : u[i] = a[i]
        /\ \A i \in 1..(Len(r) - 1) : u[Len(a) + i] = Tail(r)[i]
    BY <1>2
  <2>3. ASSUME NEW i \in 1..(Len(a) + Len(r) - 1) PROVE o[i] = u[i]
    <3>1. CASE i < k
      BY <1>1, <2>1, <2>2, <3>1
    <3>2. CASE i >= k
      <4> DEFINE j == i - Len(a)
      <4>1. j \in 1..(Len(r) - 1) /\ Len(a) + j = i /\ j + 1 \in 1..Len(r) /\ Len(a) + (j + 1) = i + 1
        BY <1>1, <3>2
      <4> HIDE DEF j
      <4>2. u[i] = r[j + 1]
        BY <1>2, <2>2, <4>1
      <4>3. (a \o r)[i + 1] = r[j + 1]
        BY <1>1, <4>1
      <4>4. o[i] = (a \o r)[i + 1]
        BY <1>1, <2>1, <3>2
      <4>5. QED  BY <4>2, <4>3, <4>4
    <3>3. QED  BY <1>1, <3>1, <3>2
  <2> HIDE DEF o, u
  <2>4. QED  BY <2>1, <2>2, <2>3, SeqEqual
<1>5. w = a \o r
  <2>1. /\ w \in Seq(S) /\ Len(w) = Len(a) + Len(r)
        /\ \A i \in 1..Len(a) : w[i] = a[i]
        /\ w[Len(a) + 1] = Head(r)
        /\ \A i \in 1..(Len(r) - 1) : w[Len(a) + 1 + i] = Tail(r)[i]
    <3> DEFINE z == Append(a, Head(r))
    <3>1. z \in Seq(S) /\ Len(z) = Len(a) + 1 /\ z[Len(a) + 1] = Head(r) /\ \A i \in 1..Len(a) : z[i] = a[i]
      BY <1>2
    <3> HIDE DEF z
    <3>2. /\ z \o Tail(r) \in Seq(S) /\ Len(z \o Tail(r)) = Len(z) + Len(Tail(r))
          /\ \A i \in 1..Len(z) : (z \o Tail(r))[i] = z[i]
          /\ \A i \in 1..Len(Tail(r)) : (z \o Tail(r))[Len(z) + i] = Tail(r)[i]
      <4> DEFINE t == Tail(r)
      <4> HIDE DEF t
      <4>1. z \in Seq(S) /\ t \in Seq(S)
        BY <1>2, <3>1 DEF t
      <4>2. /\ z \o t \in Seq(S) /\ Len(z \o t) = Len(z) + Len(t)
            /\ \A i \in 1..Len(z) : (z \o t)[i] = z[i]
            /\ \A i \in 1..Len(t) : (z \o t)[Len(z) + i] = t[i]
        BY <4>1, JoinPlaces
      <4>3. QED  BY <4>2 DEF t
    <3>3. QED  BY <1>1, <1>2, <3>1, <3>2 DEF z
  <2>2. ASSUME NEW i \in 1..(Len(a) + Len(r)) PROVE w[i] = (a \o r)[i]
    <3>1. CASE i <= Len(a)
      BY <1>1, <2>1, <3>1
    <3>2. CASE i = Len(a) + 1
      BY <1>1, <1>2, <2>1, <3>2
    <3>3. CASE i > Len(a) + 1
      <4> DEFINE j == i - (Len(a) + 1)
      <4>0. \A x, y \in Nat : x \in 1..y => y = x + (y - x)
        OBVIOUS
      <4>1. j \in 1..(Len(r) - 1) /\ Len(a) + 1 + j = i /\ j + 1 \in 1..Len(r) /\ Len(a) + (j + 1) = i
        BY <1>1, <3>3
      <4> HIDE DEF j
      <4>2. w[i] = r[j + 1]
        BY <1>2, <2>1, <4>1
      <4>3. (a \o r)[i] = r[j + 1]
        BY <1>1, <4>1
      <4>4. QED  BY <4>2, <4>3
    <3>4. QED  BY <1>1, <3>1, <3>2, <3>3
  <2> HIDE DEF w
  <2>3. QED  BY <1>1, <2>1, <2>2, SeqEqual
<1>6. IF Tail(r) = <<>> THEN k = Len(a \o r)
      ELSE k # Len(a \o r) /\ (a \o r)[k + 1] = Head(Tail(r))
  <2>1. CASE Len(r) = 1
    BY <1>1, <1>2, <2>1
  <2>2. CASE Len(r) > 1
    <3>1. Tail(r) # <<>> /\ Head(Tail(r)) = r[2]
      BY <1>2, <2>2
    <3>2. (a \o r)[Len(a) + 2] = r[2] /\ Len(a) + 1 + 1 = Len(a) + 2
      BY <1>1, <2>2
    <3>3. QED  BY <1>1, <2>2, <3>1, <3>2
  <2>3. QED  BY <1>1, <2>1, <2>2
<1>7. QED  BY <1>3, <1>4, <1>5, <1>6
=============================================================================
