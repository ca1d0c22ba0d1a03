-------------------------------- MODULE Trie --------------------------------
(***************************************************************************)
(* The exercises on a tree of words: words are put into the tree one after *)
(* the other and each node counts the words that go through it; then the   *)
(* numbers down to some depth are printed (9.42), or the last word read is *)
(* taken out by counting down (9.43).  A node is named by the letters that *)
(* lead to it, the root by <<>>; its leaf by those and "$".  The word      *)
(* taken out is one of those put in, and no word is empty.                 *)
(***************************************************************************)
EXTENDS Integers, Sequences, FiniteSets, SequencesExt, TLC

CONSTANTS Letter, MaxWord, MaxWords

VARIABLES
    words,  \* those read
    s,      \* the word being put in or taken out
    at,     \* "read", "create", "delete", "print" or "numbers"
    j,      \* the letters of s behind us
    pre,    \* the node at hand
    num,    \* of every node there is
    out     \* the nodes whose numbers are printed

vars == <<words, s, at, j, pre, num, out>>

Words == UNION {[1 .. n -> Letter] : n \in 1 .. MaxWord}

\* The letters are numbered from 1; 'a' to 'z' in the code.
Alphabet == [c \in 1 .. Cardinality(Letter) |-> c]

Step(node, k) == Append(node, s[k])

ReadWord ==
    /\ at = "read" /\ Len(words) < MaxWords
    /\ s' \in Words
    /\ words' = Append(words, s')
    /\ at' = "create" /\ j' = 0
    /\ UNCHANGED <<pre, num, out>>

\* The first letter of the very first word makes the root; that of a later word is
\* counted there only if another word began with it.
FirstLetter ==
    /\ at = "create" /\ j = 0
    /\ num' = IF DOMAIN num = {} THEN (<<>> :> 1)
              ELSE IF Step(<<>>, 1) \in DOMAIN num THEN [num EXCEPT ![<<>>] = @ + 1] ELSE num
    /\ pre' = <<>> /\ j' = 1
    /\ UNCHANGED <<words, s, at, out>>

\* The node is counted, or made.
Counted(node) ==
    IF node \in DOMAIN num THEN [num EXCEPT ![node] = @ + 1] ELSE num @@ (node :> 1)

\* The letter before leads to the next node.
NextLetter ==
    /\ at = "create" /\ j \in 1 .. Len(s) - 1
    /\ num' = Counted(Step(pre, j))
    /\ pre' = Step(pre, j)
    /\ j' = j + 1
    /\ UNCHANGED <<words, s, at, out>>

\* The last letter's node gets the leaf.
EndOfWord ==
    /\ at = "create" /\ j = Len(s)
    /\ num' = Counted(Step(pre, j))
    /\ pre' = Step(pre, j)
    /\ at' = "read"
    /\ UNCHANGED <<words, s, j, out>>

\* 9.42 puts its words in as 9.43 does.
CreatTrie == ReadWord \/ FirstLetter \/ NextLetter \/ EndOfWord

\* The child of the root first in the alphabet; its number goes without a comma.
first == CHOOSE n \in DOMAIN num : Len(n) = 1 /\ \A o \in DOMAIN num : Len(o) = 1 => n[1] <= o[1]

RECURSIVE printnum(_, _)
printnum(node, depth) ==
    IF node \notin DOMAIN num THEN <<>>
    ELSE (IF node = first \/ Len(node) \in 1 .. depth THEN <<node>> ELSE <<>>)
            \o FoldLeft(LAMBDA list, c : list \o printnum(Append(node, c), depth), <<>>, Alphabet)

PrintNumbers ==
    /\ at = "read" /\ words # <<>>
    /\ \E depth \in 1 .. MaxWord : out' = printnum(<<>>, depth) /\ j' = depth
    /\ at' = "numbers"
    /\ UNCHANGED <<words, s, pre, num>>

ReadKey ==
    /\ at = "read" /\ words # <<>>
    /\ s' \in Range(words)
    /\ at' = "delete" /\ j' = Len(s')
    /\ UNCHANGED <<words, pre, num, out>>

\* The node of the first num letters.
GetPre(k) == SubSeq(s, 1, k)

\* From the last node up to the root's child; the leaf's number is not kept.
DeleteKey ==
    /\ at = "delete" /\ j > 0
    /\ num' = [num EXCEPT ![Append(GetPre(j - 1), s[j])] = @ - 1]
    /\ j' = j - 1
    /\ at' = IF j = 1 THEN "print" ELSE at
    /\ UNCHANGED <<words, s, pre, out>>

Init ==
    /\ words = <<>> /\ s = <<>> /\ at = "read" /\ j = 0 /\ pre = <<>>
    /\ num = [n \in {} |-> 0]
    /\ out = <<>>

Next == CreatTrie \/ PrintNumbers \/ ReadKey \/ DeleteKey

Spec == Init /\ [][Next]_vars

----------------------------------------------------------------------------

\* The number of times the letters begin a word.
Begun(node) == Cardinality({k \in DOMAIN words : IsPrefix(node, words[k])})

\* The order of a dictionary.
Before(n, o) ==
    \/ IsStrictPrefix(n, o)
    \/ \E k \in DOMAIN n \cap DOMAIN o : SubSeq(n, 1, k - 1) = SubSeq(o, 1, k - 1) /\ n[k] < o[k]

\* Between words every node but the root counts the words through it, and in the end
\* all but the one taken out.  The numbers printed are those of the beginnings of words
\* of at most that many letters, in the order of a dictionary.
NumsRight ==
    /\ at = "read" => \A node \in DOMAIN num \ {<<>>} : num[node] = Begun(node)
    /\ at = "print" => \A node \in DOMAIN num \ {<<>>} :
           num[node] = Begun(node) - IF IsPrefix(node, s) THEN 1 ELSE 0
    /\ at = "read" => \A k \in DOMAIN words : words[k] \in DOMAIN num
    /\ at = "numbers" =>
           /\ Range(out) = UNION {{SubSeq(w, 1, n) : n \in {n \in DOMAIN w : n <= j}} : w \in Range(words)}
           /\ \A i, k \in DOMAIN out : i < k => Before(out[i], out[k])
           /\ out[1] = first
=============================================================================
