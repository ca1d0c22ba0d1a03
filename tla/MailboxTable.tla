---------------------------- MODULE MailboxTable ----------------------------
(***************************************************************************)
(* The table mboxs[] of named mailboxes: do_mbox_open and do_mbox_close    *)
(* (libs/mailbox.c).  Programs close what they opened.                     *)
(***************************************************************************)
EXTENDS Integers, FiniteSets

CONSTANTS
  NumBox,    \* MAX_NUM_BOX, 32 in the code
  Name,      \* the names programs use, at most NumBox of them (README)
  NoName,    \* ""
  User,      \* the programs that open mailboxes
  MaxOpens   \* how often a program has the same mailbox open (a bound)

TableAssumption ==
  /\ NumBox \in Nat \ {0} /\ MaxOpens \in Nat
  /\ IsFiniteSet(Name) /\ Cardinality(Name) <= NumBox /\ NoName \notin Name

Index == 0..(NumBox - 1)

VARIABLES
  name,   \* mboxs[i].name
  refer,  \* mboxs[i].refer
  handle  \* history: how often each program has each box open

vars == <<name, refer, handle>>

\* mboxs[] is zero: main.c does not call mbox_init.
Init ==
  /\ name = [i \in Index |-> NoName]
  /\ refer = [i \in Index |-> 0]
  /\ handle = [u \in User |-> [i \in Index |-> 0]]

\* The box open chooses for n: the one that has that name, or the first that
\* has none.
Chosen(n, i) ==
  \/ name[i] = n
  \/ /\ \A j \in Index : name[j] # n
     /\ name[i] = NoName
     /\ \A j \in 0..(i - 1) : name[j] # NoName

NotCounted(r) == r
Counted(r) == r + 1
Open(u, n) ==
  \E i \in Index :
    /\ Chosen(n, i)
    /\ handle[u][i] < MaxOpens
    /\ name' = [name EXCEPT ![i] = n]
    /\ refer' = [refer EXCEPT ![i] = Counted(@)]
    /\ handle' = [handle EXCEPT ![u][i] = @ + 1]

\* A box is freed when its count falls below 0.
ReferLeft(r) == IF r < 0 THEN 0 ELSE r
Freed(r) == r < 0
Close(u, i) ==
  /\ handle[u][i] > 0
  /\ name' = IF Freed(refer[i] - 1) THEN [name EXCEPT ![i] = NoName] ELSE name
  /\ refer' = [refer EXCEPT ![i] = ReferLeft(@ - 1)]
  /\ handle' = [handle EXCEPT ![u][i] = @ - 1]

Next == \E u \in User :
  \/ \E n \in Name : Open(u, n)
  \/ \E i \in Index : Close(u, i)

Spec == Init /\ [][Next]_vars

-----------------------------------------------------------------------------
\* One mailbox per name, and no program has a box open whose name is gone.
OneBoxPerName ==
  /\ \A i, j \in Index : name[i] = name[j] /\ i # j => name[i] = NoName
  /\ \A u \in User, i \in Index : handle[u][i] > 0 => name[i] # NoName
=============================================================================
