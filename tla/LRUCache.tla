------------------------------ MODULE LRUCache ------------------------------
(***************************************************************************)
(* What a container cache promises (the abstract side of ReadCache): it    *)
(* keeps the Capacity most recently used containers, each with the data it *)
(* was inserted with, most recent first.  There are no slots and no        *)
(* indices here: recent is the whole state.                                *)
(***************************************************************************)
EXTENDS Integers, Sequences

CONSTANTS Name, Contents, Capacity

VARIABLE recent   \* sequence of [name, contents], most recently used first

Newest(e, s) ==
    [i \in 1 .. (IF Len(s) < Capacity THEN Len(s) + 1 ELSE Capacity) |->
        IF i = 1 THEN e ELSE s[i - 1]]

Refresh(s, p) ==
    [i \in 1 .. Len(s) |->
        IF i = 1 THEN s[p] ELSE IF i <= p THEN s[i - 1] ELSE s[i]]

Init == recent = << >>

Insert(n, c) ==
    /\ \A i \in DOMAIN recent : recent[i].name # n
    /\ recent' = Newest([name |-> n, contents |-> c], recent)

Read(n) ==
    \E p \in DOMAIN recent :
        /\ recent[p].name = n
        /\ recent' = Refresh(recent, p)

Clear == recent' = << >>

Next ==
    \/ \E n \in Name, c \in Contents : Insert(n, c)
    \/ \E n \in Name : Read(n)
    \/ Clear

Spec == Init /\ [][Next]_recent
=============================================================================
