----------------------------- MODULE ChunkStore -----------------------------
(***************************************************************************)
(* What the storage layer promises its clients: a chunk that was put is    *)
(* never changed, and every answer that is still in use shows exactly the  *)
(* chunk that was asked for, or is recognisably none where the medium can  *)
(* fail.  There are no containers, files or caches.                        *)
(***************************************************************************)
EXTENDS Integers, Sequences

CONSTANTS
    Content,
    Failure   \* the answers that show no chunk: none when nothing can fail

VARIABLES
    store,    \* chunk id -> content, in the order of insertion
    answers   \* what the answers in use show

vars == <<store, answers>>

Init == store = << >> /\ answers = << >>

Put(c) == store' = Append(store, c) /\ UNCHANGED answers

Get(id) ==
    /\ \E a \in {store[id]} \cup Failure : answers' = Append(answers, a)
    /\ UNCHANGED store

Release == answers' = << >> /\ UNCHANGED store

Next ==
    \/ \E c \in Content : Put(c)
    \/ \E id \in DOMAIN store : Get(id)
    \/ Release

Spec == Init /\ [][Next]_vars
=============================================================================
