----------------------------- MODULE ChunkStream -----------------------------
(***************************************************************************)
(* What the two threads and the queue between them promise together: the   *)
(* chunks of each backup reach the deduplication method one by one, in     *)
(* order, each once, and a backup starts when the one before is complete.  *)
(***************************************************************************)
EXTENDS Integers, Sequences

CONSTANTS BackupCount, ChunkCount   \* backups; backup -> chunks in it

VARIABLES current, delivered        \* backup -> the chunks it was given

vars == <<current, delivered>>

Whole(b) == [k \in 1 .. ChunkCount[b] |-> [backup |-> b, index |-> k]]

Init ==
    /\ current = 1
    /\ delivered = [b \in 1 .. BackupCount |-> << >>]

Deliver ==
    /\ current \in 1 .. BackupCount
    /\ Len(delivered[current]) < ChunkCount[current]
    /\ delivered' = [delivered EXCEPT ![current] =
                       Append(@, Whole(current)[Len(@) + 1])]
    /\ UNCHANGED current

NextBackup ==
    /\ current \in 1 .. BackupCount
    /\ delivered[current] = Whole(current)
    /\ current' = current + 1
    /\ UNCHANGED delivered

Next == Deliver \/ NextBackup

Spec == Init /\ [][Next]_vars /\ WF_vars(Next)
=============================================================================
