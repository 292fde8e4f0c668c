------------------------------ MODULE Pipeline ------------------------------
(***************************************************************************)
(* One backup after the other (src/src/app/main.cc:160-199): for each file *)
(* main starts a chunker thread (Chunker::Chunking) and a deduplication    *)
(* thread (ProcessTrace of the method), which share a bounded lock-free    *)
(* queue and its flag done_, and joins both.                               *)
(*                                                                         *)
(* A chunk is known by its backup and its position in it; what is done     *)
(* with it is BiSearch's.  Every access to the queue or to done_ is a step *)
(* of its own: done_ is a sequentially consistent atomic, and enqueuing    *)
(* happens before the store of done_, so a consumer that has read TRUE     *)
(* sees every chunk in size_approx().  The loops of Push and of            *)
(* ProcessTrace spin: a failed try changes nothing.                        *)
(***************************************************************************)
EXTENDS Integers, Sequences

CONSTANTS
    backupNum,        \* option -n
    FileChunks,       \* backup -> how many chunks its file is cut into
    QueueSize         \* CHUNK_QUEUE_SIZE

Backup == 1 .. backupNum

ASSUME PipelineAssumption ==
    /\ backupNum \in Nat
    /\ FileChunks \in [Backup -> Nat]
    /\ QueueSize \in Nat \ {0}

VARIABLES
    queue,      \* lockFreeQueue_
    done_,      \* the end of the stream
    backup,     \* the main loop's index
    chunker,    \* the chunker thread: "push", "exit"
    cut,        \* how many chunks of the file it has pushed
    dedup,      \* the dedup thread: "done", "empty", "pop", "finish", "exit"
    Version,    \* backups finished by the dedup thread
    processed   \* backup -> the chunks it processed

vars == <<queue, done_, backup, chunker, cut, dedup, Version, processed>>

\* both threads are joined, or not started
Joined == chunker = "exit" /\ dedup = "exit"

-----------------------------------------------------------------------------
(* Chunker::Chunking *)

Push ==
    /\ chunker = "push"
    /\ cut < FileChunks[backup]
    /\ Len(queue) < QueueSize
    /\ queue' = Append(queue, [backup |-> backup, index |-> cut + 1])
    /\ cut' = cut + 1
    /\ UNCHANGED <<done_, backup, chunker, dedup, Version, processed>>

\* (mutant: the last chunk is forgotten)
SetDone_DropsLast ==
    /\ chunker = "push"
    /\ cut + 1 >= FileChunks[backup]
    /\ done_' = TRUE
    /\ chunker' = "exit"
    /\ UNCHANGED <<queue, backup, cut, dedup, Version, processed>>

SetDone ==
    /\ chunker = "push"
    /\ cut = FileChunks[backup]
    /\ done_' = TRUE
    /\ chunker' = "exit"
    /\ UNCHANGED <<queue, backup, cut, dedup, Version, processed>>

-----------------------------------------------------------------------------
(* ProcessTrace *)

\* (mutant: the two tests in the other order)
Holds_Swapped(test) == IF test = "done" THEN queue = << >> ELSE done_

Holds(test) == IF test = "done" THEN done_ ELSE queue = << >>

\* if (done_ && IsEmpty()), from left to right
Test ==
    /\ dedup \in {"done", "empty"}
    /\ dedup' = IF ~Holds(dedup) THEN "pop"
                ELSE IF dedup = "done" THEN "empty" ELSE "finish"
    /\ UNCHANGED <<queue, done_, backup, chunker, cut, Version, processed>>

\* (mutant: the flag is left set for the next backup)
Finish_KeepsDone ==
    /\ dedup = "finish"
    /\ dedup' = "exit"
    /\ Version' = Version + 1
    /\ UNCHANGED <<queue, done_, backup, chunker, cut, processed>>

Finish ==
    /\ dedup = "finish"
    /\ done_' = FALSE
    /\ Version' = Version + 1
    /\ dedup' = "exit"
    /\ UNCHANGED <<queue, backup, chunker, cut, processed>>

\* (mutant: peek instead of try_dequeue)
Pop_Peeks ==
    /\ dedup = "pop"
    /\ dedup' = "done"
    /\ IF queue = << >> THEN UNCHANGED processed
       ELSE processed' = [processed EXCEPT ![backup] = Append(@, Head(queue))]
    /\ UNCHANGED <<queue, done_, backup, chunker, cut, Version>>

\* try_dequeue, and the rest of the loop's body
Pop ==
    /\ dedup = "pop"
    /\ dedup' = "done"
    /\ IF queue = << >> THEN UNCHANGED <<queue, processed>>
       ELSE /\ queue' = Tail(queue)
            /\ processed' = [processed EXCEPT ![backup] = Append(@, Head(queue))]
    /\ UNCHANGED <<done_, backup, chunker, cut, Version>>

\* xdelta3 fails for the popped chunk: return, with done_ and Version as they
\* are.  A step of FailingSpec only.
PopError ==
    /\ dedup = "pop"
    /\ queue # << >>
    /\ queue' = Tail(queue)
    /\ dedup' = "exit"
    /\ UNCHANGED <<done_, backup, chunker, cut, Version, processed>>

-----------------------------------------------------------------------------
(* main *)

\* join, ClearAllCache (DataWrite), and the next file's two threads
NextBackup ==
    /\ Joined
    /\ backup \in Backup
    /\ backup' = backup + 1
    /\ IF backup < backupNum
       THEN chunker' = "push" /\ dedup' = "done" /\ cut' = 0
       ELSE UNCHANGED <<chunker, dedup, cut>>
    /\ UNCHANGED <<queue, done_, Version, processed>>

Init ==
    /\ queue = << >>
    /\ done_ = FALSE
    /\ backup = 1
    /\ chunker = IF backupNum > 0 THEN "push" ELSE "exit"
    /\ cut = 0
    /\ dedup = IF backupNum > 0 THEN "done" ELSE "exit"
    /\ Version = 0
    /\ processed = [b \in Backup |-> << >>]

ChunkerNext == Push \/ SetDone
DedupNext   == Test \/ Finish \/ Pop
Next        == ChunkerNext \/ DedupNext \/ NextBackup

\* the operating system runs every thread that is not finished
Spec == Init /\ [][Next]_vars
        /\ WF_vars(ChunkerNext) /\ WF_vars(DedupNext) /\ WF_vars(NextBackup)

\* and xdelta3 may fail
FailingSpec == Init /\ [][Next \/ PopError]_vars

-----------------------------------------------------------------------------
(* Properties *)

QueuedChunk == [backup : Backup, index : Nat \ {0}]

TypeOK ==
    /\ queue \in Seq(QueuedChunk) /\ Len(queue) <= QueueSize
    /\ done_ \in BOOLEAN
    /\ backup \in 1 .. backupNum + 1
    /\ chunker \in {"push", "exit"}
    /\ cut \in Nat
    /\ dedup \in {"done", "empty", "pop", "finish", "exit"}
    /\ Version \in Nat
    /\ processed \in [Backup -> Seq(QueuedChunk)]

\* Between two backups nothing is left in the queue and its flag is down:
\* main starts the next pair of threads on the same queue (main.cc:198:
\* "clear all chunk in queue").
QueueClearBetweenBackups == Joined => queue = << >> /\ ~done_

\* The dedup thread never ends while its chunker still runs or has chunks in
\* the queue: done_ is read before IsEmpty, and set after the last Push.
NoEarlyFinish ==
    dedup \in {"finish", "exit"} => chunker = "exit" /\ queue = << >>

\* The chunks processed for a backup, followed by those in the queue, are
\* those its file was cut into so far: none is lost, repeated, out of order
\* or counted to another backup.
InOrder ==
    /\ \A b \in Backup : \A k \in DOMAIN processed[b] :
            processed[b][k] = [backup |-> b, index |-> k]
    /\ backup \in Backup =>
         /\ Len(processed[backup]) + Len(queue) = cut
         /\ \A i \in DOMAIN queue :
              queue[i] = [backup |-> backup, index |-> Len(processed[backup]) + i]

\* Queue, flag and threads together deliver each backup's chunks, and always
\* get to the end: a full queue is drained, an empty one is left.
Stream == INSTANCE ChunkStream
            WITH BackupCount <- backupNum, ChunkCount <- FileChunks,
                 current <- backup, delivered <- processed
ImplementsStream == Stream!Spec

\* Every backup is finished by both threads.
EveryBackupEnds == <>(backup = backupNum + 1 /\ Version = backupNum)
=============================================================================
