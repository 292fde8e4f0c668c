--------------------------- MODULE PipelineProofs ---------------------------
(***************************************************************************)
(* What MCPipeline checks on small files, for any number of backups, any   *)
(* file lengths and any queue size, as long as xdelta3 does not fail.      *)
(***************************************************************************)
EXTENDS Pipeline, TLAPS

-----------------------------------------------------------------------------
(* Sequences of chunks *)

\* Appending a chunk keeps the others where they are.
LEMMA AppendFacts ==
    ASSUME NEW s \in Seq(QueuedChunk), NEW e \in QueuedChunk
    PROVE  /\ Append(s, e) \in Seq(QueuedChunk)
           /\ Len(Append(s, e)) = Len(s) + 1
           /\ DOMAIN Append(s, e) = 1 .. Len(s) + 1
           /\ \A i \in 1 .. Len(s) : Append(s, e)[i] = s[i]
           /\ Append(s, e)[Len(s) + 1] = e
    BY SMT

\* Taking the head of a queue moves the others up by one.
LEMMA TailFacts ==
    ASSUME NEW s \in Seq(QueuedChunk), s # << >>
    PROVE  /\ Len(s) \in Nat \ {0}
           /\ Head(s) = s[1] /\ Head(s) \in QueuedChunk
           /\ Tail(s) \in Seq(QueuedChunk)
           /\ Len(Tail(s)) = Len(s) - 1
           /\ DOMAIN Tail(s) = 1 .. Len(s) - 1
           /\ \A i \in 1 .. Len(s) - 1 : Tail(s)[i] = s[i + 1]
    BY SMT

\* The length of a sequence of chunks, and that of the empty one.
LEMMA LenFacts ==
    ASSUME NEW s \in Seq(QueuedChunk)
    PROVE  /\ Len(s) \in Nat
           /\ DOMAIN s = 1 .. Len(s)
           /\ s = [i \in 1 .. Len(s) |-> s[i]]
           /\ s = << >> <=> Len(s) = 0
    BY SMT

-----------------------------------------------------------------------------
(* The inductive invariant *)

\* What each thread's position says of the flag and the queue.
Phases ==
    /\ done_ => chunker = "exit"
    /\ dedup \in {"empty", "finish"} => done_
    /\ dedup = "finish" => queue = << >>
    /\ dedup = "exit" => chunker = "exit" /\ queue = << >> /\ ~done_
    /\ chunker = "exit" /\ ~done_ => dedup = "exit"
    /\ backup = backupNum + 1 => dedup = "exit"

\* How far the chunker is.
Progress ==
    /\ backup \in Backup =>
         /\ cut <= FileChunks[backup]
         /\ chunker = "exit" => cut = FileChunks[backup]
    /\ \A b \in Backup : b > backup => processed[b] = << >>

Inv == TypeOK /\ Phases /\ Progress /\ InOrder

\* The first backup starts with an empty, open queue.
LEMMA InitInv == Init => Inv
<1> USE PipelineAssumption DEF Backup
<1> SUFFICES ASSUME Init PROVE Inv
    OBVIOUS
<1>1. TypeOK
  <2>1. queue \in Seq(QueuedChunk) /\ Len(queue) <= QueueSize
      BY DEF Init
  <2>2. backup \in 1 .. backupNum + 1 /\ cut \in Nat /\ Version \in Nat
      BY DEF Init
  <2>3. processed \in [Backup -> Seq(QueuedChunk)]
      BY DEF Init
  <2>4. /\ done_ \in BOOLEAN /\ chunker \in {"push", "exit"}
        /\ dedup \in {"done", "empty", "pop", "finish", "exit"}
      BY DEF Init
  <2> QED BY <2>1, <2>2, <2>3, <2>4 DEF TypeOK
<1>2. Phases
    BY DEF Init, Phases
<1>3. Progress
    BY DEF Init, Progress
<1>4. InOrder
    BY DEF Init, InOrder
<1> QED BY <1>1, <1>2, <1>3, <1>4 DEF Inv

\* The chunker puts the next chunk of its file behind those in the queue.
LEMMA PushInv == Inv /\ Push => Inv'
<1> USE PipelineAssumption
<1> SUFFICES ASSUME Inv, Push PROVE Inv'
    OBVIOUS
<1> DEFINE e == [backup |-> backup, index |-> cut + 1]
<1>1. backup \in Backup /\ dedup # "exit" /\ ~done_
    BY DEF Inv, TypeOK, Phases, Push, Backup
<1>2. e \in QueuedChunk /\ queue \in Seq(QueuedChunk) /\ cut \in Nat
    BY <1>1 DEF Inv, TypeOK, QueuedChunk
<1>3. /\ queue' \in Seq(QueuedChunk)
      /\ Len(queue') = Len(queue) + 1
      /\ DOMAIN queue' = 1 .. Len(queue) + 1
      /\ \A i \in 1 .. Len(queue) : queue'[i] = queue[i]
      /\ queue'[Len(queue) + 1] = e
    BY <1>2, AppendFacts DEF Push
<1>4. Len(queue) \in Nat /\ DOMAIN queue = 1 .. Len(queue)
    BY <1>2, LenFacts
<1>5. processed[backup] \in Seq(QueuedChunk) /\ Len(processed[backup]) \in Nat
    BY <1>1, LenFacts DEF Inv, TypeOK
<1>6. TypeOK'
    BY <1>3, <1>4 DEF Inv, TypeOK, Push
<1>7. Phases'
    BY <1>1 DEF Inv, TypeOK, Phases, Push
<1>8. Progress'
    BY <1>1, <1>2 DEF Inv, Progress, Push, Backup, TypeOK
<1>9. InOrder'
  <2> DEFINE p == Len(processed[backup])
             n == Len(queue)
  <2>0. p \in Nat /\ n \in Nat /\ cut \in Nat
      BY <1>2, <1>4, <1>5
  <2>1. p + n = cut
      BY <1>1 DEF Inv, InOrder
  <2>2. ASSUME NEW i \in 1 .. n + 1
        PROVE  queue'[i] = [backup |-> backup, index |-> p + i]
    <3>1. CASE i \in 1 .. n
      <4>1. queue[i] = [backup |-> backup, index |-> p + i]
          BY <3>1, <1>1, <1>4 DEF Inv, InOrder
      <4> QED BY <4>1, <3>1, <1>3
    <3>2. CASE i = n + 1
      <4> HIDE DEF p, n
      <4>1. p + i = cut + 1
          BY <3>2, <2>0, <2>1
      <4>2. queue'[i] = [backup |-> backup, index |-> cut + 1]
          BY <3>2, <1>3 DEF n
      <4> QED BY <4>1, <4>2
    <3> QED BY <3>1, <3>2, <2>0
  <2>3. p + Len(queue') = cut + 1
    <3>1. Len(queue') = n + 1
        BY <1>3
    <3> HIDE DEF p, n
    <3> QED BY <3>1, <2>0, <2>1
  <2>4. backup' = backup /\ processed' = processed /\ cut' = cut + 1
      BY DEF Push
  <2>5. \A b \in Backup : \A k \in DOMAIN processed[b] :
            processed[b][k] = [backup |-> b, index |-> k]
      BY DEF Inv, InOrder
  <2> QED BY <2>2, <2>3, <2>4, <2>5, <1>3 DEF InOrder
<1> QED BY <1>6, <1>7, <1>8, <1>9 DEF Inv

\* Raising the flag ends the chunker.
LEMMA SetDoneInv == Inv /\ SetDone => Inv'
<1> USE PipelineAssumption
<1> SUFFICES ASSUME Inv, SetDone PROVE Inv'
    OBVIOUS
<1>1. backup \in Backup /\ dedup # "exit"
    BY DEF Inv, TypeOK, Phases, SetDone, Backup
<1>2. TypeOK'
    BY DEF Inv, TypeOK, SetDone
<1>3. Phases'
    BY <1>1 DEF Inv, Phases, SetDone, Backup, TypeOK
<1>4. Progress'
    BY <1>1 DEF Inv, Progress, SetDone, TypeOK
<1>5. InOrder'
    BY DEF Inv, InOrder, SetDone
<1> QED BY <1>2, <1>3, <1>4, <1>5 DEF Inv

\* done_ is still set when the queue is found empty, and then stays empty.
LEMMA TestInv == Inv /\ Test => Inv'
<1> SUFFICES ASSUME Inv, Test PROVE Inv'
    OBVIOUS
<1>1. TypeOK'
    BY DEF Inv, TypeOK, Test
<1>2. Phases'
    BY DEF Inv, TypeOK, Phases, Test, Holds
<1>3. Progress' /\ InOrder'
    BY DEF Inv, Progress, InOrder, Test
<1> QED BY <1>1, <1>2, <1>3 DEF Inv

\* The flag is lowered when both threads are through.
LEMMA FinishInv == Inv /\ Finish => Inv'
<1> SUFFICES ASSUME Inv, Finish PROVE Inv'
    OBVIOUS
<1>1. TypeOK'
  <2>1. Version' \in Nat
      BY DEF Inv, TypeOK, Finish
  <2>2. done_' \in BOOLEAN /\ dedup' \in {"done", "empty", "pop", "finish", "exit"}
      BY DEF Finish
  <2> QED BY <2>1, <2>2 DEF Inv, TypeOK, Finish
<1>2. Phases'
    BY DEF Inv, TypeOK, Phases, Finish
<1>3. Progress' /\ InOrder'
    BY DEF Inv, Progress, InOrder, Finish
<1> QED BY <1>1, <1>2, <1>3 DEF Inv

\* The chunk at the head of the queue becomes the last one processed.
LEMMA PopInv == Inv /\ Pop => Inv'
<1> USE PipelineAssumption
<1> SUFFICES ASSUME Inv, Pop PROVE Inv'
    OBVIOUS
<1>1. CASE queue = << >>
  <2>1. TypeOK' BY <1>1 DEF Inv, TypeOK, Pop
  <2>2. Phases' BY <1>1 DEF Inv, TypeOK, Phases, Pop
  <2>3. Progress' /\ InOrder' BY <1>1 DEF Inv, Progress, InOrder, Pop
  <2> QED BY <2>1, <2>2, <2>3 DEF Inv
<1>2. CASE queue # << >>
  <2>1. backup \in Backup
      BY DEF Inv, TypeOK, Phases, Pop, Backup
  <2> DEFINE p == processed[backup]
  <2>2. /\ queue \in Seq(QueuedChunk) /\ cut \in Nat
        /\ p \in Seq(QueuedChunk)
        /\ Len(p) \in Nat /\ DOMAIN p = 1 .. Len(p)
        /\ processed \in [Backup -> Seq(QueuedChunk)]
        /\ DOMAIN queue = 1 .. Len(queue)
      BY <2>1, LenFacts DEF Inv, TypeOK
  <2>3. /\ Len(queue) \in Nat \ {0}
        /\ Head(queue) = queue[1] /\ Head(queue) \in QueuedChunk
        /\ queue' \in Seq(QueuedChunk)
        /\ Len(queue') = Len(queue) - 1
        /\ DOMAIN queue' = 1 .. Len(queue) - 1
        /\ \A i \in 1 .. Len(queue) - 1 : queue'[i] = queue[i + 1]
      BY <1>2, <2>2, TailFacts DEF Pop
  <2>4. /\ processed' = [processed EXCEPT ![backup] = Append(p, Head(queue))]
        /\ backup' = backup /\ cut' = cut
      BY <1>2 DEF Pop
  <2>5. /\ processed'[backup] = Append(p, Head(queue))
        /\ \A b \in Backup : b # backup => processed'[b] = processed[b]
        /\ processed' \in [Backup -> Seq(QueuedChunk)]
      BY <2>1, <2>2, <2>3, <2>4, AppendFacts
  <2>6. /\ Len(processed'[backup]) = Len(p) + 1
        /\ DOMAIN processed'[backup] = 1 .. Len(p) + 1
        /\ \A i \in 1 .. Len(p) : processed'[backup][i] = p[i]
        /\ processed'[backup][Len(p) + 1] = queue[1]
      BY <2>2, <2>3, <2>5, AppendFacts
  <2>7. TypeOK'
      BY <2>3, <2>5 DEF Inv, TypeOK, Pop
  <2>8. Phases'
      BY <1>2 DEF Inv, TypeOK, Phases, Pop
  <2>9. Progress'
      BY <2>1, <2>4, <2>5 DEF Inv, Progress, Pop, Backup, TypeOK
  <2>10. InOrder'
    <3>1. /\ Len(p) + Len(queue) = cut
          /\ \A i \in 1 .. Len(queue) :
               queue[i] = [backup |-> backup, index |-> Len(p) + i]
          /\ \A b \in Backup : \A k \in DOMAIN processed[b] :
               processed[b][k] = [backup |-> b, index |-> k]
        BY <2>1, <2>2 DEF Inv, InOrder
    <3> HIDE DEF p
    <3>2. /\ Len(processed'[backup]) + Len(queue') = cut
          /\ \A i \in 1 .. Len(queue) - 1 : queue'[i] =
               [backup |-> backup, index |-> Len(processed'[backup]) + i]
      <4>1. Len(processed'[backup]) + Len(queue') = cut
        <5>1. Len(processed'[backup]) = Len(p) + 1 /\ Len(queue') = Len(queue) - 1
            BY <2>3, <2>6
        <5>2. Len(p) \in Nat /\ Len(queue) \in Nat /\ Len(p) + Len(queue) = cut
            BY <2>2, <2>3, <3>1
        <5> QED BY <5>1, <5>2
      <4>2. ASSUME NEW i \in 1 .. Len(queue) - 1
            PROVE  queue'[i] =
                     [backup |-> backup, index |-> Len(processed'[backup]) + i]
        <5>1. i + 1 \in 1 .. Len(queue) /\ queue'[i] = queue[i + 1]
            BY <2>3
        <5>2. queue[i + 1] = [backup |-> backup, index |-> Len(p) + (i + 1)]
            BY <5>1, <3>1
        <5>3. Len(p) + (i + 1) = Len(processed'[backup]) + i
            BY <2>2, <2>3, <2>6
        <5> QED BY <5>1, <5>2, <5>3
      <4> QED BY <4>1, <4>2
    <3>3. \A k \in 1 .. Len(p) + 1 :
             processed'[backup][k] = [backup |-> backup, index |-> k]
      <4>1. ASSUME NEW k \in 1 .. Len(p)
            PROVE  processed'[backup][k] = [backup |-> backup, index |-> k]
        <5>1. p[k] = [backup |-> backup, index |-> k]
            BY <3>1, <2>1, <2>2 DEF p
        <5> QED BY <5>1, <2>6
      <4>2. queue[1] = [backup |-> backup, index |-> Len(p) + 1]
          BY <3>1, <2>3
      <4> QED BY <4>1, <4>2, <2>2, <2>6
    <3>4. \A b \in Backup : \A k \in DOMAIN processed'[b] :
             processed'[b][k] = [backup |-> b, index |-> k]
      <4>1. ASSUME NEW b \in Backup, b # backup,
                   NEW k \in DOMAIN processed'[b]
            PROVE  processed'[b][k] = [backup |-> b, index |-> k]
          BY <4>1, <3>1, <2>5
      <4>2. ASSUME NEW k \in DOMAIN processed'[backup]
            PROVE  processed'[backup][k] = [backup |-> backup, index |-> k]
          BY <4>2, <3>3, <2>6
      <4> QED BY <4>1, <4>2
    <3> QED BY <3>2, <3>4, <2>3, <2>4 DEF InOrder
  <2> QED BY <2>7, <2>8, <2>9, <2>10 DEF Inv
<1> QED BY <1>1, <1>2

\* The next backup finds the queue as the first one did.
LEMMA NextBackupInv == Inv /\ NextBackup => Inv'
<1> USE PipelineAssumption
<1> SUFFICES ASSUME Inv, NextBackup PROVE Inv'
    OBVIOUS
<1>1. /\ backup \in Backup /\ backup' = backup + 1
      /\ queue = << >> /\ ~done_ /\ queue' = queue /\ done_' = done_
      /\ processed' = processed /\ Version' = Version
    BY DEF Inv, Phases, NextBackup, Joined
<1>2. CASE backup < backupNum
  <2>1. chunker' = "push" /\ dedup' = "done" /\ cut' = 0 /\ backup' \in Backup
      BY <1>1, <1>2 DEF NextBackup, Backup
  <2>2. processed[backup'] = << >>
      BY <2>1, <1>1 DEF Inv, Progress, Backup
  <2>3. TypeOK' BY <1>1, <2>1 DEF Inv, TypeOK, Backup
  <2>4. Phases' BY <1>1, <2>1 DEF Phases, Backup
  <2>5. Progress' BY <1>1, <2>1 DEF Inv, Progress, Backup
  <2>6. InOrder' BY <1>1, <2>1, <2>2 DEF Inv, InOrder
  <2> QED BY <2>3, <2>4, <2>5, <2>6 DEF Inv
<1>3. CASE ~(backup < backupNum)
  <2>1. /\ backup' = backupNum + 1 /\ backup' \notin Backup
        /\ chunker' = chunker /\ dedup' = dedup /\ cut' = cut
        /\ chunker = "exit" /\ dedup = "exit"
      BY <1>1, <1>3 DEF NextBackup, Backup, Joined
  <2>2. TypeOK' BY <1>1, <2>1 DEF Inv, TypeOK, Backup
  <2>3. Phases' BY <1>1, <2>1 DEF Phases
  <2>4. Progress' BY <1>1, <2>1 DEF Inv, Progress, Backup
  <2>5. InOrder' BY <1>1, <2>1 DEF Inv, InOrder
  <2> QED BY <2>2, <2>3, <2>4, <2>5 DEF Inv
<1> QED BY <1>2, <1>3

\* Every step of the two threads and of main keeps the invariant.
THEOREM PipelineInvariant ==
    Spec => []Inv
<1>1. Inv /\ [Next]_vars => Inv'
  <2> SUFFICES ASSUME Inv, [Next]_vars PROVE Inv'
      OBVIOUS
  <2>1. CASE Push BY <2>1, PushInv
  <2>2. CASE SetDone BY <2>2, SetDoneInv
  <2>3. CASE Test BY <2>3, TestInv
  <2>4. CASE Finish BY <2>4, FinishInv
  <2>5. CASE Pop BY <2>5, PopInv
  <2>7. CASE NextBackup BY <2>7, NextBackupInv
  <2>8. CASE UNCHANGED vars
      BY <2>8 DEF vars, Inv, TypeOK, Phases, Progress, InOrder
  <2> QED BY <2>1, <2>2, <2>3, <2>4, <2>5, <2>7, <2>8
          DEF Next, ChunkerNext, DedupNext
<1> QED BY <1>1, InitInv, PTL DEF Spec

\* The queue and its flag are clear between backups, the dedup thread does not
\* finish early, and every backup is processed in order and completely.
THEOREM PipelineCorrect ==
    Spec => [](QueueClearBetweenBackups /\ NoEarlyFinish /\ InOrder)
<1>1. Inv => QueueClearBetweenBackups /\ NoEarlyFinish /\ InOrder
    BY DEF Inv, Phases, QueueClearBetweenBackups, NoEarlyFinish, Joined
<1> QED BY <1>1, PipelineInvariant, PTL

\* When a backup starts, nothing of the one before is left in the queue, nor its
\* end flag (main.cc creates the queue once for all backups).
COROLLARY QueueCleared == Spec => []QueueClearBetweenBackups
BY PipelineCorrect, PTL

\* The method returns from a backup only when all of its chunks are processed
\* (BiSearch.cc tests the flag and the queue's size in two reads).
COROLLARY NeverEarly == Spec => []NoEarlyFinish
BY PipelineCorrect, PTL

\* The types of the state, and the queue within its size.
THEOREM PipelineTypeCorrect ==
    Spec => []TypeOK
<1>1. Inv => TypeOK
    BY DEF Inv
<1> QED BY <1>1, PipelineInvariant, PTL

-----------------------------------------------------------------------------
(* Queue, flag and threads implement the stream: safety *)

\* A chunk that is popped is the next one of its backup.
LEMMA PopDelivers ==
    ASSUME Inv, Pop
    PROVE  Stream!Deliver \/ UNCHANGED <<backup, processed>>
<1>1. CASE queue = << >>
    BY <1>1 DEF Pop
<1>2. CASE queue # << >>
  <2> DEFINE done == processed[backup]
  <2>1. dedup = "pop"
      BY DEF Pop
  <2>2. backup \in Backup
    <3>1. backup \in 1 .. backupNum + 1 /\ backup # backupNum + 1
        BY <2>1 DEF Inv, TypeOK, Phases
    <3> QED BY <3>1, PipelineAssumption DEF Backup
  <2>3. done \in Seq(QueuedChunk) /\ queue \in Seq(QueuedChunk)
      BY <2>2 DEF Inv, TypeOK
  <2>4. /\ Len(done) \in Nat /\ Len(queue) \in Nat /\ Len(queue) # 0
        /\ DOMAIN queue = 1 .. Len(queue)
        /\ Head(queue) = queue[1]
      BY <1>2, <2>3, LenFacts, TailFacts
  <2>5. /\ Len(done) + Len(queue) = cut
        /\ cut <= FileChunks[backup]
        /\ \A i \in DOMAIN queue :
             queue[i] = [backup |-> backup, index |-> Len(done) + i]
      BY <2>2 DEF Inv, InOrder, Progress
  <2>6. cut \in Nat /\ FileChunks[backup] \in Nat
      BY <2>2, PipelineAssumption DEF Inv, TypeOK
  <2> HIDE DEF done
  <2>7. Len(done) + 1 \in 1 .. FileChunks[backup] /\ Len(done) < FileChunks[backup]
      BY <2>4, <2>5, <2>6
  <2>8. Head(queue) = [backup |-> backup, index |-> Len(done) + 1]
      BY <2>4, <2>5
  <2>9. Stream!Whole(backup)[Len(done) + 1] = Head(queue)
      BY <2>7, <2>8 DEF Stream!Whole
  <2>10. /\ processed' = [processed EXCEPT ![backup] = Append(@, Head(queue))]
         /\ backup' = backup
      BY <1>2 DEF Pop
  <2> QED BY <2>2, <2>7, <2>9, <2>10 DEF Stream!Deliver, Backup, done
<1> QED BY <1>1, <1>2

\* Main goes on when the backup's chunks are all processed.
LEMMA NextBackupAdvances ==
    ASSUME Inv, NextBackup
    PROVE  Stream!NextBackup
<1> DEFINE done == processed[backup]
<1>1. backup \in Backup /\ chunker = "exit" /\ dedup = "exit"
    BY DEF NextBackup, Joined
<1>2. queue = << >> /\ cut = FileChunks[backup]
    BY <1>1 DEF Inv, Phases, Progress
<1>3. done \in Seq(QueuedChunk) /\ queue \in Seq(QueuedChunk)
    BY <1>1 DEF Inv, TypeOK
<1>4. /\ Len(queue) = 0 /\ Len(done) \in Nat /\ DOMAIN done = 1 .. Len(done)
      /\ done = [k \in 1 .. Len(done) |-> done[k]]
    BY <1>2, <1>3, LenFacts
<1>5. Len(done) + Len(queue) = cut
    BY <1>1 DEF Inv, InOrder
<1>6. Len(done) = FileChunks[backup]
    BY <1>2, <1>4, <1>5
<1>7. \A k \in DOMAIN done : done[k] = [backup |-> backup, index |-> k]
    BY <1>1 DEF Inv, InOrder
<1> HIDE DEF done
<1>8. done = Stream!Whole(backup)
    BY <1>4, <1>6, <1>7 DEF Stream!Whole
<1> QED BY <1>1, <1>8 DEF Stream!NextBackup, NextBackup, Backup, done

\* Every step of the threads and of main is a step of the stream or invisible
\* to it.
THEOREM PipelineSimulatesStream ==
    Spec => Stream!Init /\ [][Stream!Next]_(Stream!vars)
<1>1. Init => Stream!Init
    BY DEF Init, Stream!Init, Backup
<1>2. Inv /\ [Next]_vars => [Stream!Next]_(Stream!vars)
  <2> SUFFICES ASSUME Inv, [Next]_vars
               PROVE  Stream!Next \/ UNCHANGED <<backup, processed>>
      BY DEF Stream!vars
  <2>1. CASE Pop
      BY <2>1, PopDelivers DEF Stream!Next
  <2>2. CASE NextBackup
      BY <2>2, NextBackupAdvances DEF Stream!Next
  <2>3. CASE Push \/ SetDone \/ Test \/ Finish \/ UNCHANGED vars
      BY <2>3 DEF Push, SetDone, Test, Finish, vars
  <2> QED BY <2>1, <2>2, <2>3 DEF Next, ChunkerNext, DedupNext
<1> QED BY <1>1, <1>2, PipelineInvariant, PTL DEF Spec
=============================================================================
