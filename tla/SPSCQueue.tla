----------------------------- MODULE SPSCQueue -----------------------------
(***************************************************************************)
(* moodycamel::ReaderWriterQueue as MessageQueue uses it: try_enqueue by   *)
(* the chunker thread, try_dequeue and size_approx by the deduplication    *)
(* thread.  The queue is a ring of blocks, each a circular buffer that     *)
(* wastes one slot.  try_enqueue never allocates, so the ring is the one   *)
(* the constructor builds.                                                 *)
(*                                                                         *)
(* Every read of a variable the other thread writes is a step.  Stores are *)
(* relaxed: a thread's stores wait in its buffer and become visible in any *)
(* order that keeps the fences (fence(memory_order_release)).  No location *)
(* is stored to twice between two fences, so this keeps the order of       *)
(* stores to one location as well.  Loads happen in program order, as the  *)
(* acquire fences after them demand.                                       *)
(***************************************************************************)
EXTENDS Integers, Sequences, SequencesExt, FiniteSets

CONSTANTS
    Sizes,           \* what size may be
    MAX_BLOCK_SIZE,  \* the template's parameter
    MaxItems         \* bound: the items the producer enqueues

ceilToPow2(x) ==
    LET pows == {2 ^ i : i \in 0 .. x}
    IN  CHOOSE p \in pows : p >= x /\ \A o \in pows : o >= x => p <= o

\* the constructor's assertions, and what ceilToPow2 is for
ASSUME SPSCAssumption ==
    /\ Sizes \subseteq Nat \ {0}
    /\ MAX_BLOCK_SIZE \in Nat \ {0, 1}
    /\ MAX_BLOCK_SIZE = ceilToPow2(MAX_BLOCK_SIZE)
    /\ \A s \in Sizes : ceilToPow2(s + 1) \in Nat /\ ceilToPow2(s + 1) > s
    /\ MaxItems \in Nat

VARIABLES
    size,       \* the constructor's argument, CHUNK_QUEUE_SIZE
    mem,        \* what both threads see
    stores,     \* thread -> its stores not yet visible
    fences,     \* thread -> the release fences it went through
    producer,   \* where try_enqueue is, and the items enqueued
    localFront, \* block -> the producer's copy of front
    consumer,   \* where try_dequeue or size_approx is
    localTail,  \* block -> the consumer's copy of tail
    got         \* the items dequeued

buffers == <<stores, fences>>
vars == <<size, mem, buffers, producer, localFront, consumer, localTail, got>>

-----------------------------------------------------------------------------
(* The constructor's ring *)

SingleBlock == ceilToPow2(size + 1) <= 2 * MAX_BLOCK_SIZE
blockSize == IF SingleBlock THEN ceilToPow2(size + 1) ELSE MAX_BLOCK_SIZE
\* (mutant: no extra buffer block)
initialBlockCount_NoExtra ==
    IF SingleBlock THEN 1
    ELSE (size + MAX_BLOCK_SIZE - 2) \div (MAX_BLOCK_SIZE - 1)

initialBlockCount ==
    IF SingleBlock THEN 1
    ELSE (size + MAX_BLOCK_SIZE * 2 - 3) \div (MAX_BLOCK_SIZE - 1)

Block == 1 .. initialBlockCount
Slot == 0 .. blockSize - 1
next(b) == IF b = initialBlockCount THEN 1 ELSE b + 1
\* (i + 1) & sizeMask
Succ(i) == (i + 1) % blockSize

\* locations that both threads use
front(b) == <<"front", b>>
tail(b) == <<"tail", b>>
data(b, i) == <<"data", b, i>>
frontBlock == <<"frontBlock">>
tailBlock == <<"tailBlock">>
done_ == <<"done_">>
Location == {front(b) : b \in Block} \cup {tail(b) : b \in Block}
            \cup {data(b, i) : b \in Block, i \in Slot}
            \cup {frontBlock, tailBlock, done_}

Nothing == 0   \* a slot that holds no constructed element

Thread == {"producer", "consumer"}

\* what a thread reads: its own last store, if that is not visible yet
Load(t, l) ==
    LET own == {s \in stores[t] : s.loc = l}
    IN  IF own = {} THEN mem[l]
        ELSE (CHOOSE s \in own : \A o \in own : o.after <= s.after).val

Store(l, v) == [loc |-> l, val |-> v]
\* a store in the buffer, and the number of fences before it
Waiting(s, n) == [loc |-> s.loc, val |-> s.val, after |-> n]

\* the stores of an operation before its fence, and those after it
\* (mutant: no fence)
Issue_Unfenced(t, before, then) ==
    /\ stores' = [stores EXCEPT ![t] =
                      @ \cup {Waiting(s, fences[t]) : s \in before \cup then}]
    /\ UNCHANGED fences

Issue(t, before, then) ==
    /\ stores' = [stores EXCEPT ![t] =
                      @ \cup {Waiting(s, fences[t]) : s \in before}
                        \cup {Waiting(s, fences[t] + 1) : s \in then}]
    /\ fences' = [fences EXCEPT ![t] = @ + 1]

\* a store becomes visible: no fence keeps it behind one that is not
Visible(t) ==
    \E s \in stores[t] :
        /\ \A o \in stores[t] : s.after <= o.after
        /\ mem' = [mem EXCEPT ![s.loc] = s.val]
        /\ stores' = [stores EXCEPT ![t] = @ \ {s}]
        /\ UNCHANGED <<size, fences, producer, localFront, consumer, localTail, got>>

-----------------------------------------------------------------------------
(* The queue as its front and tail indices describe it *)

\* what was made visible and not dequeued: from the front as the consumer
\* knows it to the tail of the block that both take for the last
Contents ==
    LET first == Load("consumer", frontBlock)
        items(b) ==
            LET f == Load("consumer", front(b))
            IN  [i \in 1 .. (mem[tail(b)] - f) % blockSize |->
                    mem[data(b, (f + i - 1) % blockSize)]]
        upTo[b \in Block] ==
            IF b = first THEN items(b)
            ELSE upTo[CHOOSE p \in Block : next(p) = b] \o items(b)
    IN  upTo[mem[tailBlock]]

\* the slots the producer cannot reuse yet
Occupied ==
    LET used(b) == (Load("producer", tail(b)) - mem[front(b)]) % blockSize
    IN  FoldSet(LAMBDA b, n : used(b) + n, 0, Block)

-----------------------------------------------------------------------------
(* inner_enqueue<CannotAlloc> *)

Item == producer.sent + 1
TailBlock == Load("producer", tailBlock)
BlockTail == Load("producer", tail(TailBlock))

EnqueueHere ==
    /\ Issue("producer", {Store(data(TailBlock, BlockTail), Item)},
                         {Store(tail(TailBlock), Succ(BlockTail))})
    /\ producer' = [producer EXCEPT !.sent = Item]

\* room by the local copy of front, or by front itself
TryEnqueue ==
    /\ producer.pc = "idle" /\ producer.sent < MaxItems
    /\ \/ /\ Succ(BlockTail) # localFront[TailBlock]
          /\ EnqueueHere
          /\ UNCHANGED localFront
       \/ /\ Succ(BlockTail) = localFront[TailBlock]
          /\ localFront' = [localFront EXCEPT ![TailBlock] = mem[front(TailBlock)]]
          /\ IF Succ(BlockTail) # mem[front(TailBlock)] THEN EnqueueHere
             ELSE /\ producer' = [producer EXCEPT !.pc = "ring",
                                                  !.full = Occupied >= size]
                  /\ UNCHANGED buffers
    /\ UNCHANGED <<size, mem, consumer, localTail, got>>

\* a full tail block: is the next one free?  If it is not, false
CheckRing ==
    /\ producer.pc = "ring"
    /\ producer' = [producer EXCEPT !.pc =
           IF next(TailBlock) # mem[frontBlock] THEN "free" ELSE "idle"]
    /\ UNCHANGED <<size, mem, buffers, localFront, consumer, localTail, got>>

EnqueueNext ==
    /\ producer.pc = "free"
    /\ LET b == next(TailBlock)
           t == Load("producer", tail(b))
       IN  /\ localFront' = [localFront EXCEPT ![b] = mem[front(b)]]
           /\ Issue("producer", {Store(data(b, t), Item), Store(tail(b), Succ(t))},
                                {Store(tailBlock, b)})
    /\ producer' = [producer EXCEPT !.sent = Item, !.pc = "idle"]
    /\ UNCHANGED <<size, mem, consumer, localTail, got>>

-----------------------------------------------------------------------------
(* try_dequeue *)

FrontBlock == Load("consumer", frontBlock)
BlockFront == Load("consumer", front(FrontBlock))

To(pc) == consumer' = [consumer EXCEPT !.pc = pc]

\* an element by the local copy of tail, or by tail itself
TryDequeue ==
    /\ consumer.pc = IF mem[done_] = 0 THEN "idle" ELSE "pop"
    /\ \/ /\ BlockFront # localTail[FrontBlock]
          /\ To("take") /\ UNCHANGED localTail
       \/ /\ BlockFront = localTail[FrontBlock]
          /\ localTail' = [localTail EXCEPT ![FrontBlock] = mem[tail(FrontBlock)]]
          /\ To(IF BlockFront # mem[tail(FrontBlock)] THEN "take" ELSE "tailBlock")
    /\ UNCHANGED <<size, mem, buffers, producer, localFront, got>>

\* an empty block: if it is the last one, false
CheckTailBlock ==
    /\ consumer.pc = "tailBlock"
    /\ To(IF FrontBlock # mem[tailBlock] THEN "again" ELSE "idle")
    /\ UNCHANGED <<size, mem, buffers, producer, localFront, localTail, got>>

\* the block may have been filled before the producer went on
\* (mutant: it is not looked at again)
LookAgain_Skipped ==
    /\ consumer.pc = "again"
    /\ To("advance")
    /\ UNCHANGED <<size, mem, buffers, producer, localFront, localTail, got>>

LookAgain ==
    /\ consumer.pc = "again"
    /\ localTail' = [localTail EXCEPT ![FrontBlock] = mem[tail(FrontBlock)]]
    /\ To(IF BlockFront # mem[tail(FrontBlock)] THEN "take" ELSE "advance")
    /\ UNCHANGED <<size, mem, buffers, producer, localFront, got>>

Advance ==
    /\ consumer.pc = "advance"
    /\ LET b == next(FrontBlock)
       IN  /\ localTail' = [localTail EXCEPT ![b] = mem[tail(b)]]
           /\ Issue("consumer", {}, {Store(frontBlock, b)})
    /\ To("take")
    /\ UNCHANGED <<size, mem, producer, localFront, got>>

\* the element is moved out and destroyed, and its slot released
Take ==
    /\ consumer.pc = "take"
    /\ got' = Append(got, mem[data(FrontBlock, BlockFront)])
    /\ Issue("consumer", {Store(data(FrontBlock, BlockFront), Nothing)},
                         {Store(front(FrontBlock), Succ(BlockFront))})
    /\ To("idle")
    /\ UNCHANGED <<size, mem, producer, localFront, localTail>>

-----------------------------------------------------------------------------
(* done_ and size_approx, for the loop around try_dequeue: while done_ is not *)
(* set or the queue is not empty (MessageQueue::IsEmpty), the consumer pops.  *)

\* done_ is sequentially consistent: no earlier store is overtaken by it
\* (mutant: a plain variable)
SetDone_Plain ==
    /\ producer.pc = "idle" /\ producer.sent = MaxItems
    /\ Issue("producer", {Store(done_, 1)}, {})
    /\ producer' = [producer EXCEPT !.pc = "stopped"]
    /\ UNCHANGED <<size, mem, localFront, consumer, localTail, got>>

SetDone ==
    /\ producer.pc = "idle" /\ producer.sent = MaxItems
    /\ Issue("producer", {}, {Store(done_, 1)})
    /\ producer' = [producer EXCEPT !.pc = "stopped"]
    /\ UNCHANGED <<size, mem, localFront, consumer, localTail, got>>

StartSize ==
    /\ consumer.pc = "idle" /\ mem[done_] = 1
    /\ consumer' = [pc |-> "size", block |-> FrontBlock, result |-> 0]
    /\ UNCHANGED <<size, mem, buffers, producer, localFront, localTail, got>>

CountBlock ==
    /\ consumer.pc = "size"
    /\ LET b == consumer.block
           n == (mem[tail(b)] - Load("consumer", front(b))) % blockSize
           r == consumer.result + n
       IN  consumer' = [consumer EXCEPT
               !.result = r, !.block = next(b),
               !.pc = CASE next(b) # FrontBlock -> "size"
                        [] r > 0 -> "pop"
                        [] OTHER -> "quit"]
    /\ UNCHANGED <<size, mem, buffers, producer, localFront, localTail, got>>

-----------------------------------------------------------------------------
Init ==
    /\ size \in Sizes
    /\ mem = [l \in Location |->
                 IF l \in {frontBlock, tailBlock} THEN 1 ELSE 0]
    /\ stores = [t \in Thread |-> {}]
    /\ fences = [t \in Thread |-> 0]
    /\ producer = [pc |-> "idle", sent |-> 0, full |-> FALSE]
    /\ localFront = [b \in Block |-> 0]
    /\ consumer = [pc |-> "idle", block |-> 1, result |-> 0]
    /\ localTail = [b \in Block |-> 0]
    /\ got = <<>>

Producer == TryEnqueue \/ CheckRing \/ EnqueueNext \/ SetDone
Consumer == \/ TryDequeue \/ CheckTailBlock \/ LookAgain \/ Advance \/ Take
            \/ StartSize \/ CountBlock

Next == Producer \/ Consumer \/ \E t \in Thread : Visible(t)

Spec == Init /\ [][Next]_vars
FairSpec == /\ Spec
            /\ WF_vars(Producer) /\ WF_vars(Consumer)
            /\ \A t \in Thread : WF_vars(Visible(t))

-----------------------------------------------------------------------------
(* Properties *)

\* No element is constructed in a slot whose element is not destroyed yet, and
\* none is moved from a slot before it is constructed there: whatever order the
\* stores become visible in, elements come out in the order they went in.
SlotsHandedOver ==
    /\ \A s \in stores["producer"] : \A b \in Block, i \in Slot :
           s.loc = data(b, i) => Load("consumer", data(b, i)) = Nothing
    /\ \A i \in DOMAIN got : got[i] = i

\* "can hold at least size elements": an enqueue fails only if at some moment
\* of the call that many were inside (readerwriterqueue.h:101-104).
FailsOnlyWhenFull ==
    [][producer.pc = "ring" /\ producer'.pc = "idle"
           => producer.full \/ Occupied >= size]_vars

\* The queue is a first-in first-out queue of bounded capacity.
Abstract == INSTANCE FIFO WITH q <- Contents,
                Capacity <- initialBlockCount * (blockSize - 1)
ImplementsFIFO == Abstract!Spec

\* The consumer's loop ends, and with everything that was enqueued: where done_
\* is set and size_approx counts nothing, nothing is left, though the two are
\* read one after the other (BiSearch.cc:60).
AllDequeued == <>(consumer.pc = "quit" /\ Len(got) = MaxItems)
=============================================================================
