------------------------------ MODULE DataWrite ------------------------------
(***************************************************************************)
(* The storage layer (class dataWrite, src/src/datawrite/datawrite.cc):    *)
(* chunks are packed into the open container curContainer; when a chunk    *)
(* does not fit, the container is written to ./Containers/<id> and a new   *)
(* one is opened in the same memory.  Get_Chunk_Info finds a chunk in the  *)
(* container cache, in a container file or in the open container.          *)
(*                                                                         *)
(* Sizes are in abstract units.  The k-th unit stored for chunk id is the  *)
(* pair <<id, k>>, so a read shows whose bytes it returns; Garbage is      *)
(* memory nothing was written to, and what a failed decompression leaves.  *)
(* Chunk ids are positions of chunklist, from 1 (the code counts from 0).  *)
(*                                                                         *)
(* Each path of Get_Chunk_Info assigns the fields chunkPtr and             *)
(* loadFromDisk of the chunklist entry, each by a statement of its own,    *)
(* and returns a copy of the entry; the copy is the handle, and is where   *)
(* they are kept here.  What malloc gave and free has not taken back is    *)
(* counted apart from them.                                                *)
(***************************************************************************)
EXTENDS Integers, Sequences, FiniteSets

CONSTANTS
    ContainerMax,      \* CONTAINER_MAX_SIZE
    CacheSize,         \* CONTAINER_CACHE_SIZE
    Request,           \* the chunks clients insert
    MaxChunks,         \* bound: chunks inserted
    MaxLeft,           \* bound: copies that early returns leave behind
    AllowWriteFailure, \* whether a container file may fail to be written
    Garbage,
    Zero,              \* what a container read from a short file ends in
    NoFile

ChunkId     == 1 .. MaxChunks
ContainerId == 0 .. MaxChunks
Unit        == (ChunkId \X (0 .. ContainerMax - 1)) \cup {Garbage, Zero}
DeltaFlag   == {"NO_DELTA", "NO_LZ4", "DELTA"}  \* the last: all delta kinds

ContainerData == UNION {[0 .. n - 1 -> Unit] : n \in 0 .. ContainerMax}

ASSUME SizeAssumption ==
    /\ ContainerMax \in Nat \ {0}
    /\ MaxChunks \in Nat
    /\ MaxLeft \in Nat
    /\ AllowWriteFailure \in BOOLEAN

\* Decoding a delta holds two answers at once, the delta and its base.
ASSUME CacheHoldsTwo == CacheSize \in Nat /\ CacheSize >= 2

\* lz4 output larger than the chunk is refused (NO_LZ4), as is a larger delta
ASSUME RequestAssumption ==
    \A c \in Request :
        /\ c \in [deltaFlag : DeltaFlag, chunkSize : 1 .. ContainerMax,
                  saveSize : 1 .. ContainerMax]
        /\ c.saveSize <= c.chunkSize
        /\ c.deltaFlag = "NO_LZ4" => c.saveSize = c.chunkSize

\* no file is told from every file
ASSUME NoFileAssumption == NoFile \notin ContainerData

VARIABLES
    containerNum,   \* id of the open container
    curContainer,   \* [size, containerID, data]: the memory of the open one
    curOffset,      \* where the next chunk goes
    chunklist,      \* metadata of every stored chunk
    files,          \* ./Containers/<id>
    keys_, containerPool_, currentIndex_,   \* containerCache
    held,           \* the answers of Get_Chunk_Info still in use
    copies,         \* chunks malloc'ed by Get_Chunk_Info and not freed
    left,           \* history: those that an early return left behind
    failed          \* history: the containers whose file was not written

INSTANCE ReadCache WITH Key <- ContainerId, Data <- ContainerData,
                        Unset <- << >>

storeVars == <<containerNum, curContainer, curOffset, chunklist, files, failed>>
cache     == <<keys_, containerPool_, currentIndex_>>
memory    == <<copies, left>>
vars      == <<storeVars, cache, held, memory>>

-----------------------------------------------------------------------------
(* Memory *)

\* the units of chunk id when n of them are stored
Saved(id, n) == [k \in 0 .. n - 1 |-> <<id, k>>]

\* memcpy(data + off, <n units of chunk id>, n)
Memcpy(data, off, id, n) ==
    [b \in DOMAIN data |->
        IF b \in off .. off + n - 1 THEN <<id, b - off>> ELSE data[b]]

\* n units at data + off; past the end there is only Garbage
ReadAt(data, off, n) ==
    [k \in 0 .. n - 1 |->
        IF off + k \in DOMAIN data THEN data[off + k] ELSE Garbage]

-----------------------------------------------------------------------------
(* Chunk_Insert *)

\* the file a seal leaves when its first n units reach the disk; the size at
\* its head is that of the whole container, and the reader of a shorter file
\* has the rest of the string it assigned
Written(n) ==
    [b \in 0 .. curContainer.size - 1 |->
        IF b < n THEN curContainer.data[b] ELSE Zero]

\* (mutant: the container is reset before it is written)
WriteContainer_AfterReset ==
    \/ /\ files' = [files EXCEPT ![curContainer.containerID] = << >>]
       /\ UNCHANGED failed
    \/ /\ AllowWriteFailure
       /\ failed' = failed \cup {curContainer.containerID}
       /\ UNCHANGED files

\* the file gets the size and the first size bytes of the open container.  If
\* it cannot be opened the code reports it and goes on; a write that stops
\* short (a full disk) is not even noticed.
WriteContainer ==
    \/ /\ files' = [files EXCEPT ![curContainer.containerID] = Written(curContainer.size)]
       /\ UNCHANGED failed
    \/ /\ AllowWriteFailure
       /\ failed' = failed \cup {curContainer.containerID}
       /\ \/ UNCHANGED files
          \/ \E n \in 0 .. curContainer.size - 1 :
                files' = [files EXCEPT ![curContainer.containerID] = Written(n)]

\* place n units of the new chunk at off of container num
Place(c, n, num, off) ==
    /\ chunklist' = Append(chunklist,
                       [deltaFlag |-> c.deltaFlag, size |-> n,
                        containerID |-> num, offset |-> off])
    /\ curContainer' =
         [size        |-> (IF num = containerNum THEN curContainer.size ELSE 0) + n,
          containerID |-> IF num = containerNum THEN curContainer.containerID ELSE num,
          data        |-> Memcpy(curContainer.data, off, Len(chunklist) + 1, n)]
    /\ curOffset' = off + n

Fits(n) == curContainer.size + n <= ContainerMax

InsertFits(c, n) ==
    /\ Fits(n)
    /\ Place(c, n, containerNum, curOffset)
    /\ UNCHANGED <<containerNum, files, failed>>

\* (mutant: the offset goes on in the new container)
InsertRollsOver_KeepsOffset(c, n) ==
    /\ ~Fits(n)
    /\ WriteContainer
    /\ containerNum' = containerNum + 1
    /\ Place(c, n, containerNum + 1, curOffset)

\* seal the open container, start the next one with this chunk
InsertRollsOver(c, n) ==
    /\ ~Fits(n)
    /\ WriteContainer
    /\ containerNum' = containerNum + 1
    /\ Place(c, n, containerNum + 1, 0)

Store(c, n) == InsertFits(c, n) \/ InsertRollsOver(c, n)

\* Chunk_Insert(chunk): the chunk's own bytes
ChunkInsert(c) ==
    Store(c, IF c.deltaFlag = "NO_DELTA" THEN c.chunkSize ELSE c.saveSize)

\* Chunk_Insert(chunk, lz4Buffer): the compressed bytes
ChunkInsertLz4(c) == Store(c, c.saveSize)

\* Every method compresses what it stores as a base and passes the buffer
\* exactly for NO_DELTA.  No answer is read after an insertion.
Insert(c) ==
    /\ held = << >>
    /\ Len(chunklist) < MaxChunks
    /\ \/ c.deltaFlag = "NO_DELTA" /\ ChunkInsertLz4(c)
       \/ c.deltaFlag # "NO_DELTA" /\ ChunkInsert(c)
    /\ UNCHANGED <<cache, held, memory>>

-----------------------------------------------------------------------------
(* Get_Chunk_Info *)

\* the returned entry, its chunkPtr at a malloc'ed copy of the chunk
Copy(id, bytes, loadFromDisk) ==
    [id |-> id, place |-> "heap", slot |-> 0, bytes |-> bytes,
     loadFromDisk |-> loadFromDisk]

\* its chunkPtr into a slot of the cache, or into the open container
InPlace(id, place, slot, loadFromDisk) ==
    [id |-> id, place |-> place, slot |-> slot, bytes |-> << >>,
     loadFromDisk |-> loadFromDisk]

Bytes(c, data) == ReadAt(data, c.offset, c.size)

\* decompression into lz4SafeChunkBuffer: the result is not looked at, and of
\* damaged input the caller copies what the buffer held before
Decompressed(id, bytes) ==
    IF bytes = Saved(id, chunklist[id].size) THEN bytes
    ELSE [k \in DOMAIN bytes |-> Garbage]

\* what is copied out of a container
Copied(id, data) ==
    LET c == chunklist[id]
    IN  IF c.deltaFlag = "NO_DELTA" THEN Decompressed(id, Bytes(c, data))
        ELSE Bytes(c, data)

Malloc == copies' = copies + 1 /\ UNCHANGED left

\* cache hit: the flag is cleared, and what is not NO_DELTA used in place;
\* NO_DELTA is decompressed into a copy and the flag set
GetFromCache(id) ==
    LET c == chunklist[id]
        slot == SlotOf(c.containerID)
    IN  /\ ReadFromCache(c.containerID)
        /\ \/ /\ c.deltaFlag # "NO_DELTA"
              /\ held' = Append(held, InPlace(id, "pool", slot, FALSE))
              /\ UNCHANGED memory
           \/ /\ c.deltaFlag = "NO_DELTA"
              /\ Malloc
              /\ held' = Append(held, Copy(id, Copied(id, containerPool_[slot]), TRUE))

\* cache miss on a sealed container: read the file, copy the chunk, cache
\* the container.  Without the file the copy stays uninitialised.
GetFromDisk(id) ==
    LET c == chunklist[id]
        file == files[c.containerID]
    IN  /\ ~ExistsInCache(c.containerID)
        /\ c.containerID # containerNum
        /\ Malloc
        /\ \/ /\ file # NoFile
              /\ held' = Append(held, Copy(id, Copied(id, file), TRUE))
              /\ InsertToCache(c.containerID, file)
           \/ /\ file = NoFile
              /\ held' = Append(held, Copy(id, ReadAt(<< >>, 0, c.size), TRUE))
              /\ UNCHANGED cache

\* the chunk is still in the open container
\* (mutant: the flag stays cleared after the decompression)
GetFromCurrent_KeepsFlag(id) ==
    LET c == chunklist[id]
    IN  /\ ~ExistsInCache(c.containerID)
        /\ c.containerID = containerNum
        /\ \/ /\ c.deltaFlag # "NO_DELTA"
              /\ held' = Append(held, InPlace(id, "current", 0, FALSE))
              /\ UNCHANGED memory
           \/ /\ c.deltaFlag = "NO_DELTA"
              /\ Malloc
              /\ held' = Append(held, Copy(id, Copied(id, curContainer.data), FALSE))
        /\ UNCHANGED cache

GetFromCurrent(id) ==
    LET c == chunklist[id]
    IN  /\ ~ExistsInCache(c.containerID)
        /\ c.containerID = containerNum
        /\ \/ /\ c.deltaFlag # "NO_DELTA"
              /\ held' = Append(held, InPlace(id, "current", 0, FALSE))
              /\ UNCHANGED memory
           \/ /\ c.deltaFlag = "NO_DELTA"
              /\ Malloc
              /\ held' = Append(held, Copy(id, Copied(id, curContainer.data), TRUE))
        /\ UNCHANGED cache

GetChunkInfo(id) ==
    /\ Len(held) < 2
    /\ GetFromCache(id) \/ GetFromDisk(id) \/ GetFromCurrent(id)
    /\ UNCHANGED storeVars

\* the answers whose chunkPtr their user frees
Flagged == {i \in DOMAIN held : held[i].loadFromDisk}

\* the encoder or decoder is done with its answers, and frees what they flag
Release ==
    /\ held # << >>
    /\ held' = << >>
    /\ copies' = copies - Cardinality(Flagged)
    /\ UNCHANGED <<storeVars, cache, left>>

\* a method that finds a delta failed, or too long, is done with the base and
\* does not free it
LeaveBehind ==
    /\ Len(held) = 1
    /\ left + Cardinality(Flagged) <= MaxLeft
    /\ held' = << >>
    /\ left' = left + Cardinality(Flagged)
    /\ UNCHANGED <<storeVars, cache, copies>>

\* dataWrite::ClearAllCache, called by main between two backups
ClearCache ==
    /\ held = << >>
    /\ ClearAllCache
    /\ UNCHANGED <<storeVars, held, memory>>

Init ==
    /\ containerNum = 0
    /\ curContainer = [size |-> 0, containerID |-> 0,
                       data |-> [b \in 0 .. ContainerMax - 1 |-> Garbage]]
    /\ curOffset = 0
    /\ chunklist = << >>
    /\ files = [c \in ContainerId |-> NoFile]
    /\ CacheInit
    /\ held = << >>
    /\ copies = 0 /\ left = 0
    /\ failed = {}

Next ==
    \/ \E c \in Request : Insert(c)
    \/ \E id \in DOMAIN chunklist : GetChunkInfo(id)
    \/ Release
    \/ LeaveBehind
    \/ ClearCache

Spec == Init /\ [][Next]_vars

-----------------------------------------------------------------------------
(* Properties *)

\* what the metadata of a chunk leads to, in memory or on disk
StoredBytes(id) ==
    LET c == chunklist[id] IN
    IF c.containerID = containerNum THEN Bytes(c, curContainer.data)
    ELSE IF files[c.containerID] = NoFile THEN ReadAt(<< >>, 0, c.size)
    ELSE Bytes(c, files[c.containerID])

\* what dereferencing an answer shows now, not when it was given
Deref(h) ==
    LET c == chunklist[h.id] IN
    CASE h.place = "heap"    -> h.bytes
      [] h.place = "pool"    -> Bytes(c, containerPool_[h.slot])
      [] h.place = "current" -> Bytes(c, curContainer.data)

Own(id) == Saved(id, chunklist[id].size)

\* the chunk did not reach the disk when its container was written
Lost(id) ==
    /\ chunklist[id].containerID \in failed
    /\ StoredBytes(id) # Own(id)

ChunkMeta == [deltaFlag : DeltaFlag, size : 1 .. ContainerMax,
              containerID : ContainerId, offset : 0 .. ContainerMax - 1]

Handle == [id : ChunkId, place : {"heap", "pool", "current"}, slot : Slot,
           bytes : ContainerData, loadFromDisk : BOOLEAN]

TypeOK ==
    /\ containerNum \in ContainerId
    /\ curContainer \in [size : 0 .. ContainerMax, containerID : ContainerId,
                         data : [0 .. ContainerMax - 1 -> Unit]]
    /\ curOffset \in 0 .. ContainerMax
    /\ chunklist \in Seq(ChunkMeta) /\ Len(chunklist) <= MaxChunks
    /\ files \in [ContainerId -> ContainerData \cup {NoFile}]
    /\ CacheTypeOK
    /\ held \in Seq(Handle) /\ Len(held) <= 2
    /\ copies \in Nat /\ left \in 0 .. MaxLeft
    /\ failed \in SUBSET ContainerId

\* No chunk is ever overwritten by another one, cut off by a seal or moved
\* away from where its metadata says: its bytes are its own, in the open
\* container or in the file (Chunk_Insert packs, seals and reopens the same
\* memory; Get_Chunk_Info trusts containerID and offset).  A container that
\* could not be written, or not in full, loses bytes of its own chunks: nothing
\* is where they were, and never the bytes of another chunk.
StoredIntact ==
    \A id \in DOMAIN chunklist : \A k \in 0 .. chunklist[id].size - 1 :
        \/ StoredBytes(id)[k] = <<id, k>>
        \/ /\ chunklist[id].containerID \in failed
           /\ StoredBytes(id)[k] \in {Garbage, Zero}

\* An answer in use shows the chunk it was asked for, even when the second
\* lookup of a decode evicted a container: an in-place answer points into a
\* cache slot that InsertToCache may hand to another container.
HandlesValid ==
    \A i \in DOMAIN held : Deref(held[i]) = Own(held[i].id) \/ Lost(held[i].id)

\* loadFromDisk, by which its users decide whether to free an answer, counts
\* right on every path: what is malloc'ed is what the answers in use flag, and
\* what early returns left behind; it is set for no answer into the cache or the
\* open container.  So nothing else leaks, and no slot is ever freed.
FreedIsOwned ==
    /\ copies = left + Cardinality(Flagged)
    /\ \A i \in Flagged : held[i].place = "heap"

\* Only sealed containers are cached, each with the bytes of its file: a
\* container cached while open would hide the chunks put into it later.
CacheCoherent ==
    \A i \in DOMAIN keys_ :
        /\ keys_[i].key < containerNum
        /\ containerPool_[keys_[i].value] = files[keys_[i].key]

\* The storage layer is a chunk store: containers, seals, the cache and its
\* evictions never show to its clients.  Only the chunks that did not reach the
\* disk are answered with nothing.
Store_ == INSTANCE ChunkStore
            WITH Content <- {Saved(id, n) : id \in ChunkId, n \in 1 .. ContainerMax},
                 Failure <- IF AllowWriteFailure THEN {Garbage} ELSE {},
                 store   <- [id \in 1 .. Len(chunklist) |->
                                IF Lost(id) THEN Own(id) ELSE StoredBytes(id)],
                 answers <- [i \in 1 .. Len(held) |->
                                IF Lost(held[i].id) THEN Garbage ELSE Deref(held[i])]
ImplementsChunkStore == Store_!Spec
=============================================================================
