--------------------------- MODULE DataWriteProofs ---------------------------
(***************************************************************************)
(* Proofs about the storage layer, for every size of container and cache,  *)
(* every set of requests and every pattern of write failures.              *)
(***************************************************************************)
EXTENDS DataWrite, FiniteSetTheorems, TLAPS

Cache == INSTANCE ReadCacheProofs
           WITH Key <- ContainerId, Data <- ContainerData, Unset <- << >>

-----------------------------------------------------------------------------
(* The inductive invariant *)

StoreType ==
    /\ containerNum \in 0 .. Len(chunklist)
    /\ curContainer \in [size : 0 .. ContainerMax, containerID : ContainerId,
                         data : [0 .. ContainerMax - 1 -> Unit]]
    /\ chunklist \in Seq(ChunkMeta) /\ Len(chunklist) <= MaxChunks
    /\ files \in [ContainerId -> ContainerData \cup {NoFile}]
    /\ failed \in SUBSET ContainerId

\* the three places that say where the next chunk goes agree
OpenAgrees ==
    /\ curContainer.size = curOffset
    /\ curContainer.containerID = containerNum

\* a chunk of the open container lies, whole, below curOffset
InOpen(id) ==
    LET c == chunklist[id] IN
    /\ c.offset + c.size <= curOffset
    /\ \A k \in 0 .. c.size - 1 : curContainer.data[c.offset + k] = <<id, k>>

\* a chunk of a sealed container is inside its file, or the write failed
InFile(id) ==
    LET c == chunklist[id]
        file == files[c.containerID]
    IN  \/ file = NoFile /\ c.containerID \in failed
        \/ /\ file # NoFile
           /\ \A k \in 0 .. c.size - 1 :
                 /\ c.offset + k \in DOMAIN file
                 /\ \/ file[c.offset + k] = <<id, k>>
                    \/ file[c.offset + k] = Zero /\ c.containerID \in failed

Placed(id) ==
    LET c == chunklist[id] IN
    /\ c.containerID \in 0 .. containerNum
    /\ c.containerID = containerNum => InOpen(id)
    /\ c.containerID # containerNum => InFile(id)

\* containers are sealed in the order of their ids
Unwritten == \A cid \in ContainerId : cid >= containerNum => files[cid] = NoFile

StoreInv ==
    /\ StoreType
    /\ OpenAgrees
    /\ Unwritten
    /\ \A id \in 1 .. Len(chunklist) : Placed(id)

-----------------------------------------------------------------------------
(* Insertions *)

\* A unit of a chunk lies below the end of what the chunk lies in.
LEMMA UnitInside ==
    ASSUME NEW off \in Nat, NEW size \in Nat, NEW top \in Nat, off + size <= top,
           NEW k \in 0 .. size - 1
    PROVE  off + k \in 0 .. top - 1
  OBVIOUS

\* What the type of the state says of its parts.
LEMMA TypeFacts ==
    ASSUME StoreType, OpenAgrees
    PROVE  /\ ContainerMax \in Nat /\ MaxChunks \in Nat /\ Len(chunklist) \in Nat
           /\ containerNum \in Nat /\ curOffset \in 0 .. ContainerMax
           /\ curContainer.data \in [0 .. ContainerMax - 1 -> Unit]
           /\ DOMAIN curContainer.data = 0 .. ContainerMax - 1
           /\ \A id \in 1 .. Len(chunklist) :
                 /\ chunklist[id] \in ChunkMeta
                 /\ chunklist[id].size \in 1 .. ContainerMax
                 /\ chunklist[id].offset \in 0 .. ContainerMax - 1
                 /\ chunklist[id].containerID \in ContainerId
<1>1. /\ ContainerMax \in Nat /\ MaxChunks \in Nat /\ Len(chunklist) \in Nat
      /\ containerNum \in Nat
  BY SizeAssumption DEF StoreType
<1>2. /\ curOffset \in 0 .. ContainerMax
      /\ curContainer.data \in [0 .. ContainerMax - 1 -> Unit]
  BY DEF StoreType, OpenAgrees
<1>3. DOMAIN curContainer.data = 0 .. ContainerMax - 1
  BY <1>2
<1>4. ASSUME NEW id \in 1 .. Len(chunklist)
      PROVE  /\ chunklist[id] \in ChunkMeta
             /\ chunklist[id].size \in 1 .. ContainerMax
             /\ chunklist[id].offset \in 0 .. ContainerMax - 1
             /\ chunklist[id].containerID \in ContainerId
  <2>1. chunklist[id] \in ChunkMeta
    BY <1>1 DEF StoreType
  <2> QED BY <2>1 DEF ChunkMeta
<1> QED BY <1>1, <1>2, <1>3, <1>4

\* What memcpy changes and what it leaves.
LEMMA MemcpyFacts ==
    ASSUME NEW data \in [0 .. ContainerMax - 1 -> Unit], NEW off \in Nat,
           NEW id \in ChunkId, NEW n \in Nat, off + n <= ContainerMax
    PROVE  /\ Memcpy(data, off, id, n) \in [0 .. ContainerMax - 1 -> Unit]
           /\ \A k \in 0 .. n - 1 : Memcpy(data, off, id, n)[off + k] = <<id, k>>
           /\ \A b \in 0 .. off - 1 : Memcpy(data, off, id, n)[b] = data[b]
<1>1. ContainerMax \in Nat /\ DOMAIN data = 0 .. ContainerMax - 1
  BY SizeAssumption
<1>2. ASSUME NEW b \in 0 .. ContainerMax - 1
      PROVE  (IF b \in off .. off + n - 1 THEN <<id, b - off>> ELSE data[b]) \in Unit
  <2>1. CASE b \in off .. off + n - 1
    <3>1. b - off \in 0 .. ContainerMax - 1
      BY <1>1, <2>1
    <3> QED BY <2>1, <3>1 DEF Unit
  <2>2. CASE b \notin off .. off + n - 1
    BY <2>2
  <2> QED BY <2>1, <2>2
<1>3. Memcpy(data, off, id, n) \in [0 .. ContainerMax - 1 -> Unit]
  BY <1>1, <1>2 DEF Memcpy
<1>4. ASSUME NEW k \in 0 .. n - 1
      PROVE  Memcpy(data, off, id, n)[off + k] = <<id, k>>
  <2>1. off + k \in 0 .. ContainerMax - 1 /\ off + k \in off .. off + n - 1
    BY <1>1
  <2>2. off + k - off = k
    OBVIOUS
  <2> QED BY <1>1, <2>1, <2>2 DEF Memcpy
<1>5. ASSUME NEW b \in 0 .. off - 1
      PROVE  Memcpy(data, off, id, n)[b] = data[b]
  <2>1. b \in 0 .. ContainerMax - 1 /\ b \notin off .. off + n - 1
    BY <1>1
  <2> QED BY <1>1, <2>1 DEF Memcpy
<1> QED BY <1>3, <1>4, <1>5

\* What memcpy of a new chunk does to the open container.
LEMMA NewUnits ==
    ASSUME StoreType, OpenAgrees, Len(chunklist) < MaxChunks,
           NEW n \in 1 .. ContainerMax, NEW off \in 0 .. ContainerMax,
           off + n <= ContainerMax
    PROVE  LET data == Memcpy(curContainer.data, off, Len(chunklist) + 1, n)
           IN  /\ data \in [0 .. ContainerMax - 1 -> Unit]
               /\ \A k \in 0 .. n - 1 : data[off + k] = <<Len(chunklist) + 1, k>>
               /\ \A b \in 0 .. off - 1 : data[b] = curContainer.data[b]
<1>1. Len(chunklist) + 1 \in ChunkId
  BY TypeFacts DEF ChunkId
<1>2. curContainer.data \in [0 .. ContainerMax - 1 -> Unit] /\ off \in Nat /\ n \in Nat
  BY TypeFacts
<1> QED BY <1>1, <1>2, MemcpyFacts

\* What a placed chunk adds to the list and the open container.
Grown(n, num, off, last) ==
    /\ Len(chunklist') = last
    /\ chunklist' \in Seq(ChunkMeta)
    /\ \A id \in 1 .. Len(chunklist) : chunklist'[id] = chunklist[id]
    /\ chunklist'[last].size = n
    /\ chunklist'[last].containerID = num
    /\ chunklist'[last].offset = off
    /\ curOffset' = off + n
    /\ OpenAgrees' <=> containerNum' = num
    /\ curContainer' \in [size : 0 .. ContainerMax, containerID : ContainerId,
                          data : [0 .. ContainerMax - 1 -> Unit]]
    /\ \A k \in 0 .. n - 1 : curContainer'.data[off + k] = <<last, k>>
    /\ \A b \in 0 .. off - 1 : curContainer'.data[b] = curContainer.data[b]

\* That is what Place does, wherever it is called from.
LEMMA PlaceFacts ==
    ASSUME StoreType, OpenAgrees, Len(chunklist) < MaxChunks,
           NEW c \in Request, NEW n \in 1 .. ContainerMax,
           NEW num \in ContainerId, NEW off \in 0 .. ContainerMax,
           NEW last, last = Len(chunklist) + 1,
           off + n <= ContainerMax,
           off = IF num = containerNum THEN curOffset ELSE 0,
           Place(c, n, num, off)
    PROVE  Grown(n, num, off, last)
<1> DEFINE new == [deltaFlag |-> c.deltaFlag, size |-> n, containerID |-> num,
                   offset |-> off]
           data == Memcpy(curContainer.data, off, Len(chunklist) + 1, n)
           cid == IF num = containerNum THEN curContainer.containerID ELSE num
           size == (IF num = containerNum THEN curContainer.size ELSE 0) + n
<1>1. new \in ChunkMeta
  <2>1. c.deltaFlag \in DeltaFlag
    BY RequestAssumption
  <2>2. off \in 0 .. ContainerMax - 1
    BY SizeAssumption
  <2> QED BY <2>1, <2>2 DEF ChunkMeta
<1>2. /\ data \in [0 .. ContainerMax - 1 -> Unit]
      /\ \A k \in 0 .. n - 1 : data[off + k] = <<Len(chunklist) + 1, k>>
      /\ \A b \in 0 .. off - 1 : data[b] = curContainer.data[b]
  BY NewUnits
<1>3. size = off + n /\ cid = num
  BY DEF OpenAgrees
<1>4. /\ chunklist' = Append(chunklist, new)
      /\ curContainer' = [size |-> size, containerID |-> cid, data |-> data]
      /\ curOffset' = off + n
  BY DEF Place
<1> HIDE DEF new, data, size, cid
<1>5. /\ Len(chunklist') = Len(chunklist) + 1
      /\ chunklist' \in Seq(ChunkMeta)
      /\ \A id \in 1 .. Len(chunklist) : chunklist'[id] = chunklist[id]
      /\ chunklist'[Len(chunklist) + 1] = new
  BY <1>1, <1>4 DEF StoreType
<1>6. new.size = n /\ new.containerID = num /\ new.offset = off
  BY DEF new
<1>7. /\ curContainer'.size = off + n /\ curContainer'.containerID = num
      /\ curContainer'.data = data
  BY <1>3, <1>4
<1>8. off + n \in 0 .. ContainerMax
  BY SizeAssumption
<1>9. curContainer' \in [size : 0 .. ContainerMax, containerID : ContainerId,
                         data : [0 .. ContainerMax - 1 -> Unit]]
  BY <1>2, <1>3, <1>4, <1>8
<1>10. OpenAgrees' <=> containerNum' = num
  BY <1>4, <1>7 DEF OpenAgrees
<1> QED BY <1>2, <1>4, <1>5, <1>6, <1>7, <1>9, <1>10 DEF Grown

\* A chunk that fits goes behind the others of the open container.
LEMMA FitsInv ==
    ASSUME StoreInv, Len(chunklist) < MaxChunks,
           NEW c \in Request, NEW n \in 1 .. ContainerMax, InsertFits(c, n)
    PROVE  StoreInv'
<1>1. StoreType /\ OpenAgrees /\ Unwritten /\ \A id \in 1 .. Len(chunklist) : Placed(id)
  BY DEF StoreInv
<1>2. /\ containerNum \in ContainerId /\ containerNum \in Nat
      /\ containerNum <= Len(chunklist)
      /\ curOffset \in 0 .. ContainerMax /\ curOffset + n <= ContainerMax
      /\ Len(chunklist) \in Nat
  <2>1. curOffset + n <= ContainerMax
    BY <1>1 DEF InsertFits, Fits, OpenAgrees
  <2>2. /\ Len(chunklist) \in Nat /\ containerNum \in Nat /\ MaxChunks \in Nat
        /\ curOffset \in 0 .. ContainerMax
    BY <1>1, TypeFacts
  <2>3. containerNum <= Len(chunklist)
    BY <1>1, <2>2 DEF StoreType
  <2> QED BY <2>1, <2>2, <2>3 DEF ContainerId
<1>3. Place(c, n, containerNum, curOffset)
  BY DEF InsertFits
<1>4. UNCHANGED <<containerNum, files, failed>>
  BY DEF InsertFits
<1>5. PICK last : last = Len(chunklist) + 1
  OBVIOUS
<1>6. Grown(n, containerNum, curOffset, last)
  <2>1. curOffset = IF containerNum = containerNum THEN curOffset ELSE 0
    OBVIOUS
  <2> QED BY <1>1, <1>2, <1>3, <1>5, <2>1, PlaceFacts
<1>7. StoreType'
  <2>1. Len(chunklist') <= MaxChunks /\ containerNum' \in 0 .. Len(chunklist')
    BY <1>2, <1>4, <1>5, <1>6, SizeAssumption DEF Grown
  <2>2. files' = files /\ failed' = failed
    BY <1>4
  <2> QED BY <1>1, <1>6, <2>1, <2>2 DEF StoreType, Grown
<1>8. OpenAgrees'
  BY <1>4, <1>6 DEF Grown
<1>9. ASSUME NEW id \in 1 .. Len(chunklist) PROVE Placed(id)'
  <2>1. Placed(id) /\ chunklist'[id] = chunklist[id]
    BY <1>1, <1>6 DEF Grown
  <2>2. CASE chunklist[id].containerID = containerNum
    <3>1. InOpen(id)
      BY <2>1, <2>2 DEF Placed
    <3>2. /\ chunklist[id].size \in 1 .. ContainerMax
          /\ chunklist[id].offset \in 0 .. ContainerMax - 1
          /\ ContainerMax \in Nat
      BY <1>1, TypeFacts
    <3>3. chunklist[id].offset + chunklist[id].size <= curOffset
      BY <3>1 DEF InOpen
    <3>4. ASSUME NEW k \in 0 .. chunklist[id].size - 1
          PROVE  curContainer'.data[chunklist[id].offset + k] = <<id, k>>
      <4>1. chunklist[id].offset + k \in 0 .. curOffset - 1
        BY <1>2, <3>2, <3>3
      <4>2. curContainer.data[chunklist[id].offset + k] = <<id, k>>
        BY <3>1 DEF InOpen
      <4> QED BY <1>6, <4>1, <4>2 DEF Grown
    <3>5. chunklist[id].offset + chunklist[id].size <= curOffset'
      <4>1. curOffset' = curOffset + n
        BY <1>6 DEF Grown
      <4> QED BY <1>2, <3>2, <3>3, <4>1
    <3>6. InOpen(id)'
      BY <2>1, <3>4, <3>5 DEF InOpen
    <3> QED BY <1>4, <2>1, <2>2, <3>6 DEF Placed
  <2>3. CASE chunklist[id].containerID # containerNum
    <3>1. InFile(id)
      BY <2>1, <2>3 DEF Placed
    <3>2. InFile(id)'
      BY <1>4, <2>1, <3>1 DEF InFile
    <3> QED BY <1>4, <2>1, <2>3, <3>2 DEF Placed
  <2> QED BY <2>2, <2>3
<1>10. Placed(last)'
  <2>1. curOffset + n <= curOffset'
    BY <1>2, <1>6 DEF Grown
  <2>2. InOpen(last)'
    BY <1>6, <2>1 DEF InOpen, Grown
  <2> QED BY <1>2, <1>4, <1>6, <2>2 DEF Placed, Grown
<1>11. ASSUME NEW id \in 1 .. Len(chunklist') PROVE Placed(id)'
  <2>1. id \in 1 .. Len(chunklist) \/ id = last
    BY <1>2, <1>5, <1>6 DEF Grown
  <2> QED BY <1>9, <1>10, <2>1
<1>12. Unwritten'
  BY <1>1, <1>4 DEF Unwritten
<1> QED BY <1>7, <1>8, <1>11, <1>12 DEF StoreInv

\* The file a seal writes, whole or cut after m units.
LEMMA WrittenFacts ==
    ASSUME StoreType, OpenAgrees, NEW m \in 0 .. curOffset
    PROVE  /\ Written(m) \in ContainerData /\ Written(m) # NoFile
           /\ DOMAIN Written(m) = 0 .. curOffset - 1
           /\ \A b \in 0 .. curOffset - 1 :
                 Written(m)[b] = IF b < m THEN curContainer.data[b] ELSE Zero
<1>1. /\ curOffset \in 0 .. ContainerMax /\ curContainer.size = curOffset
      /\ ContainerMax \in Nat
      /\ curContainer.data \in [0 .. ContainerMax - 1 -> Unit]
  BY TypeFacts DEF OpenAgrees
<1>2. /\ Written(m) \in [0 .. curOffset - 1 -> Unit]
      /\ DOMAIN Written(m) = 0 .. curOffset - 1
      /\ \A b \in 0 .. curOffset - 1 :
            Written(m)[b] = IF b < m THEN curContainer.data[b] ELSE Zero
  <2>1. ASSUME NEW b \in 0 .. curOffset - 1
        PROVE  (IF b < m THEN curContainer.data[b] ELSE Zero) \in Unit
    <3>1. b \in 0 .. ContainerMax - 1
      BY <1>1
    <3>2. curContainer.data[b] \in Unit /\ Zero \in Unit
      BY <1>1, <3>1 DEF Unit
    <3> QED BY <3>2
  <2> QED BY <1>1, <2>1 DEF Written
<1>3. Written(m) \in ContainerData
  BY <1>1, <1>2 DEF ContainerData
<1> QED BY <1>2, <1>3, NoFileAssumption

\* What a seal does to the files: the open container's file is the whole
\* container, or the write failed and the file is missing or short.
Sealed ==
    /\ files' \in [ContainerId -> ContainerData \cup {NoFile}]
    /\ failed' \in SUBSET ContainerId
    /\ failed \subseteq failed'
    /\ \A cid \in ContainerId : cid # containerNum => files'[cid] = files[cid]
    /\ \/ containerNum \in failed' /\ files'[containerNum] = files[containerNum]
       \/ /\ containerNum \in failed'
          /\ \E m \in 0 .. curOffset : files'[containerNum] = Written(m)
       \/ files'[containerNum] = Written(curOffset)

LEMMA SealFacts ==
    ASSUME StoreType, OpenAgrees, containerNum \in ContainerId, WriteContainer
    PROVE  Sealed
<1>1. /\ curOffset \in Nat /\ curContainer.size = curOffset
      /\ curContainer.containerID = containerNum
  BY TypeFacts DEF OpenAgrees
<1>2. files \in [ContainerId -> ContainerData \cup {NoFile}] /\ failed \in SUBSET ContainerId
  BY DEF StoreType
<1>3. ASSUME NEW m \in 0 .. curOffset,
             files' = [files EXCEPT ![containerNum] = Written(m)]
      PROVE  /\ files' \in [ContainerId -> ContainerData \cup {NoFile}]
             /\ \A cid \in ContainerId : cid # containerNum => files'[cid] = files[cid]
             /\ files'[containerNum] = Written(m)
  <2>1. Written(m) \in ContainerData
    BY WrittenFacts
  <2> QED BY <1>2, <1>3, <2>1
<1>4. CASE /\ files' = [files EXCEPT ![containerNum] = Written(curOffset)]
           /\ failed' = failed
  <2>1. curOffset \in 0 .. curOffset
    BY <1>1
  <2>2. /\ files' \in [ContainerId -> ContainerData \cup {NoFile}]
        /\ \A cid \in ContainerId : cid # containerNum => files'[cid] = files[cid]
        /\ files'[containerNum] = Written(curOffset)
    BY <1>3, <1>4, <2>1
  <2> QED BY <1>2, <1>4, <2>2 DEF Sealed
<1>5. CASE failed' = failed \cup {containerNum} /\ files' = files
  BY <1>2, <1>5 DEF Sealed
<1>6. ASSUME NEW m \in 0 .. curOffset - 1,
             failed' = failed \cup {containerNum},
             files' = [files EXCEPT ![containerNum] = Written(m)]
      PROVE  Sealed
  <2>1. m \in 0 .. curOffset
    BY <1>1
  <2>2. failed' \in SUBSET ContainerId /\ failed \subseteq failed' /\ containerNum \in failed'
    BY <1>2, <1>6
  <2> QED BY <1>3, <1>6, <2>1, <2>2 DEF Sealed
<1> QED BY <1>1, <1>4, <1>5, <1>6 DEF WriteContainer

\* A chunk that does not fit seals the open container, whose chunks are in its
\* file from then on unless the write failed, and starts the next one.
LEMMA RollsOverInv ==
    ASSUME StoreInv, Len(chunklist) < MaxChunks,
           NEW c \in Request, NEW n \in 1 .. ContainerMax, InsertRollsOver(c, n)
    PROVE  StoreInv'
<1>1. StoreType /\ OpenAgrees /\ Unwritten /\ \A id \in 1 .. Len(chunklist) : Placed(id)
  BY DEF StoreInv
<1>2. /\ Len(chunklist) \in Nat /\ containerNum \in Nat /\ MaxChunks \in Nat
      /\ ContainerMax \in Nat /\ curOffset \in 0 .. ContainerMax
      /\ containerNum <= Len(chunklist)
  BY <1>1, TypeFacts DEF StoreType
<1>3. containerNum \in ContainerId /\ containerNum + 1 \in ContainerId
  BY <1>2 DEF ContainerId
<1>4. Place(c, n, containerNum + 1, 0) /\ containerNum' = containerNum + 1
  BY DEF InsertRollsOver
<1>5. Sealed
  BY <1>1, <1>3, SealFacts DEF InsertRollsOver
<1>6. PICK last, num : last = Len(chunklist) + 1 /\ num = containerNum + 1
  OBVIOUS
<1>7. Grown(n, num, 0, last)
  <2>1. 0 = IF num = containerNum THEN curOffset ELSE 0
    BY <1>2, <1>6
  <2>2. 0 \in 0 .. ContainerMax /\ 0 + n <= ContainerMax
    BY <1>2
  <2>3. num \in ContainerId /\ Place(c, n, num, 0)
    BY <1>3, <1>4, <1>6
  <2> QED BY <1>1, <1>6, <2>1, <2>2, <2>3, PlaceFacts
<1>8. StoreType'
  <2>1. Len(chunklist') <= MaxChunks /\ containerNum' \in 0 .. Len(chunklist')
    BY <1>2, <1>4, <1>6, <1>7 DEF Grown
  <2> QED BY <1>5, <1>7, <2>1 DEF StoreType, Grown, Sealed
<1>9. OpenAgrees'
  BY <1>4, <1>6, <1>7 DEF Grown
<1>10. ASSUME NEW id \in 1 .. Len(chunklist) PROVE Placed(id)'
  <2>1. Placed(id) /\ chunklist'[id] = chunklist[id]
    BY <1>1, <1>7 DEF Grown
  <2>2. /\ chunklist[id].containerID \in 0 .. containerNum
        /\ chunklist[id].containerID \in ContainerId
        /\ chunklist[id].size \in 1 .. ContainerMax
        /\ chunklist[id].offset \in 0 .. ContainerMax - 1
    BY <1>1, <2>1, TypeFacts DEF Placed
  <2>3. CASE chunklist[id].containerID = containerNum
    <3>1. InOpen(id)
      BY <2>1, <2>3 DEF Placed
    <3>2. ASSUME NEW m \in 0 .. curOffset, files'[containerNum] = Written(m),
                 m = curOffset \/ containerNum \in failed'
          PROVE  InFile(id)'
      <4>1. ASSUME NEW k \in 0 .. chunklist[id].size - 1
            PROVE  LET b == chunklist[id].offset + k IN
                   /\ b \in DOMAIN Written(m)
                   /\ \/ Written(m)[b] = <<id, k>>
                      \/ Written(m)[b] = Zero /\ containerNum \in failed'
        <5>1. PICK b : b = chunklist[id].offset + k
          OBVIOUS
        <5>2. chunklist[id].offset + chunklist[id].size <= curOffset
          BY <3>1 DEF InOpen
        <5>3. b \in 0 .. curOffset - 1
          <6>1. /\ chunklist[id].offset \in Nat /\ chunklist[id].size \in Nat
                /\ curOffset \in Nat
            BY <1>2, <2>2
          <6> QED BY <5>1, <5>2, <6>1, UnitInside
        <5>4. curContainer.data[b] = <<id, k>>
          BY <3>1, <5>1 DEF InOpen
        <5>5. b \in DOMAIN Written(m) /\ Written(m)[b] = IF b < m THEN curContainer.data[b] ELSE Zero
          BY <1>1, <5>3, WrittenFacts
        <5>6. b < m \/ containerNum \in failed'
          BY <1>2, <3>2, <5>3
        <5> QED BY <5>1, <5>4, <5>5, <5>6
      <4>2. Written(m) # NoFile
        BY <1>1, WrittenFacts
      <4> QED BY <2>1, <2>3, <3>2, <4>1, <4>2 DEF InFile
    <3>3. ASSUME containerNum \in failed', files'[containerNum] = files[containerNum]
          PROVE  InFile(id)'
      <4>1. files[containerNum] = NoFile
        BY <1>1, <1>2, <1>3 DEF Unwritten
      <4> QED BY <2>1, <2>3, <3>3, <4>1 DEF InFile
    <3>4. InFile(id)'
      BY <1>2, <1>5, <3>2, <3>3 DEF Sealed
    <3> QED BY <1>2, <1>4, <2>1, <2>2, <2>3, <3>4 DEF Placed
  <2>4. CASE chunklist[id].containerID # containerNum
    <3>1. InFile(id)
      BY <2>1, <2>4 DEF Placed
    <3>2. /\ files'[chunklist[id].containerID] = files[chunklist[id].containerID]
          /\ failed \subseteq failed'
      BY <1>5, <2>2, <2>4 DEF Sealed
    <3>3. InFile(id)'
      BY <2>1, <3>1, <3>2 DEF InFile
    <3> QED BY <1>2, <1>4, <2>1, <2>2, <2>4, <3>3 DEF Placed
  <2> QED BY <2>3, <2>4
<1>11. Placed(last)'
  <2>1. InOpen(last)'
    BY <1>7 DEF InOpen, Grown
  <2> QED BY <1>2, <1>4, <1>6, <1>7, <2>1 DEF Placed, Grown
<1>12. ASSUME NEW id \in 1 .. Len(chunklist') PROVE Placed(id)'
  <2>1. id \in 1 .. Len(chunklist) \/ id = last
    BY <1>2, <1>6, <1>7 DEF Grown
  <2> QED BY <1>10, <1>11, <2>1
<1>13. Unwritten'
  <2> SUFFICES ASSUME NEW cid \in ContainerId, cid >= containerNum'
               PROVE  files'[cid] = NoFile
    BY DEF Unwritten
  <2>1. cid # containerNum /\ cid >= containerNum
    BY <1>2, <1>4 DEF ContainerId
  <2> QED BY <1>1, <1>5, <2>1 DEF Sealed, Unwritten
<1> QED BY <1>8, <1>9, <1>12, <1>13 DEF StoreInv

\* An insertion stores a chunk of some legal size, compressed or not.
LEMMA InsertInv ==
    ASSUME StoreInv, NEW c \in Request, Insert(c)
    PROVE  StoreInv'
<1>1. c.saveSize \in 1 .. ContainerMax /\ c.chunkSize \in 1 .. ContainerMax
  BY RequestAssumption
<1>2. PICK n \in 1 .. ContainerMax : Store(c, n)
  BY <1>1 DEF Insert, ChunkInsert, ChunkInsertLz4
<1>3. Len(chunklist) < MaxChunks
  BY DEF Insert
<1> QED BY <1>2, <1>3, FitsInv, RollsOverInv DEF Store

-----------------------------------------------------------------------------
(* Chunks stay what they are *)

\* What is in memory that a step leaves alone stays as it was.
LEMMA StoreUnchanged == StoreInv /\ UNCHANGED storeVars => StoreInv'
<1> SUFFICES ASSUME StoreInv, UNCHANGED storeVars PROVE StoreInv'
  OBVIOUS
<1>1. UNCHANGED <<containerNum, curContainer, curOffset, chunklist, files, failed>>
  BY DEF storeVars
<1>2. StoreType' /\ OpenAgrees' /\ Unwritten'
  BY <1>1 DEF StoreInv, StoreType, OpenAgrees, Unwritten
<1>3. ASSUME NEW id \in 1 .. Len(chunklist) PROVE Placed(id)'
  <2>1. Placed(id)
    BY DEF StoreInv
  <2> QED BY <1>1, <2>1 DEF Placed, InOpen, InFile
<1> QED BY <1>1, <1>2, <1>3 DEF StoreInv

LEMMA StoreInitInv == Init => StoreInv
<1> SUFFICES ASSUME Init PROVE StoreInv
  OBVIOUS
<1>1. chunklist \in Seq(ChunkMeta) /\ Len(chunklist) = 0
  BY DEF Init
<1>2. 0 \in ContainerId /\ 0 <= MaxChunks
  BY SizeAssumption DEF ContainerId
<1>3. [b \in 0 .. ContainerMax - 1 |-> Garbage] \in [0 .. ContainerMax - 1 -> Unit]
  BY DEF Unit
<1>4. 0 \in 0 .. ContainerMax
  BY SizeAssumption
<1>5. curContainer \in [size : 0 .. ContainerMax, containerID : ContainerId,
                        data : [0 .. ContainerMax - 1 -> Unit]]
  BY <1>2, <1>3, <1>4 DEF Init
<1>6. StoreType
  BY <1>1, <1>2, <1>5 DEF Init, StoreType
<1> QED BY <1>1, <1>6 DEF Init, StoreInv, OpenAgrees, Unwritten

\* Only insertions touch the store.
LEMMA StoreStepInv == StoreInv /\ [Next]_vars => StoreInv'
<1> SUFFICES ASSUME StoreInv, [Next]_vars PROVE StoreInv'
  OBVIOUS
<1>1. ASSUME NEW c \in Request, Insert(c) PROVE StoreInv'
  BY <1>1, InsertInv
<1>2. ASSUME NEW id \in DOMAIN chunklist, GetChunkInfo(id) PROVE StoreInv'
  BY <1>2, StoreUnchanged DEF GetChunkInfo
<1>3. CASE Release \/ LeaveBehind
  BY <1>3, StoreUnchanged DEF Release, LeaveBehind
<1>4. CASE ClearCache
  BY <1>4, StoreUnchanged DEF ClearCache
<1>5. CASE UNCHANGED vars
  BY <1>5, StoreUnchanged DEF vars
<1> QED BY <1>1, <1>2, <1>3, <1>4, <1>5 DEF Next

\* Where a chunk is placed, its bytes are its own, or they are lost with a
\* failed write.
LEMMA PlacedIsIntact ==
    ASSUME StoreInv, NEW id \in 1 .. Len(chunklist)
    PROVE  /\ \A k \in 0 .. chunklist[id].size - 1 :
                 \/ StoredBytes(id)[k] = <<id, k>>
                 \/ /\ chunklist[id].containerID \in failed
                    /\ StoredBytes(id)[k] \in {Garbage, Zero}
           /\ StoredBytes(id) = Own(id) \/ Lost(id)
<1> DEFINE c == chunklist[id]
           file == files[c.containerID]
<1>1. /\ ContainerMax \in Nat /\ curOffset \in 0 .. ContainerMax
      /\ DOMAIN curContainer.data = 0 .. ContainerMax - 1
      /\ c.size \in Nat /\ c.offset \in Nat
  BY TypeFacts DEF StoreInv
<1>2. Placed(id)
  BY DEF StoreInv
<1>3. CASE c.containerID = containerNum
  <2>1. InOpen(id)
    BY <1>2, <1>3 DEF Placed
  <2>2. ASSUME NEW k \in 0 .. c.size - 1
        PROVE  c.offset + k \in DOMAIN curContainer.data
    <3>1. c.offset + c.size <= ContainerMax
      BY <1>1, <2>1 DEF InOpen
    <3> QED BY <1>1, <3>1, UnitInside
  <2>3. StoredBytes(id) = [k \in 0 .. c.size - 1 |-> curContainer.data[c.offset + k]]
    BY <1>3, <2>2 DEF StoredBytes, Bytes, ReadAt
  <2>4. StoredBytes(id) = [k \in 0 .. c.size - 1 |-> <<id, k>>]
    BY <2>1, <2>3 DEF InOpen
  <2> QED BY <2>4 DEF Own, Saved
<1>4. CASE c.containerID # containerNum
  <2>1. InFile(id)
    BY <1>2, <1>4 DEF Placed
  <2>2. CASE file = NoFile /\ c.containerID \in failed
    <3>1. StoredBytes(id) = [k \in 0 .. c.size - 1 |-> Garbage]
      BY <1>4, <2>2 DEF StoredBytes, ReadAt
    <3> QED BY <2>2, <3>1 DEF Lost
  <2>3. CASE file # NoFile
    <3>1. \A k \in 0 .. c.size - 1 :
             /\ c.offset + k \in DOMAIN file
             /\ \/ file[c.offset + k] = <<id, k>>
                \/ file[c.offset + k] = Zero /\ c.containerID \in failed
      BY <2>1, <2>3 DEF InFile
    <3>2. StoredBytes(id) = [k \in 0 .. c.size - 1 |-> file[c.offset + k]]
      BY <1>4, <2>3, <3>1 DEF StoredBytes, Bytes, ReadAt
    <3>3. CASE c.containerID \in failed
      BY <3>1, <3>2, <3>3 DEF Lost
    <3>4. CASE c.containerID \notin failed
      <4>1. StoredBytes(id) = [k \in 0 .. c.size - 1 |-> <<id, k>>]
        BY <3>1, <3>2, <3>4
      <4> QED BY <4>1 DEF Own, Saved
    <3> QED BY <3>3, <3>4
  <2> QED BY <2>1, <2>2, <2>3 DEF InFile
<1> QED BY <1>3, <1>4

\* StoredIntact for every container size, sequence of insertions and pattern
\* of failed writes: packing, sealing and reopening never lose a chunk to
\* another one.
THEOREM ChunksStayIntact == Spec => []StoredIntact
<1>1. StoreInv => StoredIntact
  BY PlacedIsIntact DEF StoredIntact, StoreInv, StoreType
<1> QED BY StoreInitInv, StoreStepInv, <1>1, PTL DEF Spec

-----------------------------------------------------------------------------
(* The cache shows the files *)

\* Each cached container is sealed, was written, and is in its slot.
Coherent ==
    \A j \in DOMAIN keys_ :
        /\ keys_[j].key \in ContainerId /\ keys_[j].key < containerNum
        /\ files[keys_[j].key] # NoFile
        /\ containerPool_[keys_[j].value] = files[keys_[j].key]

ReadInv == StoreInv /\ Cache!CacheInv /\ Coherent

LEMMA CacheSizeFact == Cache!CacheSizeAssumption
  BY CacheHoldsTwo DEF Cache!CacheSizeAssumption

\* The cache of the storage layer is an instance of the cache proved correct.
LEMMA SameInit == CacheInit => Cache!CacheInv
<1>1. CacheInit => Cache!CacheInit
  BY DEF CacheInit, Cache!CacheInit, Slot, Cache!Slot
<1> QED BY <1>1, CacheSizeFact, Cache!CacheInitInv DEF Cache!CacheInitInv

LEMMA SameInsert ==
    ASSUME NEW k \in ContainerId, NEW d \in ContainerData,
           ~ExistsInCache(k), InsertToCache(k, d)
    PROVE  Cache!InsertMissing(k, d)
<1>1. ExistsInCache(k) <=> Cache!ExistsInCache(k)
  BY DEF ExistsInCache, Cache!ExistsInCache
<1>2. ASSUME NEW v PROVE LruInsert(k, v) <=> Cache!LruInsert(k, v)
  BY <1>1 DEF LruInsert, Cache!LruInsert, EmplaceFront, Cache!EmplaceFront
<1>3. InsertEvicting(k, d) => Cache!InsertEvicting(k, d)
  BY <1>2 DEF InsertEvicting, Cache!InsertEvicting, CacheFull, Cache!CacheFull
<1>4. InsertFresh(k, d) => Cache!InsertFresh(k, d)
  BY <1>2 DEF InsertFresh, Cache!InsertFresh, CacheFull, Cache!CacheFull
<1> QED BY <1>1, <1>3, <1>4 DEF InsertToCache, Cache!InsertMissing, Cache!InsertToCache

LEMMA SameRead ==
    ASSUME NEW k, ReadFromCache(k)
    PROVE  Cache!ReadFromCache(k) /\ Cache!SlotOf(k) = SlotOf(k)
<1>1. Find(k) = Cache!Find(k)
  BY DEF Find, Cache!Find
<1> QED
  BY <1>1 DEF ReadFromCache, Cache!ReadFromCache, ExistsInCache, Cache!ExistsInCache,
              SpliceFront, Cache!SpliceFront, SlotOf, Cache!SlotOf

\* Caching a file that was read: the nodes that stay keep their contents, the
\* most recent one stays.
LEMMA CacheInsert ==
    ASSUME Cache!CacheInv, NEW k \in ContainerId, NEW d \in ContainerData,
           ~ExistsInCache(k), InsertToCache(k, d)
    PROVE  /\ Cache!CacheInv'
           /\ \A j \in DOMAIN keys_' :
                 \/ /\ keys_'[j].key = k
                    /\ containerPool_'[keys_'[j].value] = d
                 \/ \E i \in DOMAIN keys_ :
                       /\ keys_'[j] = keys_[i]
                       /\ containerPool_'[keys_[i].value] = containerPool_[keys_[i].value]
           /\ keys_ # << >> =>
                 containerPool_'[keys_[1].value] = containerPool_[keys_[1].value]
<1>1. Cache!InsertMissing(k, d)
  BY SameInsert
<1>2. [Cache!CacheNext]_Cache!cacheVars
  BY <1>1 DEF Cache!CacheNext
<1>3. Cache!CacheInv'
  BY <1>2, CacheSizeFact, Cache!CacheStepInv DEF Cache!CacheStepInv
<1> QED BY <1>1, <1>3, CacheSizeFact, CacheHoldsTwo, Cache!InsertKeeps DEF Cache!InsertKeeps

\* Using a cached container only puts it in front.
LEMMA CacheRead ==
    ASSUME Cache!CacheInv, NEW k \in ContainerId, ReadFromCache(k)
    PROVE  /\ Cache!CacheInv'
           /\ \A j \in DOMAIN keys_' : \E i \in DOMAIN keys_ : keys_'[j] = keys_[i]
           /\ keys_' # << >> /\ keys_'[1].value = SlotOf(k)
           /\ UNCHANGED containerPool_
<1>1. Cache!ReadFromCache(k) /\ Cache!SlotOf(k) = SlotOf(k)
  BY SameRead
<1>2. [Cache!CacheNext]_Cache!cacheVars
  BY <1>1 DEF Cache!CacheNext
<1>3. Cache!CacheInv'
  BY <1>2, CacheSizeFact, Cache!CacheStepInv DEF Cache!CacheStepInv
<1> QED BY <1>1, <1>3, CacheSizeFact, Cache!ReadKeeps DEF Cache!ReadKeeps

LEMMA CacheClear ==
    ASSUME Cache!CacheInv, ClearAllCache
    PROVE  Cache!CacheInv'
<1>1. Cache!ClearAllCache
  BY DEF ClearAllCache, Cache!ClearAllCache
<1>2. [Cache!CacheNext]_Cache!cacheVars
  BY <1>1 DEF Cache!CacheNext
<1> QED BY <1>2, CacheSizeFact, Cache!CacheStepInv DEF Cache!CacheStepInv

\* An insertion writes no file that was sealed before.
LEMMA InsertKeepsFiles ==
    ASSUME StoreInv, NEW c \in Request, Insert(c)
    PROVE  /\ containerNum' \in Nat /\ containerNum' >= containerNum
           /\ \A cid \in ContainerId : cid < containerNum => files'[cid] = files[cid]
<1>1. PICK n \in 1 .. ContainerMax : Store(c, n)
  BY RequestAssumption DEF Insert, ChunkInsert, ChunkInsertLz4
<1>2. containerNum \in Nat /\ containerNum <= Len(chunklist) /\ Len(chunklist) < MaxChunks
  BY TypeFacts DEF StoreInv, StoreType, Insert
<1>3. containerNum \in ContainerId /\ Len(chunklist) \in Nat
  BY <1>2, TypeFacts, SizeAssumption DEF ContainerId, StoreInv
<1>4. CASE InsertFits(c, n)
  BY <1>2, <1>4 DEF InsertFits
<1>5. CASE InsertRollsOver(c, n)
  <2>1. Sealed
    BY <1>3, <1>5, SealFacts DEF InsertRollsOver, StoreInv
  <2>2. containerNum' = containerNum + 1
    BY <1>5 DEF InsertRollsOver
  <2>3. ASSUME NEW cid \in ContainerId, cid < containerNum
        PROVE  files'[cid] = files[cid]
    BY <1>2, <2>1, <2>3 DEF Sealed, ContainerId
  <2> QED BY <1>2, <2>2, <2>3
<1> QED BY <1>1, <1>4, <1>5 DEF Store

\* A step that leaves the cache alone keeps it, also when a container is sealed.
LEMMA CacheUnchanged ==
    ASSUME Cache!CacheInv, Coherent, UNCHANGED cache,
           containerNum \in Nat, containerNum' \in Nat, containerNum' >= containerNum,
           \A cid \in ContainerId : cid < containerNum => files'[cid] = files[cid]
    PROVE  Cache!CacheInv' /\ Coherent'
<1>1. UNCHANGED <<keys_, containerPool_, currentIndex_>>
  BY DEF cache
<1>2. Cache!CacheInv'
  <2>1. [Cache!CacheNext]_Cache!cacheVars
    BY <1>1 DEF Cache!cacheVars
  <2> QED BY <2>1, CacheSizeFact, Cache!CacheStepInv DEF Cache!CacheStepInv
<1>3. ASSUME NEW j \in DOMAIN keys_
      PROVE  /\ keys_[j].key \in ContainerId /\ keys_[j].key < containerNum'
             /\ files'[keys_[j].key] # NoFile
             /\ containerPool_[keys_[j].value] = files'[keys_[j].key]
  <2>1. /\ keys_[j].key \in ContainerId /\ keys_[j].key < containerNum
        /\ files[keys_[j].key] # NoFile
        /\ containerPool_[keys_[j].value] = files[keys_[j].key]
    BY DEF Coherent
  <2>2. keys_[j].key < containerNum'
    BY <2>1 DEF ContainerId
  <2> QED BY <2>1, <2>2
<1> QED BY <1>1, <1>2, <1>3 DEF Coherent

\* A lookup caches sealed, written containers only.
LEMMA GetCoherent ==
    ASSUME ReadInv, NEW id \in 1 .. Len(chunklist), GetChunkInfo(id)
    PROVE  Cache!CacheInv' /\ Coherent'
<1> DEFINE cid == chunklist[id].containerID
<1>1. StoreInv /\ Cache!CacheInv /\ Coherent /\ containerNum \in Nat
  BY TypeFacts DEF ReadInv, StoreInv
<1>2. cid \in ContainerId /\ cid \in 0 .. containerNum
  BY <1>1, TypeFacts DEF StoreInv, Placed
<1>3. UNCHANGED <<containerNum, files>>
  BY DEF GetChunkInfo, storeVars
<1>4. CASE GetFromCache(id)
  <2>1. ReadFromCache(cid)
    BY <1>4 DEF GetFromCache
  <2>2. /\ Cache!CacheInv'
        /\ \A j \in DOMAIN keys_' : \E i \in DOMAIN keys_ : keys_'[j] = keys_[i]
        /\ containerPool_' = containerPool_
    BY <1>1, <1>2, <2>1, CacheRead
  <2> QED BY <1>1, <1>3, <2>2 DEF Coherent
<1>5. CASE GetFromDisk(id)
  <2>1. CASE UNCHANGED cache
    BY <1>1, <1>3, <2>1, CacheUnchanged
  <2>2. CASE files[cid] # NoFile /\ InsertToCache(cid, files[cid])
    <3>1. files[cid] \in ContainerData
      BY <1>1, <1>2, <2>2 DEF StoreInv, StoreType
    <3>2. cid < containerNum /\ ~ExistsInCache(cid)
      BY <1>1, <1>2, <1>5 DEF GetFromDisk
    <3>3. /\ Cache!CacheInv'
          /\ \A j \in DOMAIN keys_' :
                \/ /\ keys_'[j].key = cid
                   /\ containerPool_'[keys_'[j].value] = files[cid]
                \/ \E i \in DOMAIN keys_ :
                      /\ keys_'[j] = keys_[i]
                      /\ containerPool_'[keys_[i].value] = containerPool_[keys_[i].value]
      BY <1>1, <1>2, <2>2, <3>1, <3>2, CacheInsert
    <3>4. ASSUME NEW j \in DOMAIN keys_'
          PROVE  /\ keys_'[j].key \in ContainerId /\ keys_'[j].key < containerNum
                 /\ files[keys_'[j].key] # NoFile
                 /\ containerPool_'[keys_'[j].value] = files[keys_'[j].key]
      <4>1. CASE /\ keys_'[j].key = cid
                 /\ containerPool_'[keys_'[j].value] = files[cid]
        BY <1>2, <2>2, <3>2, <4>1
      <4>2. ASSUME NEW i \in DOMAIN keys_, keys_'[j] = keys_[i],
                   containerPool_'[keys_[i].value] = containerPool_[keys_[i].value]
            PROVE  /\ keys_'[j].key \in ContainerId /\ keys_'[j].key < containerNum
                   /\ files[keys_'[j].key] # NoFile
                   /\ containerPool_'[keys_'[j].value] = files[keys_'[j].key]
        BY <1>1, <4>2 DEF Coherent
      <4> QED BY <3>3, <4>1, <4>2
    <3> QED BY <1>3, <3>3, <3>4 DEF Coherent
  <2> QED BY <1>5, <2>1, <2>2 DEF GetFromDisk
<1>6. CASE GetFromCurrent(id)
  BY <1>1, <1>3, <1>6, CacheUnchanged DEF GetFromCurrent
<1> QED BY <1>4, <1>5, <1>6 DEF GetChunkInfo

LEMMA ReadInitInv == Init => ReadInv
<1>1. Init => Coherent
  BY DEF Init, CacheInit, Coherent
<1>2. Init => Cache!CacheInv
  BY SameInit DEF Init
<1> QED BY <1>1, <1>2, StoreInitInv DEF ReadInv

LEMMA ReadStepInv == ReadInv /\ [Next]_vars => ReadInv'
<1> SUFFICES ASSUME ReadInv, [Next]_vars PROVE ReadInv'
  OBVIOUS
<1>1. StoreInv /\ Cache!CacheInv /\ Coherent /\ containerNum \in Nat
  BY TypeFacts DEF ReadInv, StoreInv
<1>2. StoreInv'
  BY <1>1, StoreStepInv
<1>3. ASSUME NEW c \in Request, Insert(c) PROVE ReadInv'
  <2>1. UNCHANGED cache
    BY <1>3 DEF Insert
  <2> QED BY <1>1, <1>2, <1>3, <2>1, InsertKeepsFiles, CacheUnchanged DEF ReadInv
<1>4. ASSUME NEW id \in DOMAIN chunklist, GetChunkInfo(id) PROVE ReadInv'
  <2>1. id \in 1 .. Len(chunklist)
    BY <1>1 DEF StoreInv, StoreType
  <2> QED BY <1>2, <1>4, <2>1, GetCoherent DEF ReadInv
<1>5. CASE ClearCache
  <2>1. ClearAllCache
    BY <1>5 DEF ClearCache
  <2>2. Coherent'
    BY <2>1 DEF ClearAllCache, Coherent
  <2> QED BY <1>1, <1>2, <2>1, <2>2, CacheClear DEF ReadInv
<1>6. CASE Release \/ LeaveBehind \/ UNCHANGED vars
  <2>1. UNCHANGED cache /\ UNCHANGED <<containerNum, files>>
    BY <1>6 DEF Release, LeaveBehind, vars, storeVars
  <2> QED BY <1>1, <1>2, <2>1, CacheUnchanged DEF ReadInv
<1> QED BY <1>3, <1>4, <1>5, <1>6 DEF Next

\* CacheCoherent for every size of the cache: only sealed containers are
\* cached, each with the bytes of its file.
THEOREM CacheStaysCoherent == Spec => []CacheCoherent
<1>1. ReadInv => CacheCoherent
  BY DEF ReadInv, Coherent, CacheCoherent
<1> QED BY ReadInitInv, ReadStepInv, <1>1, PTL DEF Spec

-----------------------------------------------------------------------------
(* Answers in use *)

\* An answer is a copy of what is stored, or points to where it is stored.
Shows(h) ==
    LET cid == chunklist[h.id].containerID IN
    /\ h \in Handle /\ h.id \in 1 .. Len(chunklist)
    /\ h.loadFromDisk <=> h.place = "heap"
    /\ h.place = "heap" => h.bytes = Own(h.id) \/ Lost(h.id)
    /\ h.place = "pool" =>
          /\ cid # containerNum /\ files[cid] # NoFile
          /\ containerPool_[h.slot] = files[cid]
    /\ h.place = "current" => cid = containerNum

\* While a second answer may come, the first one's container is in front of
\* the list, where no eviction reaches it.
HandleInv ==
    /\ held \in Seq(Handle) /\ Len(held) <= 2
    /\ \A i \in 1 .. Len(held) : Shows(held[i])
    /\ Len(held) = 1 /\ held[1].place = "pool" =>
          keys_ # << >> /\ keys_[1].value = held[1].slot

AnswerInv == ReadInv /\ HandleInv

\* What is read of a container, inside it or not, is units.
LEMMA ReadAtType ==
    ASSUME NEW data, \A b \in DOMAIN data : data[b] \in Unit, NEW off \in Nat,
           NEW n \in 0 .. ContainerMax
    PROVE  ReadAt(data, off, n) \in ContainerData
<1>1. ASSUME NEW k \in 0 .. n - 1
      PROVE  (IF off + k \in DOMAIN data THEN data[off + k] ELSE Garbage) \in Unit
  BY DEF Unit
<1>2. ReadAt(data, off, n) \in [0 .. n - 1 -> Unit]
  BY <1>1 DEF ReadAt
<1> QED BY <1>2 DEF ContainerData

LEMMA ContainerUnits ==
    ASSUME NEW data \in ContainerData, NEW b \in DOMAIN data
    PROVE  data[b] \in Unit
  BY DEF ContainerData

\* A copy of what is stored is the chunk, decompressed or not, or it is lost.
LEMMA StoredFacts ==
    ASSUME StoreInv, NEW id \in 1 .. Len(chunklist)
    PROVE  /\ StoredBytes(id) \in ContainerData
           /\ Decompressed(id, StoredBytes(id)) \in ContainerData
           /\ StoredBytes(id) = Own(id) \/ Lost(id)
           /\ Decompressed(id, StoredBytes(id)) = Own(id) \/ Lost(id)
<1> DEFINE c == chunklist[id]
<1>1. /\ c.size \in 0 .. ContainerMax /\ c.offset \in Nat
      /\ c.containerID \in ContainerId
      /\ curContainer.data \in [0 .. ContainerMax - 1 -> Unit]
      /\ files \in [ContainerId -> ContainerData \cup {NoFile}]
  BY TypeFacts DEF StoreInv, StoreType
<1>2. StoredBytes(id) \in ContainerData
  <2>1. CASE c.containerID = containerNum
    BY <1>1, <2>1, ReadAtType DEF StoredBytes, Bytes
  <2>2. CASE c.containerID # containerNum /\ files[c.containerID] = NoFile
    BY <1>1, <2>2, ReadAtType DEF StoredBytes
  <2>3. CASE c.containerID # containerNum /\ files[c.containerID] # NoFile
    <3>1. files[c.containerID] \in ContainerData
      BY <1>1, <2>3
    <3>2. \A b \in DOMAIN files[c.containerID] : files[c.containerID][b] \in Unit
      BY <3>1, ContainerUnits
    <3> QED BY <1>1, <2>3, <3>2, ReadAtType DEF StoredBytes, Bytes
  <2> QED BY <2>1, <2>2, <2>3
<1>3. StoredBytes(id) = Own(id) \/ Lost(id)
  BY PlacedIsIntact
<1>4. Decompressed(id, StoredBytes(id)) = Own(id) \/ Lost(id)
  BY <1>3 DEF Decompressed, Own
<1>5. Decompressed(id, StoredBytes(id)) \in ContainerData
  <2>1. PICK n \in 0 .. ContainerMax : StoredBytes(id) \in [0 .. n - 1 -> Unit]
    BY <1>2 DEF ContainerData
  <2>2. [k \in DOMAIN StoredBytes(id) |-> Garbage] \in [0 .. n - 1 -> Unit]
    BY <2>1 DEF Unit
  <2>3. [k \in DOMAIN StoredBytes(id) |-> Garbage] \in ContainerData
    BY <2>2 DEF ContainerData
  <2> QED BY <1>2, <2>3 DEF Decompressed
<1> QED BY <1>2, <1>3, <1>4, <1>5

\* Both kinds of answer are of the declared type.
LEMMA CopyType ==
    ASSUME NEW id \in 1 .. Len(chunklist), Len(chunklist) \in Nat,
           Len(chunklist) <= MaxChunks, NEW bytes \in ContainerData
    PROVE  Copy(id, bytes, TRUE) \in Handle
<1>1. id \in ChunkId /\ 0 \in Slot
  BY SizeAssumption, CacheHoldsTwo DEF ChunkId, Slot
<1> QED BY <1>1 DEF Copy, Handle

LEMMA InPlaceType ==
    ASSUME NEW id \in 1 .. Len(chunklist), Len(chunklist) \in Nat,
           Len(chunklist) <= MaxChunks, NEW place \in {"pool", "current"},
           NEW slot \in Slot
    PROVE  InPlace(id, place, slot, FALSE) \in Handle
<1>1. id \in ChunkId
  BY SizeAssumption DEF ChunkId
<1>2. << >> \in [0 .. 0 - 1 -> Unit]
  OBVIOUS
<1>3. << >> \in ContainerData
  BY <1>2, SizeAssumption DEF ContainerData
<1> QED BY <1>1, <1>3 DEF InPlace, Handle

\* The store is what a lookup reads, so nothing it says of a chunk changes.
LEMMA GetKeepsStore ==
    ASSUME NEW id, UNCHANGED storeVars
    PROVE  /\ UNCHANGED <<containerNum, curContainer, chunklist, files, failed>>
           /\ Own(id)' = Own(id) /\ (Lost(id)' <=> Lost(id))
  BY DEF storeVars, Own, Lost, Saved, StoredBytes, Bytes, ReadAt

\* A copy shows its chunk.
LEMMA CopyShows ==
    ASSUME StoreInv, UNCHANGED storeVars, NEW id \in 1 .. Len(chunklist),
           NEW bytes \in {StoredBytes(id), Decompressed(id, StoredBytes(id))},
           NEW h, h = Copy(id, bytes, TRUE)
    PROVE  /\ Shows(h)' /\ h.id = id /\ h.place = "heap" /\ h \in Handle
           /\ h.loadFromDisk = TRUE
<1>1. bytes \in ContainerData /\ (bytes = Own(id) \/ Lost(id))
  BY StoredFacts
<1>2. Len(chunklist) \in Nat /\ Len(chunklist) <= MaxChunks
  BY TypeFacts DEF StoreInv, StoreType
<1>3. h \in Handle
  BY <1>1, <1>2, CopyType
<1>4. h.id = id /\ h.place = "heap" /\ h.bytes = bytes /\ h.loadFromDisk = TRUE
  BY DEF Copy
<1>5. Own(id)' = Own(id) /\ (Lost(id)' <=> Lost(id)) /\ chunklist' = chunklist
  BY GetKeepsStore
<1>6. h.bytes = Own(id)' \/ Lost(id)'
  BY <1>1, <1>4, <1>5
<1> QED BY <1>3, <1>4, <1>5, <1>6 DEF Shows

\* Each path of Get_Chunk_Info flags its answer exactly when it malloc'ed.
Counted(h) ==
    \/ h.loadFromDisk = TRUE /\ Malloc
    \/ h.loadFromDisk = FALSE /\ UNCHANGED memory

\* What a lookup answers shows the chunk, and an answer in a slot has its
\* container in front of the list.
LEMMA GetAnswers ==
    ASSUME ReadInv, NEW id \in 1 .. Len(chunklist), GetChunkInfo(id)
    PROVE  \E h \in Handle :
              /\ held' = Append(held, h) /\ h.id = id
              /\ Shows(h)' /\ Counted(h)
              /\ h.place = "pool" => keys_' # << >> /\ keys_'[1].value = h.slot
<1> DEFINE c == chunklist[id]
           cid == c.containerID
<1>1. StoreInv /\ Cache!CacheInv /\ Coherent /\ containerNum \in Nat
  BY TypeFacts DEF ReadInv, StoreInv
<1>2. cid \in ContainerId
  BY <1>1, TypeFacts DEF StoreInv
<1>3. UNCHANGED storeVars /\ UNCHANGED <<containerNum, chunklist, files>>
  BY DEF GetChunkInfo, storeVars
<1>4. Len(chunklist) \in Nat /\ Len(chunklist) <= MaxChunks
  BY <1>1, TypeFacts DEF StoreInv, StoreType
<1>5. ASSUME NEW data, Bytes(c, data) = StoredBytes(id), NEW h,
             h = Copy(id, Copied(id, data), TRUE), Malloc
      PROVE  Shows(h)' /\ h.id = id /\ h.place = "heap" /\ h \in Handle /\ Counted(h)
  <2>1. h = Copy(id, IF c.deltaFlag = "NO_DELTA" THEN Decompressed(id, StoredBytes(id))
                     ELSE StoredBytes(id), TRUE)
    BY <1>5 DEF Copied
  <2>2. /\ Shows(h)' /\ h.id = id /\ h.place = "heap" /\ h \in Handle
        /\ h.loadFromDisk = TRUE
    BY <1>1, <1>3, <2>1, CopyShows
  <2> QED BY <1>5, <2>2 DEF Counted
<1>6. CASE GetFromCache(id)
  <2>1. ReadFromCache(cid) /\ ExistsInCache(cid)
    BY <1>6 DEF GetFromCache, ReadFromCache
  <2>2. /\ keys_' # << >> /\ keys_'[1].value = SlotOf(cid)
        /\ containerPool_' = containerPool_
    BY <1>1, <1>2, <2>1, CacheRead
  <2>3. Find(cid) \in DOMAIN keys_ /\ keys_[Find(cid)].key = cid
    BY <2>1 DEF ExistsInCache, Find
  <2>4. /\ cid < containerNum /\ files[cid] # NoFile
        /\ containerPool_[SlotOf(cid)] = files[cid]
    BY <1>1, <2>3 DEF Coherent, SlotOf
  <2>5. cid # containerNum
    BY <1>1, <1>2, <2>4 DEF ContainerId
  <2>6. CASE c.deltaFlag = "NO_DELTA"
    <3>1. PICK h : h = Copy(id, Copied(id, containerPool_[SlotOf(cid)]), TRUE)
      OBVIOUS
    <3>2. Bytes(c, containerPool_[SlotOf(cid)]) = StoredBytes(id)
      BY <2>4, <2>5 DEF StoredBytes
    <3>3. held' = Append(held, h) /\ Malloc
      BY <1>6, <2>6, <3>1 DEF GetFromCache
    <3> QED BY <1>5, <3>1, <3>2, <3>3
  <2>7. CASE c.deltaFlag # "NO_DELTA"
    <3>1. PICK h : h = InPlace(id, "pool", SlotOf(cid), FALSE)
      OBVIOUS
    <3>2. SlotOf(cid) \in Slot
      <4>1. keys_ \in Seq(Cache!Node)
        BY <1>1 DEF Cache!CacheInv, Cache!CacheTypeOK
      <4>2. keys_[Find(cid)] \in Cache!Node
        BY <2>3, <4>1
      <4> QED BY <4>2 DEF SlotOf, Cache!Node, Cache!Slot, Slot
    <3>3. h \in Handle
      BY <1>4, <3>1, <3>2, InPlaceType
    <3>4. /\ h.id = id /\ h.place = "pool" /\ h.slot = SlotOf(cid)
          /\ h.loadFromDisk = FALSE
      BY <3>1 DEF InPlace
    <3>5. held' = Append(held, h) /\ UNCHANGED memory
      BY <1>6, <2>7, <3>1 DEF GetFromCache
    <3>6. Shows(h)'
      BY <1>3, <2>2, <2>4, <2>5, <3>3, <3>4 DEF Shows
    <3> QED BY <2>2, <3>3, <3>4, <3>5, <3>6 DEF Counted
  <2> QED BY <2>6, <2>7
<1>7. CASE GetFromDisk(id)
  <2>1. CASE files[cid] # NoFile /\ held' = Append(held, Copy(id, Copied(id, files[cid]), TRUE)) /\ Malloc
    <3>1. PICK h : h = Copy(id, Copied(id, files[cid]), TRUE)
      OBVIOUS
    <3>2. Bytes(c, files[cid]) = StoredBytes(id)
      BY <1>7, <2>1 DEF StoredBytes, GetFromDisk
    <3> QED BY <1>5, <2>1, <3>1, <3>2
  <2>2. CASE files[cid] = NoFile /\ held' = Append(held, Copy(id, ReadAt(<< >>, 0, c.size), TRUE))
             /\ Malloc
    <3>1. PICK h : h = Copy(id, StoredBytes(id), TRUE)
      OBVIOUS
    <3>2. ReadAt(<< >>, 0, c.size) = StoredBytes(id)
      BY <1>7, <2>2 DEF StoredBytes, GetFromDisk
    <3>3. Shows(h)' /\ h.id = id /\ h.place = "heap" /\ h \in Handle /\ Counted(h)
      BY <1>1, <1>3, <2>2, <3>1, CopyShows DEF Counted
    <3> QED BY <2>2, <3>1, <3>2, <3>3
  <2> QED BY <1>7, <2>1, <2>2 DEF GetFromDisk
<1>8. CASE GetFromCurrent(id)
  <2>1. CASE c.deltaFlag = "NO_DELTA"
    <3>1. PICK h : h = Copy(id, Copied(id, curContainer.data), TRUE)
      OBVIOUS
    <3>2. Bytes(c, curContainer.data) = StoredBytes(id)
      BY <1>8 DEF StoredBytes, GetFromCurrent
    <3>3. held' = Append(held, h) /\ Malloc
      BY <1>8, <2>1, <3>1 DEF GetFromCurrent
    <3> QED BY <1>5, <3>1, <3>2, <3>3
  <2>2. CASE c.deltaFlag # "NO_DELTA"
    <3>1. PICK h : h = InPlace(id, "current", 0, FALSE)
      OBVIOUS
    <3>2. 0 \in Slot
      BY CacheHoldsTwo DEF Slot
    <3>3. h \in Handle
      BY <1>4, <3>1, <3>2, InPlaceType
    <3>4. h.id = id /\ h.place = "current" /\ h.loadFromDisk = FALSE
      BY <3>1 DEF InPlace
    <3>5. held' = Append(held, h) /\ UNCHANGED memory
      BY <1>8, <2>2, <3>1 DEF GetFromCurrent
    <3>6. Shows(h)'
      BY <1>3, <1>8, <3>3, <3>4 DEF Shows, GetFromCurrent
    <3> QED BY <3>3, <3>4, <3>5, <3>6 DEF Counted
  <2> QED BY <2>1, <2>2
<1> QED BY <1>6, <1>7, <1>8 DEF GetChunkInfo

\* An answer in use stays valid when its store stays and, if it is in a slot,
\* the slot keeps its contents.
LEMMA ShowsStays ==
    ASSUME NEW h, Shows(h), UNCHANGED storeVars,
           h.place = "pool" => containerPool_'[h.slot] = containerPool_[h.slot]
    PROVE  Shows(h)'
<1>1. /\ UNCHANGED <<containerNum, chunklist, files>>
      /\ Own(h.id)' = Own(h.id) /\ (Lost(h.id)' <=> Lost(h.id))
  BY GetKeepsStore
<1> QED BY <1>1 DEF Shows

\* The second lookup of a decode leaves the first answer alone: what it evicts
\* is never the container in front.
LEMMA FirstStays ==
    ASSUME AnswerInv, Len(held) = 1, NEW id \in 1 .. Len(chunklist), GetChunkInfo(id),
           NEW h, h = held[1]
    PROVE  Shows(h)'
<1> DEFINE cid == chunklist[id].containerID
<1>1. /\ StoreInv /\ Cache!CacheInv /\ Shows(h)
      /\ h.place = "pool" => keys_ # << >> /\ keys_[1].value = h.slot
  BY DEF AnswerInv, ReadInv, HandleInv
<1>2. cid \in ContainerId /\ files \in [ContainerId -> ContainerData \cup {NoFile}]
  BY <1>1, TypeFacts DEF StoreInv, StoreType
<1>3. UNCHANGED storeVars
  BY DEF GetChunkInfo
<1>4. ASSUME h.place = "pool"
      PROVE  containerPool_'[h.slot] = containerPool_[h.slot]
  <2>1. CASE GetFromCache(id)
    <3>1. ReadFromCache(cid)
      BY <2>1 DEF GetFromCache
    <3> QED BY <1>1, <1>2, <3>1, CacheRead
  <2>2. CASE UNCHANGED cache
    BY <2>2 DEF cache
  <2>3. CASE /\ ~ExistsInCache(cid) /\ files[cid] # NoFile
             /\ InsertToCache(cid, files[cid])
    <3>1. files[cid] \in ContainerData
      BY <1>2, <2>3
    <3>2. keys_ # << >> => containerPool_'[keys_[1].value] = containerPool_[keys_[1].value]
      BY <1>1, <1>2, <2>3, <3>1, CacheInsert
    <3> QED BY <1>1, <1>4, <3>2
  <2> QED BY <2>1, <2>2, <2>3 DEF GetChunkInfo, GetFromDisk, GetFromCurrent
<1> QED BY <1>1, <1>3, <1>4, ShowsStays

\* Appending to a sequence of no or one element.
LEMMA AppendOne ==
    ASSUME NEW S, NEW s \in Seq(S), NEW e \in S
    PROVE  /\ Append(s, e) \in Seq(S) /\ Len(Append(s, e)) = Len(s) + 1
           /\ Append(s, e)[Len(s) + 1] = e
           /\ Len(s) = 1 => Append(s, e)[1] = s[1]
  OBVIOUS

LEMMA GetHandleInv ==
    ASSUME AnswerInv, NEW id \in 1 .. Len(chunklist), GetChunkInfo(id)
    PROVE  HandleInv'
<1>1. ReadInv /\ held \in Seq(Handle) /\ Len(held) \in {0, 1}
  <2>1. ReadInv /\ held \in Seq(Handle)
    BY DEF AnswerInv, HandleInv
  <2>2. Len(held) < 2 /\ Len(held) \in Nat
    BY <2>1 DEF GetChunkInfo
  <2>3. \A n \in Nat : n < 2 => n \in {0, 1}
    OBVIOUS
  <2> QED BY <2>1, <2>2, <2>3, Zenon
<1>2. PICK h \in Handle :
         /\ held' = Append(held, h)
         /\ Shows(h)'
         /\ h.place = "pool" => keys_' # << >> /\ keys_'[1].value = h.slot
  BY <1>1, GetAnswers
<1>3. /\ held' \in Seq(Handle) /\ Len(held') = Len(held) + 1
      /\ held'[Len(held) + 1] = h
      /\ Len(held) = 1 => held'[1] = held[1]
  BY <1>1, <1>2, AppendOne
<1>4. CASE Len(held) = 0
  <2>1. Len(held') = 1 /\ held'[1] = h
    BY <1>3, <1>4
  <2>2. ASSUME NEW i \in 1 .. Len(held') PROVE Shows(held[i])'
    <3>1. held'[i] = h
      BY <2>1
    <3> QED BY <1>2, <3>1 DEF Shows
  <2> QED BY <1>2, <1>3, <2>1, <2>2 DEF HandleInv
<1>5. CASE Len(held) = 1
  <2>1. PICK g : g = held[1]
    OBVIOUS
  <2>2. Len(held') = 2 /\ held'[1] = g /\ held'[2] = h
    BY <1>3, <1>5, <2>1
  <2>3. Shows(g)'
    BY <1>5, <2>1, FirstStays
  <2>4. ASSUME NEW i \in 1 .. Len(held') PROVE Shows(held[i])'
    <3>1. held'[i] \in {g, h}
      BY <2>2
    <3> QED BY <1>2, <2>3, <3>1 DEF Shows
  <2>5. held' \in Seq(Handle) /\ Len(held') = 2
    BY <1>3, <2>2
  <2> QED BY <2>4, <2>5 DEF HandleInv
<1> QED BY <1>1, <1>4, <1>5

LEMMA AnswerInitInv == Init => AnswerInv
<1>1. Init => HandleInv
  BY DEF Init, HandleInv
<1> QED BY <1>1, ReadInitInv DEF AnswerInv

LEMMA AnswerStepInv == AnswerInv /\ [Next]_vars => AnswerInv'
<1> SUFFICES ASSUME AnswerInv, [Next]_vars PROVE AnswerInv'
  OBVIOUS
<1>1. ReadInv /\ HandleInv /\ ReadInv'
  BY ReadStepInv DEF AnswerInv
<1>2. ASSUME held' = << >> PROVE HandleInv'
  BY <1>2 DEF HandleInv
<1>3. ASSUME NEW c \in Request, Insert(c) PROVE HandleInv'
  BY <1>2, <1>3 DEF Insert
<1>4. ASSUME NEW id \in DOMAIN chunklist, GetChunkInfo(id) PROVE HandleInv'
  <2>1. id \in 1 .. Len(chunklist)
    BY <1>1 DEF ReadInv, StoreInv, StoreType
  <2> QED BY <1>4, <2>1, GetHandleInv
<1>5. ASSUME Release \/ LeaveBehind \/ ClearCache PROVE HandleInv'
  BY <1>2, <1>5 DEF Release, LeaveBehind, ClearCache
<1>6. ASSUME UNCHANGED vars PROVE HandleInv'
  <2>1. UNCHANGED <<storeVars, cache, held>>
    BY <1>6 DEF vars
  <2>2. UNCHANGED <<keys_, containerPool_>>
    BY <2>1 DEF cache
  <2>3. ASSUME NEW i \in 1 .. Len(held) PROVE Shows(held[i])'
    <3>1. PICK h : h = held[i]
      OBVIOUS
    <3>2. Shows(h)
      BY <1>1, <3>1 DEF HandleInv
    <3>3. Shows(h)'
      BY <2>1, <2>2, <3>2, ShowsStays
    <3> QED BY <2>1, <3>1, <3>3 DEF Shows
  <2> QED BY <1>1, <2>1, <2>2, <2>3 DEF HandleInv
<1> QED BY <1>1, <1>3, <1>4, <1>5, <1>6 DEF Next, AnswerInv

\* Answers of either kind show the chunk, unless it is lost.
LEMMA AnswersExact ==
    ASSUME AnswerInv, NEW i \in 1 .. Len(held)
    PROVE  /\ Deref(held[i]) = Own(held[i].id) \/ Lost(held[i].id)
           /\ held[i].loadFromDisk <=> held[i].place = "heap"
<1>1. StoreInv /\ Shows(held[i])
  BY DEF AnswerInv, ReadInv, HandleInv
<1>2. PICK h : h = held[i]
  OBVIOUS
<1>3. Shows(h) /\ h.id \in 1 .. Len(chunklist) /\ h.place \in {"heap", "pool", "current"}
  BY <1>1, <1>2 DEF Shows, Handle
<1>4. h.place # "heap" => Deref(h) = StoredBytes(h.id)
  BY <1>3 DEF Shows, Deref, StoredBytes
<1>5. h.place = "heap" => Deref(h) = h.bytes
  BY DEF Deref
<1>6. StoredBytes(h.id) = Own(h.id) \/ Lost(h.id)
  BY <1>1, <1>3, StoredFacts
<1>7. Deref(h) = Own(h.id) \/ Lost(h.id)
  BY <1>3, <1>4, <1>5, <1>6 DEF Shows
<1> QED BY <1>2, <1>3, <1>7 DEF Shows

\* HandlesValid for every cache of two slots or more: an answer in use shows
\* the chunk it was asked for until it is released.
THEOREM AnswersStayValid == Spec => []HandlesValid
<1>1. AnswerInv => HandlesValid
  BY AnswersExact DEF HandlesValid, AnswerInv, HandleInv
<1> QED BY AnswerInitInv, AnswerStepInv, <1>1, PTL DEF Spec

-----------------------------------------------------------------------------
(* What is malloc'ed is freed *)

\* Every malloc is flagged by an answer in use, or was left behind.
MemoryInv ==
    /\ copies \in Nat /\ left \in 0 .. MaxLeft
    /\ copies = left + Cardinality(Flagged)

\* The flagged answers are finitely many.
Flags(s) == {i \in DOMAIN s : s[i].loadFromDisk}

LEMMA FlagsFinite ==
    ASSUME NEW s \in Seq(Handle)
    PROVE  IsFiniteSet(Flags(s)) /\ Cardinality(Flags(s)) \in Nat
<1> DEFINE F == Flags(s)
<1>1. F \subseteq 1 .. Len(s) /\ Len(s) \in Int /\ 1 \in Int
  BY DEF Flags
<1>2. IsFiniteSet(1 .. Len(s))
  BY <1>1, FS_Interval
<1>3. IsFiniteSet(F)
  BY <1>1, <1>2, FS_Subset
<1> QED BY <1>3, FS_CardinalityType

\* The flags of a sequence of answers, when one more comes.
LEMMA FlagsAppend ==
    ASSUME NEW s \in Seq(Handle), NEW h \in Handle
    PROVE  /\ h.loadFromDisk = TRUE =>
                  Cardinality(Flags(Append(s, h))) = Cardinality(Flags(s)) + 1
           /\ h.loadFromDisk = FALSE => Flags(Append(s, h)) = Flags(s)
<1> DEFINE F == Flags(s)
           G == Flags(Append(s, h))
<1>1. /\ DOMAIN s = 1 .. Len(s) /\ DOMAIN Append(s, h) = 1 .. Len(s) + 1
      /\ Append(s, h)[Len(s) + 1] = h
      /\ \A i \in 1 .. Len(s) : Append(s, h)[i] = s[i]
      /\ Len(s) \in Nat
  OBVIOUS
<1>2. Len(s) + 1 \notin F /\ F \subseteq 1 .. Len(s)
  BY <1>1 DEF Flags
<1>3. IsFiniteSet(F) /\ Cardinality(F) \in Nat
  BY FlagsFinite
<1>4. h.loadFromDisk = FALSE => G = F
  BY <1>1 DEF Flags
<1>5. ASSUME h.loadFromDisk = TRUE PROVE G = F \cup {Len(s) + 1}
  BY <1>1, <1>5 DEF Flags
<1>6. Cardinality(F \cup {Len(s) + 1}) = Cardinality(F) + 1
  <2> HIDE DEF F
  <2> QED BY <1>2, <1>3, FS_AddElement
<1> QED BY <1>4, <1>5, <1>6

LEMMA MemoryStepInv == AnswerInv /\ MemoryInv /\ [Next]_vars => MemoryInv'
<1> SUFFICES ASSUME AnswerInv, MemoryInv, [Next]_vars PROVE MemoryInv'
  OBVIOUS
<1>1. held \in Seq(Handle) /\ MaxLeft \in Nat
  BY SizeAssumption DEF AnswerInv, HandleInv
<1>2. ASSUME UNCHANGED <<held, memory>> PROVE MemoryInv'
  BY <1>2 DEF MemoryInv, memory, Flagged
<1>3. ASSUME held' = << >> PROVE Cardinality(Flagged') = 0
  <2>1. Flagged' = {}
    BY <1>3 DEF Flagged
  <2> QED BY <2>1, FS_EmptySet
<1>4. Cardinality(Flagged) \in Nat
  <2>1. Flagged = Flags(held)
    BY DEF Flagged, Flags
  <2> QED BY <1>1, <2>1, FlagsFinite
<1>5. ASSUME NEW c \in Request, Insert(c) PROVE MemoryInv'
  BY <1>2, <1>5 DEF Insert
<1>6. ASSUME NEW id \in DOMAIN chunklist, GetChunkInfo(id) PROVE MemoryInv'
  <2>1. id \in 1 .. Len(chunklist)
    BY DEF AnswerInv, ReadInv, StoreInv, StoreType
  <2>2. PICK h \in Handle : held' = Append(held, h) /\ Counted(h)
    BY <1>6, <2>1, GetAnswers DEF AnswerInv
  <2>3. Flags(held) = Flagged /\ Flags(Append(held, h)) = Flagged'
    BY <2>2 DEF Flagged, Flags
  <2>4. /\ h.loadFromDisk = TRUE =>
               Cardinality(Flags(Append(held, h))) = Cardinality(Flags(held)) + 1
        /\ h.loadFromDisk = FALSE => Flags(Append(held, h)) = Flags(held)
    BY <1>1, FlagsAppend
  <2>5. CASE h.loadFromDisk = TRUE /\ Malloc
    BY <1>4, <2>3, <2>4, <2>5 DEF MemoryInv, Malloc
  <2>6. CASE h.loadFromDisk = FALSE /\ UNCHANGED memory
    BY <2>3, <2>4, <2>6 DEF MemoryInv, memory
  <2> QED BY <2>2, <2>5, <2>6 DEF Counted
<1>7. CASE Release
  <2>1. held' = << >> /\ copies' = copies - Cardinality(Flagged) /\ left' = left
    BY <1>7 DEF Release
  <2> QED BY <1>3, <1>4, <2>1 DEF MemoryInv
<1>8. CASE LeaveBehind
  <2>1. /\ held' = << >> /\ copies' = copies
        /\ left' = left + Cardinality(Flagged) /\ left' <= MaxLeft
    BY <1>8 DEF LeaveBehind
  <2> QED BY <1>1, <1>3, <1>4, <2>1 DEF MemoryInv
<1>9. CASE ClearCache
  BY <1>2, <1>9 DEF ClearCache
<1>10. CASE UNCHANGED vars
  BY <1>2, <1>10 DEF vars
<1> QED BY <1>5, <1>6, <1>7, <1>8, <1>9, <1>10 DEF Next

LEMMA MemoryInitInv == Init => MemoryInv
<1> SUFFICES ASSUME Init PROVE MemoryInv
  OBVIOUS
<1>1. Flagged = {}
  BY DEF Init, Flagged
<1>2. copies = 0 /\ left = 0 /\ MaxLeft \in Nat
  BY SizeAssumption DEF Init
<1> QED BY <1>1, <1>2, FS_EmptySet DEF MemoryInv

\* FreedIsOwned, over every sequence of lookups, releases and early returns:
\* what Get_Chunk_Info malloc'ed is what the answers in use are flagged for, or
\* what an early return left, and no flag is on a slot or the open container.
THEOREM OnlyCopiesAreFreed == Spec => []FreedIsOwned
<1>1. AnswerInv /\ MemoryInv => FreedIsOwned
  BY AnswersExact DEF FreedIsOwned, AnswerInv, HandleInv, MemoryInv, Flagged
<1> QED BY AnswerInitInv, AnswerStepInv, MemoryInitInv, MemoryStepInv, <1>1, PTL DEF Spec

\* Type correctness, for every value of the constants.
THEOREM StorageTypeCorrect == Spec => []TypeOK
<1>1. AnswerInv /\ MemoryInv => TypeOK
  <2> SUFFICES ASSUME AnswerInv, MemoryInv PROVE TypeOK
    OBVIOUS
  <2>1. StoreType /\ OpenAgrees /\ Cache!CacheInv /\ HandleInv
    BY DEF AnswerInv, ReadInv, StoreInv
  <2>2. containerNum \in ContainerId /\ curOffset \in 0 .. ContainerMax
    BY <2>1, TypeFacts DEF StoreType, ContainerId
  <2>3. CacheTypeOK
    BY <2>1 DEF Cache!CacheInv, Cache!CacheTypeOK, CacheTypeOK, Cache!Node, Node,
                Cache!Slot, Slot
  <2> QED BY <2>1, <2>2, <2>3 DEF StoreType, HandleInv, MemoryInv, TypeOK
<1> QED BY AnswerInitInv, AnswerStepInv, MemoryInitInv, MemoryStepInv, <1>1, PTL DEF Spec

-----------------------------------------------------------------------------
(* The storage layer is a chunk store *)

\* the abstract state of ImplementsChunkStore
shown ==
    [id \in 1 .. Len(chunklist) |-> IF Lost(id) THEN Own(id) ELSE StoredBytes(id)]
answered ==
    [i \in 1 .. Len(held) |-> IF Lost(held[i].id) THEN Garbage ELSE Deref(held[i])]

\* A sequence with one element more than another.
LEMMA AppendIs ==
    ASSUME NEW S, NEW s \in Seq(S), NEW t \in Seq(S), NEW e \in S,
           Len(t) = Len(s) + 1, t[Len(s) + 1] = e,
           \A i \in 1 .. Len(s) : t[i] = s[i]
    PROVE  t = Append(s, e)
  OBVIOUS

LEMMA FunctionIsSeq ==
    ASSUME NEW S, NEW n \in Nat, NEW f \in [1 .. n -> S]
    PROVE  f \in Seq(S) /\ Len(f) = n
  OBVIOUS

\* What was put is never changed by anything but a failure, which the abstract
\* store does not see.
LEMMA ShownFacts == StoreInv => shown = [id \in 1 .. Len(chunklist) |-> Own(id)]
  BY StoredFacts DEF shown

\* Writes fail only where they may.
FailsOnlyIfAllowed == failed # {} => AllowWriteFailure

LEMMA FailsStep == FailsOnlyIfAllowed /\ [Next]_vars => FailsOnlyIfAllowed'
<1> SUFFICES ASSUME FailsOnlyIfAllowed, [Next]_vars PROVE FailsOnlyIfAllowed'
  OBVIOUS
<1>1. failed' = failed \/ AllowWriteFailure
  BY DEF Next, vars, storeVars, Insert, ChunkInsert, ChunkInsertLz4, Store, InsertFits,
         InsertRollsOver, WriteContainer, GetChunkInfo, Release, LeaveBehind, ClearCache
<1> QED BY <1>1 DEF FailsOnlyIfAllowed

\* An insertion puts the chunk, of some size, behind the others.
LEMMA InsertPuts ==
    ASSUME StoreInv, StoreInv', NEW c \in Request, Insert(c)
    PROVE  Store_!Next
<1> DEFINE n == Len(chunklist)
<1>1. n \in Nat /\ n < MaxChunks /\ chunklist \in Seq(ChunkMeta)
  BY DEF StoreInv, StoreType, Insert
<1>2. PICK size \in 1 .. ContainerMax : Store(c, size)
  BY RequestAssumption DEF Insert, ChunkInsert, ChunkInsertLz4
<1>3. PICK meta : chunklist' = Append(chunklist, meta) /\ meta.size = size
  BY <1>2 DEF Store, InsertFits, InsertRollsOver, Place
<1>4. PICK last : last = n + 1
  OBVIOUS
<1>5. /\ Len(chunklist') = last /\ chunklist'[last] = meta
      /\ \A id \in 1 .. n : chunklist'[id] = chunklist[id]
  BY <1>1, <1>3, <1>4
<1>6. shown = [id \in 1 .. n |-> Own(id)]
  BY ShownFacts
<1>7. shown' = [id \in 1 .. last |-> Saved(id, chunklist'[id].size)]
  <2>1. (StoreInv => shown = [id \in 1 .. Len(chunklist) |-> Own(id)])'
    BY ShownFacts, PTL
  <2> QED BY <1>5, <2>1 DEF Own
<1> DEFINE Contents == {Saved(id, k) : id \in ChunkId, k \in 1 .. ContainerMax}
<1>8. ASSUME NEW id \in 1 .. last
      PROVE  Saved(id, chunklist'[id].size) \in Contents
  <2>1. id \in ChunkId
    BY <1>1, <1>4, SizeAssumption DEF ChunkId
  <2>2. id \in 1 .. n \/ id = last
    BY <1>1, <1>4
  <2>3. \A i \in 1 .. n : chunklist[i].size \in 1 .. ContainerMax
    BY TypeFacts DEF StoreInv
  <2>4. chunklist'[id].size \in 1 .. ContainerMax
    BY <1>3, <1>5, <2>2, <2>3
  <2> QED BY <2>1, <2>4
<1>9. ASSUME NEW id \in 1 .. n
      PROVE  Own(id) = Saved(id, chunklist'[id].size) /\ Own(id) \in Contents
  BY <1>1, <1>4, <1>5, <1>8 DEF Own
<1>10. PICK e \in Contents : e = Saved(last, size)
  BY <1>1, <1>3, <1>4, <1>5, <1>8
<1> HIDE DEF Contents
<1>11. shown \in Seq(Contents) /\ Len(shown) = n
  <2>1. shown \in [1 .. n -> Contents]
    BY <1>6, <1>9
  <2> QED BY <1>1, <2>1, FunctionIsSeq
<1>12. shown' \in Seq(Contents) /\ Len(shown') = n + 1
  <2>1. shown' \in [1 .. last -> Contents] /\ last \in Nat
    BY <1>1, <1>4, <1>7, <1>8
  <2> QED BY <1>4, <2>1, FunctionIsSeq
<1>13. shown'[n + 1] = e
  BY <1>1, <1>3, <1>4, <1>5, <1>7, <1>10
<1>14. \A id \in 1 .. n : shown'[id] = shown[id]
  BY <1>1, <1>4, <1>6, <1>7, <1>9
<1>15. shown' = Append(shown, e)
  BY <1>11, <1>12, <1>13, <1>14, AppendIs
<1>16. answered' = answered
  <2>1. held = << >> /\ held' = << >>
    BY DEF Insert
  <2> QED BY <2>1 DEF answered
<1>17. Store_!Put(e)
  BY <1>15, <1>16 DEF Store_!Put, shown, answered
<1> QED BY <1>10, <1>17 DEF Store_!Next, Contents

\* An answer is the chunk or, where it is lost, none.
LEMMA AnsweredFacts ==
    AnswerInv => answered = [i \in 1 .. Len(held) |->
                                IF Lost(held[i].id) THEN Garbage ELSE Own(held[i].id)]
  BY AnswersExact DEF answered

\* A lookup adds what the store holds, or nothing, to the answers in use.
LEMMA GetGets ==
    ASSUME AnswerInv, AnswerInv', FailsOnlyIfAllowed,
           NEW id \in 1 .. Len(chunklist), GetChunkInfo(id)
    PROVE  Store_!Next
<1> DEFINE n == Len(held)
           a(i) == IF Lost(i) THEN Garbage ELSE Own(i)
<1>1. n \in Nat /\ held \in Seq(Handle) /\ StoreInv
  BY DEF AnswerInv, ReadInv, HandleInv
<1>2. PICK h \in Handle : held' = Append(held, h) /\ h.id = id
  BY GetAnswers DEF AnswerInv
<1>3. UNCHANGED storeVars
  BY DEF GetChunkInfo
<1>4. Len(held') = n + 1 /\ held'[n + 1] = h /\ \A i \in 1 .. n : held'[i] = held[i]
  BY <1>1, <1>2
<1>6. answered = [i \in 1 .. n |-> a(held[i].id)]
  BY AnsweredFacts
<1>7. answered' = [i \in 1 .. n + 1 |-> a(held'[i].id)]
  <2>1. (AnswerInv => answered = [i \in 1 .. Len(held) |->
                          IF Lost(held[i].id) THEN Garbage ELSE Own(held[i].id)])'
    BY AnsweredFacts, PTL
  <2>2. answered' = [i \in 1 .. n + 1 |->
                        (IF Lost(held[i].id) THEN Garbage ELSE Own(held[i].id))']
    BY <1>4, <2>1
  <2>3. \A i \in 1 .. n + 1 :
           (IF Lost(held[i].id) THEN Garbage ELSE Own(held[i].id))' = a(held'[i].id)
    BY <1>3 DEF storeVars, Own, Lost, Saved, StoredBytes, Bytes, ReadAt
  <2> QED BY <2>2, <2>3
<1> DEFINE S == {answered[i] : i \in 1 .. n} \cup {a(id)}
<1>8. answered \in [1 .. n -> S] /\ answered' \in [1 .. n + 1 -> S]
  <2>1. answered \in [1 .. n -> S]
    BY <1>6
  <2>2. \A i \in 1 .. n : a(held'[i].id) = answered[i]
    BY <1>4, <1>6
  <2>3. a(held'[n + 1].id) = a(id)
    BY <1>2, <1>4
  <2>4. \A i \in 1 .. n + 1 : a(held'[i].id) \in S
    <3>1. \A i \in 1 .. n + 1 : i \in 1 .. n \/ i = n + 1
      BY <1>1
    <3> QED BY <2>2, <2>3, <3>1
  <2> QED BY <1>7, <2>1, <2>4
<1>9. /\ answered'[n + 1] = a(id)
      /\ \A i \in 1 .. n : answered'[i] = answered[i]
  BY <1>1, <1>2, <1>4, <1>6, <1>7
<1>10. a(id) \in S /\ n + 1 \in Nat
  BY <1>1
<1>11. shown' = shown
  BY <1>3 DEF storeVars, shown, Own, Lost, Saved, StoredBytes, Bytes, ReadAt
<1>12. id \in DOMAIN shown /\ shown[id] = Own(id)
  BY <1>1, ShownFacts
<1>13. Lost(id) => AllowWriteFailure
  BY DEF Lost, FailsOnlyIfAllowed
<1>14. a(id) \in {shown[id]} \cup IF AllowWriteFailure THEN {Garbage} ELSE {}
  BY <1>12, <1>13
<1> HIDE DEF a, S
<1>15. answered' = Append(answered, a(id))
  <2>1. answered \in Seq(S) /\ Len(answered) = n
    BY <1>1, <1>8, FunctionIsSeq
  <2>2. answered' \in Seq(S) /\ Len(answered') = n + 1
    BY <1>8, <1>10, FunctionIsSeq
  <2> QED BY <1>9, <1>10, <2>1, <2>2, AppendIs
<1>16. Store_!Get(id)
  BY <1>11, <1>14, <1>15 DEF Store_!Get, shown, answered
<1>17. id \in DOMAIN [i \in 1 .. Len(chunklist) |-> IF Lost(i) THEN Own(i) ELSE StoredBytes(i)]
  OBVIOUS
<1> QED BY <1>16, <1>17 DEF Store_!Next

\* ImplementsChunkStore for every value of the constants: packing, sealing,
\* caching, evicting and answering in place never show to the clients.
THEOREM StorageImplementsChunkStore == Spec => ImplementsChunkStore
<1> DEFINE Inv == AnswerInv /\ FailsOnlyIfAllowed
<1>1. Init => Inv
  BY AnswerInitInv DEF Init, FailsOnlyIfAllowed
<1>2. Inv /\ [Next]_vars => Inv'
  BY AnswerStepInv, FailsStep
<1>3. Init => Store_!Init
  BY DEF Init, Store_!Init
<1>4. Inv /\ Inv' /\ [Next]_vars => [Store_!Next]_(Store_!vars)
  <2> SUFFICES ASSUME Inv, Inv', [Next]_vars
               PROVE  Store_!Next \/ UNCHANGED <<shown, answered>>
    BY DEF Store_!vars, shown, answered
  <2>0. AnswerInv /\ AnswerInv' /\ StoreInv /\ StoreInv' /\ FailsOnlyIfAllowed
    BY DEF AnswerInv, ReadInv
  <2>1. ASSUME NEW c \in Request, Insert(c) PROVE Store_!Next
    BY <2>0, <2>1, InsertPuts
  <2>2. ASSUME NEW id \in DOMAIN chunklist, GetChunkInfo(id) PROVE Store_!Next
    <3>1. id \in 1 .. Len(chunklist)
      BY <2>0 DEF StoreInv, StoreType
    <3> QED BY <2>0, <2>2, <3>1, GetGets
  <2>3. ASSUME UNCHANGED storeVars PROVE UNCHANGED shown
    BY <2>3 DEF storeVars, shown, Own, Lost, Saved, StoredBytes, Bytes, ReadAt
  <2>4. ASSUME Release \/ LeaveBehind PROVE Store_!Next
    <3>1. held # << >> /\ held' = << >> /\ UNCHANGED storeVars
      BY <2>4 DEF Release, LeaveBehind
    <3>2. answered # << >> /\ answered' = << >>
      BY <2>0, <3>1 DEF answered, AnswerInv, HandleInv
    <3>3. Store_!Release
      BY <2>3, <3>1, <3>2 DEF Store_!Release, shown, answered
    <3> QED BY <3>3 DEF Store_!Next
  <2>5. ASSUME ClearCache PROVE UNCHANGED <<shown, answered>>
    <3>1. UNCHANGED shown /\ held = << >> /\ held' = << >>
      BY <2>3, <2>5 DEF ClearCache
    <3> QED BY <3>1 DEF answered
  <2>6. ASSUME UNCHANGED vars PROVE UNCHANGED <<shown, answered>>
    <3>1. UNCHANGED <<storeVars, cache, held>> /\ UNCHANGED shown
      BY <2>3, <2>6 DEF vars
    <3> QED BY <3>1 DEF answered, storeVars, cache, Own, Lost, Saved, StoredBytes,
                       Bytes, ReadAt, Deref
  <2> QED BY <2>1, <2>2, <2>4, <2>5, <2>6 DEF Next
<1> QED BY <1>1, <1>2, <1>3, <1>4, PTL DEF Spec, ImplementsChunkStore, Store_!Spec
=============================================================================
