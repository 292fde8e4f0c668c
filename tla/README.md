# A TLA+ model of BiSearch

BiSearch is a deduplicating backup store for sequences of tar archives. Each
archive (a *backup*) is cut into chunks; a chunk is stored once (deduplication),
and a new chunk that resembles a stored one is stored as a delta against it.
The candidate for the delta is searched in two ways, by the name of the file
the chunk comes from (*locality*) and by the content (*super features*).

This directory holds the TLA+ modules that model the program, the
configurations under which TLC checks them, and proofs for TLAPS. File names
without a directory refer to the sources: `BiSearch.cc` is
`src/method/BiSearch.cc`, `chunker.cc` is `src/chunking/chunker.cc`,
`datawrite.cc` is `src/datawrite/datawrite.cc`, `readCache.cc` is
`src/util/readCache.cc`, `main.cc` is `src/app/main.cc`, and headers are in
`include/`.

## 1. The system

### 1.1 Components

| Component | State | Operations | Talks to | Module |
|---|---|---|---|---|
| main loop (`main.cc:160-199`) | index of the backup, the two threads | start chunker and dedup thread, join both, clear the container cache | all | `Pipeline` |
| chunk queue (`messageQueue.h`) | bounded queue, flag `done_` | `Push` (spins when full), `Pop` (may fail), `IsEmpty` | both threads | `Pipeline` |
| lock-free queue under it (`readerwriterqueue.h`, `atomicops.h`) | ring of blocks, each with `front`, `tail` and each thread's copy of the other's | `try_enqueue`, `try_dequeue`, `size_approx` | both threads | `SPSCQueue` |
| window loop and cut points, `-c 0, 1, 2` (`chunker.cc:110-228`, `389-402`) | read buffer, offset of the cut in it | fixed size, Gear, FastCDC | queue | `Windows` |
| tar-aware chunker, `-c 4`, and its restore (`chunker.cc:243-568`, `datawrite.cc:257-402`, `1105-1213`) | kind of the next segment, long-name flags, header buffer, counters of the restorer | cut headers and files into separate chunks, name them; interleave the two recipes again | queue, recipes | `TarChunker`, `TarRestore` |
| mtar, `-c 5` (`chunker.cc:570-698`, `datawrite.cc:456-636`) | two areas of a rewritten archive | `MTar` and its inverse `MTar2Tar` | files | `MTar` |
| method BiSearch, `-m 5` (`BiSearch.cc`, `absMethod.cc`) | fingerprint index, super-feature index, name table, counters | `ProcessTrace`: one case per popped chunk | queue, storage layer | `BiSearch` |
| other methods (`Dedup.cc`, `NTrans.cc`, `Finesse.cc`, `Odess.cc`, `palantir.cc`, `Locality.cc`) | indexes like BiSearch's; Palantir's three layers | `ProcessTrace`; Palantir's `SF_Find`, `SF_Insert`, `CleanIndex` | as BiSearch | `Methods` |
| super features (`Ntrans_similarity.cc`, `absMethod.cc:115-224`, `odess_similarity_detection.cc`) | `features_`, kept from chunk to chunk | rolling hashes, sampling, grouping | methods | `Features` |
| storage layer (`datawrite.cc`) | open container, chunk list, container files, recipes | `Chunk_Insert` (two overloads), `Get_Chunk_Info`, `Recipe_Insert`, `ClearAllCache`, the restorers | methods, cache, files | `DataWrite`; recipes and restore in `BiSearch` |
| container cache (`readCache.cc`, `lruCache.h`) | LRU list of container names, pool of slots, next fresh slot | `InsertToCache`, `ReadFromCache`, `ExistsInCache`, `ClearAllCache` | storage layer | `ReadCache` |
| local compression (`lz4.c`) | none that outlives a call | `LZ4_compress_fast`, `LZ4_decompress_safe` | methods, storage layer | `Lz4` |
| xxhash, SHA-256, xdelta3 | none that outlives a call | arithmetic on the content | methods | taken by contract |
| command line, statistics, logs; `writing`, `ProcessLastContainer` | options; nothing | parsing, printing; never called | main | not modelled |

### 1.2 How the parts interact

For each backup main starts two threads. The chunker pushes chunks on the
queue, spinning when it is full, and then sets `done_`. The dedup thread runs
`ProcessTrace`: it tests `done_` and then whether the queue is empty; if both
hold it resets `done_`, counts the version and returns, otherwise it tries to
pop a chunk. Main joins both threads and clears the container cache. Indexes,
chunk list, containers and the queue live as long as the process.

For a chunk, `ProcessTrace` looks the fingerprint up. A new chunk enters the
fingerprint index at once; then it is encoded against a base that the name or
the super features lead to, or becomes a base. `Chunk_Insert` packs its bytes
into the open container, which goes to a file when it is full; the backup's
recipe (one for header segments, one for data) gets the chunk's number. A delta
needs the base's bytes: `Get_Chunk_Info` finds them in the container cache, a
container file or the open container. It may answer with a pointer into a cache
slot or into the open container.

### 1.3 What is hard, and what makes each part correct

* **Cache**: slots are handed out by two mechanisms (the least recently used
  key, and a running index) while a third one maps names to slots. Correct: no
  two containers share a slot, and to its user it is an LRU map.
* **Storage layer**: one insertion may seal a container, renumber it, reset two
  offsets and place a chunk; answers point into memory that later calls reuse.
  Correct: a stored chunk never changes, an answer in use shows the chunk that
  was asked for, and callers free what was allocated for them and nothing else.
* **Compression**: lengths that fill their half of a token, matches that overlap
  themselves and are copied in stripes past their end. Correct: what is
  compressed within the room given is decompressed, and nothing is written
  outside. With `-L 0` zlib takes the place of LZ4, in the reader always, in the
  writers of one method only. Correct: what was compressed one way is
  decompressed that way.
* **BiSearch**: about ten paths through `ProcessTrace`, each with its own copy of
  the code that keeps two indexes, three counters, the chunk list and two
  recipes in step; an early return when xdelta3 fails. Correct: every
  backup restores to what was fed, deltas have depth one, no content is stored
  twice, counters agree with the store, nothing divides by zero.
* **Other methods**: entries that are replaced, first ones that stay, entries
  that expire and are still proposed. Correct: as BiSearch; what is proposed for a
  super feature has it; and Palantir keeps an entry exactly as long as backups
  use it.
* **Super features**: state kept between chunks, windows that reach past a
  subchunk, hashes that roll. Correct: a function of the content alone.
* **Pipeline**: two threads, a bounded queue, one flag that all backups
  share. Correct: every chunk is processed once, in order, for its own backup;
  nothing is left for the next one; every backup ends.
* **Lock-free queue**: indexes read by one thread while the other writes them,
  stores that become visible out of order. Correct: a bounded FIFO, no slot
  used by both threads, `Push` fails only when full.
* **Windows**: windows overlap; a cut may not depend on where they lie. Correct:
  chunks add up to the file, inside it, as with one big window.
* **Tar chunker and restore**: parsing state carries over window boundaries, and
  data is read as headers where it is lost; the restorer parses the headers
  again to interleave two recipes; a long name waits in a buffer, with two flags, for
  the entry after it. Correct: nothing is lost, names go to the chunks of their
  file, the round trip is the identity.
* **mtar**: two passes and a merge each decide for themselves what is a header.
  Correct: they agree, and the merge gives the archive back.

The full list of hazards, each at its line, is in `PROJECT.json`.

## 2. Modules and their correspondence to the code

```
LRUCache    <-refines-  ReadCache   <-INSTANCE-  DataWrite  -refines->  ChunkStore
ChunkStream <-refines-  Pipeline                 (chunks of one backup after the other)
FIFO        <-refines-  SPSCQueue                (the queue that Pipeline uses)
BiSearch    <-EXTENDS-  Methods                  (over the contract of ChunkStore)
TarChunker  <-EXTENDS-  TarRestore, MTar         TarArchives: the archives both are given
Windows; Features, Lz4: pure operators
ReadCacheProofs, DataWriteProofs, PipelineProofs, MethodsProofs, TarChunkerProofs,
MTarProofs, WindowsProofs, SPSCQueueProofs         proofs about the module they are named after;
                                                   BiSearch's are in MethodsProofs, TarRestore's
                                                   in TarChunkerProofs
MC...                                              instances for TLC
```

A definition marked "(mutant: ...)" is a plausible wrong version of the one below
it. No specification uses it; `PROJECT.json` lists, for every checked property,
one such version under which TLC finds the property violated.

### ReadCache and LRUCache

`keys_` is the list of `lru11::Cache` from front to back, `containerPool_` and
`currentIndex_` are the fields of `ReadCache`. `InsertEvicting` and
`InsertFresh` are the branches of `InsertToCache`, `LruInsert` is
`Cache::insert` with its `prune()` (a key already present moves to the front
instead), `ReadFromCache` moves the name to the front, `ClearAllCache` empties
list and index but not the pool. `CacheNext` inserts only names that are not
cached, which is how the one caller behaves (`datawrite.cc:666-734`).
`LRUCache` has no slots: its state is the sequence of cached containers.

### DataWrite and ChunkStore

`Store` is the body both `Chunk_Insert` overloads share: `InsertFits`, or
`InsertRollsOver` with `WriteContainer`, which may fail to open the file (the
code reports that and goes on) or have its write stop short, which nobody looks
at: the reader then finds zeros (`Zero`) where the file ends, because it reads
into a string of the promised size. `failed` is a history variable, the
containers this happened to; a chunk of another container has no excuse.
Decompressing damaged bytes leaves the output buffer as it was, and its result
is not looked at (`Decompressed`). `GetFromCache`, `GetFromDisk` and
`GetFromCurrent` are the three branches of `Get_Chunk_Info`. Bytes are abstract:
the k-th stored unit of chunk id is `<<id, k>>`, so a wrong offset, a stale slot or
an overwritten container shows in what a read returns. `held` are the answers a
caller still uses; a decode holds two, that of the delta and that of its base.
`HandlesValid` dereferences an answer at the moment it is looked at and not when
it was given. Each branch assigns the pointer and `loadFromDisk` by statements of their
own, so the flag is an argument of `Copy` and `InPlace` here; what `malloc` gave is
counted apart (`copies`): `Release` gives back what is flagged, and `LeaveBehind` is what a
method does that is done with its base and does not free it: the return on a failed
delta, and Odess when the delta is larger than the chunk (`Odess.cc:95-128`; `left`
counts the copies among them). `FreedIsOwned` relates the counts
to the flags. What is NO_DELTA is
decompressed with LZ4 here; the option `-L` is in `BiSearch`. Two properties of the callers are guards here: no insertion is
made while an answer is in use (`BiSearch.cc` decodes and copies before it
inserts), and at most two answers are held.

`ChunkStore` is a store and the answers in use, without containers, files or a
cache. `DataWrite` implements it through `store <- StoredBytes` and
`answers <- Deref`.

### BiSearch

One action per outcome of the body of `ProcessTrace`'s loop:

| Action | Code |
|---|---|
| `Duplicate` | fingerprint found; the stored chunk, with its header flag, replaces the new one (593-622) |
| `FeaturePath` | no chunk of that name, or `-t` off: super features decide (423-592) |
| `LocalityAccepted` | delta against the named chunk kept, by `estimateGain` or since both searches agree (112-235) |
| `LocalityRejected` | refused or larger than the chunk; super features decide (236-421) |
| `DeltaError` | xdelta3 fails: the thread returns after `FP_Insert` (324, 503) |
| `DivideByZero` | `estimateGain` with no base counted, or a failed locality delta of size 0 (29, 164) |
| `OutOfRange` | a fingerprint leads past the end of the chunk list |
| `EndOfBackup` | queue empty and `done_`: next backup |

The fingerprint is the content itself (no SHA-1 collisions). Sizes are not kept:
whether a delta is larger than its chunk, whether lz4 pays and whether
`estimateGain` accepts are choices, so every outcome is explored. `ref` in a
stored chunk is the text its delta was made against. `Decode` gives back the
content only when the decoder is handed that same text, and a base that is
itself a delta gives `Garbage`, since the program decodes one step. `form` in a stored
chunk is how its bytes are kept: as they are, compressed by LZ4 or zlib, or cut off by
a `deflate` that had too little room (`DeflateForms`: `deflateCompress` reports a size
all the same). `Readable` is the branch of `Get_Chunk_Info` on the option `-L`
(`LZ4Compress`), which looks at the option and not at the chunk; what it cannot
decompress leaves in the buffer what was there, `Garbage` (`Text`), for the restore and
for the encoder of a delta alike. `fedData` and
`fedHeader` record what the chunker produced and are read by no action.

A failed delta inserts a fingerprint whose chunk is never stored. `Completed`
says that no such return and nothing undefined has happened; what depends on it
is claimed while it holds.

`nameTable` only ever names bases (`IndexesPointToBases`), so the branch of
`BiSearch.cc:124-128` that replaces a named delta by its base is never
taken with the present code. The model keeps it.

### Methods

`Methods` EXTENDS `BiSearch` and adds what the other six methods do with a unique
chunk, each as an action of its own: `NTransForm` and `Finesse` (`FindInPlace`: the
latest chunk with the same super feature in the same place), `Odess` (the first
chunk with a super feature, for chunks above 60 bytes), `Palantir` (three layers,
`CleanIndex` between backups), `LocalDedup` and `Dedup`. `method` is chosen at the
start, as `-m` does. `DeltaOverflows` and `LocalUndefined` are the steps at which
the code leaves what is defined; nothing is claimed after them.

An entry that `CleanIndex` erases stays in the model with `live = FALSE`, since
`SF_Find` goes on to read the first element of the emptied vector, which is
still there (its capacity is kept). Palantir's gain test is a choice.

These six compress with LZ4 whatever `-L` says (`StorePlain`, `OdessBase`); BiSearch
follows the option (`LocalForms`).

### Features

Pure operators: the polynomial rolling hash of NTransForm, the subchunks of
Finesse with the window that is filled from beyond a short subchunk, the sampled
gear hash of Odess with `features_` kept from chunk to chunk, Palantir's groups of
4, 6 and 3. The word size, the window, the multipliers and the number of features
are parameters. Each is compared with a reference that takes the windows or the
sampled positions one by one. The contents of the `methods` run have the super
features that these operators compute.

### TarChunker, TarRestore, TarArchives

The unit is the 512-byte block; a block has an identity, what it says when it is
read as a header (`kind`, `size`, `name`) and, of data, the name of its file.
`StartSegment`, `CutHeader`, `CutData`, `CutEmpty`, `PushHeaders`, `CutBig`, `EndBig`
and `EndWindow` are the steps of `CutPointTarHeader`'s loop; `ParseHeader` is the
header branch of `CutPointTarFast`. Where a big file is cut by content is a
choice, made in whole blocks (the code cuts at any byte). `naming` holds the name, the
path, the buffer `LongName` and the two long-name flags. A name is the sequence of its
parts, with a `NUL` where the text has one: `CopyOver` copies into a buffer and leaves
what stands behind the copy, `CString` is what is hashed. `FindLongName` keeps the old
name when the new one has no slash or there is none: the code's test for the slash is
always true, and it then copies from behind the end with a length of -1
(`chunker.cc:868-876`). That this copies nothing or does something undefined is a
choice (`CopyNegative`, after which nothing is claimed).

`TarRestore` EXTENDS it with `restoreHeaderFile`, which parses the header blocks with
its own `CutPointTarFast` (another limit, another treatment of `AREGTYPE`) and takes
data chunks as the headers announce them. `ReadPastRecipe` is the read behind the
end of a recipe. Methods and storage between the two are the identity here,
which `WholeRestore` (with LZ4) and `ImplementsChunkStore` justify.

### MTar

Both passes of `Chunker::MTar` (`Rewrite` cuts and appends to the data or the header
area, `HeaderPass` starts the second one), and `Merge`, which walks the headers
of `file.m` and takes from its data area what they announce.

### Windows

`Read`, `Cut`, `NextWindow` are the loop of `Chunking`; `CutPointFastCDC` and
`CutPointGear` scan `marks`, which says of every byte of the file what the rolling
hash finds there. A chunk is kept as where in the file its bytes were copied from
and how many they are. `CutPastEnd` is the fixed-size cut beyond the window, where
`len - localOffset` wraps around modulo `SizeRange`.

### Lz4

Pure operators for `LZ4_compress_fast` (`FindMatch`, `CatchUp`, `NextMatch`,
`LastLiterals`, and the `Fits...` tests of the room) and `LZ4_decompress_safe`. The
program uses no dictionary, prefix or stream, so those branches are left out. The
hash is a parameter. `StripesCopy` is about how matches are copied: the stripes of
the fast and of the safe loop on a memory whose every byte differs.

### Pipeline and ChunkStream

Every access to the queue or the flag is one step: `Push`, `SetDone`, `Test` (of
`done_` in phase `"done"`, of `IsEmpty` in phase `"empty"`), `Pop`, `Finish`,
`PopError` (the return in mid-stream), `NextBackup` (join, next pair of
threads). `done_` is a sequentially consistent atomic and the enqueue of the
last chunk precedes its store, so a thread that read `TRUE` sees all chunks.
`ChunkStream` delivers the chunks of a backup one by one and then goes on to the next.
`PopError` is in `FailingSpec` only.

### SPSCQueue and FIFO

`try_enqueue` and `try_dequeue` in one step per access to what the other thread
writes. A store waits with the number of release fences its thread went through
before it (`stores`, `fences`), and becomes visible (`Visible`) in any order that keeps
the fences, which is what C++ relaxed stores with fences allow a reader with
acquire fences to see, short of values out of thin air. A slot holds the number of its element, or
`Nothing` once it is moved out. The single-block and the ring case of the
constructor are both initial states. `FIFO` is a bounded queue.

## 3. What TLC checks

| Run | Shows | Bounds |
|---|---|---|
| `ReadCache.cfg` | slots disjoint, refinement of `LRUCache` | 3 slots, 4 names, 2 contents: one name more than slots, so every order of insertions meets an eviction; two contents tell a stale slot from a right one |
| `MCDataWrite.cfg` | stored bytes intact, answers valid, ownership, cache coherence, refinement of `ChunkStore`; LZ4 blocks and stripes exact | containers of 2 units, chunks of 1 and 2, 2 cache slots, 4 chunks, any container file may fail to open or be cut after any unit: up to 3 sealed containers, one more than slots, so two answers at once meet evictions; one copy may be left behind (`MaxLeft`), before the last chunk is inserted (`MCLeft`). LZ4: every text over 2 bytes up to length 10 with token halves of 1, distances up to 4 or 9 and four sizes of room, under two hashes; texts about the code's own limits with its own constants; stripes at distances 1 to 40, lengths 4 to 40, 5 to 64 bytes from the end |
| `MCBiSearch.cfg` | with LZ4: restore exact, depth one, indexes sound and complete (hence no content stored twice), counters | 3 data contents and 1 header content over 3 super features (one pair of contents shares the first feature, another pair the other), 2 names, 4 chunks fed, 3 backups, any delta may fail |
| `MCBiSearchOverlap.cfg` | finding 1 | one content occurs as file and as header segment |
| `MCMethods.cfg` | all seven methods with `-L 0`: indexes propose bases that have the feature, restore exact but for what is unreadable, Palantir's layers hold what recent backups used, super features depend on the content alone | 4 contents whose super features are computed; 3 chunks and 2 backups, 4 backups for Palantir (its first entry that expires at both levels), 5 chunks for LocalDedup (its first delta); super features of all contents over 3 bytes up to length 7 |
| `MCTarRestore.cfg` | buffers, nothing lost, names, round trip, every restore ends | 2 backups out of 13 archives: empty, files of 0 to 7 blocks, long names (of files, of a directory, a shorter one over a longer one, without a slash), directories, an archive in an archive, an unknown type with data, cut-off; windows of 9 blocks, so that segments and files meet their ends at different places |
| `MCMTar.cfg` | passes agree, archives come back | 2 backups out of 7 archives as above, windows of 5 and 8 blocks |
| `MCWindows.cfg` | cuts add up to the file, inside it, as one window would cut; every file closes | files of up to 13 bytes (Gear), 9 (FastCDC), 24 (fixed) with every pattern of marks, windows of 6 and chunks of 1 to 4: up to five windows |
| `MCWindowsFixedEnd.cfg` | finding 3 | files of 10 and 11 bytes |
| `MCPipeline.cfg` | order, completeness, clear queue, no early end, refinement of `ChunkStream` with its liveness, every backup ends | queue of 3; files of 6, 0, 1, 3 and 5 chunks: longer than the queue, empty, single, exactly full |
| `MCPipelineLeftover.cfg` | finding 2 | the same, a delta may fail at any chunk |
| `SPSCQueue.cfg` | slots handed over, full only when full, refinement of `FIFO`, everything dequeued | capacities 3 (one block of 4 slots) and 4 (ring of blocks of 2), 6 items: the ring goes round, blocks are left and entered again |

Two answers are the most any caller holds, a chain "delta, base" needs two
chunks, a mistaken chain three, and eviction one container more than slots; the
bounds exceed each of these. `MaxLogical` (chunks fed), `MaxChunks` (chunks
stored), `MaxLeft`, `MaxItems`, `MCBound`, `MCLeft`, `SizeRange`, `IdRange` (the range of the unsigned
counters), the file lengths and the archives are the only bounds beside
parameters of the program. `CHECK_DEADLOCK FALSE` is set where the program ends
after its last backup; the storage layer and the cache are checked for deadlock.
Properties of pure operators (`FeaturesOfContent`, `CompressionExact`,
`StripesExact`) are evaluated in the initial states only, where they are said
of all bounded inputs.

**Assumed of the environment.** No collisions of the fingerprint; xdelta3 is
lossless when it succeeds (whether it does is a choice); what reached a container
file reads back as it was written. `HeaderContent` and `DataContent` are disjoint but in the
run for finding 1.

**Fairness.** Weak fairness of each thread's steps and of main's in `Pipeline` and
`SPSCQueue`: the threads are OS threads that never block on anything but the
queue, where they spin, so each one that is not finished is eventually scheduled
again; main's step is enabled once both are joined. A store becomes visible in
finite time (`Visible`), as hardware and C++ promise. `Windows` and `TarRestore` are
single-threaded loops: weak fairness of `Next` says that the process runs.
`ChunkStream` needs only weak fairness of its next-state relation.

**Where a property says when it holds.** `RestoreExact`, `StoredOnce`, `FPIndexSound`
and `KeptWhileUsed` hold while `Completed` does. With `-L 0` `RestoreExact` and
`MethodsRestoreExact` leave out the chunks whose form the reader does not decompress and
the deltas against them (`Spoilt`). `MCMethods.cfg` has `-L 0`: there each of these may
also have been kept as it is, or inflate, so all that could happen with LZ4 is
checked in it, too, to be restored exactly. `EveryBackupRestores` leaves out nothing,
and is proved for LZ4 (`WholeRestore`). `EntriesAreFeatures` is said of Palantir's levels while
`Completed` holds: a duplicate enters the stored chunk again, under the features of
the new one. `MethodsRestoreExact` excludes
LocalDedup, whose deltas are encoded against `lz4ChunkBuffer` (`Locality.cc:64`).
`LongNamesFollowed` says that data is named after its file as long as all archives so far follow each long-name entry
by the data of the file it names, in one block, in a directory and ended with a NUL, and
no segment ends between them (`LongNamesUsed`). In the others the name may stay with the chunker and go to a later
file; the property then says that this is one chunk at most, the next one that
has a name (`LongNamesConfined`).
`RoundTripFollowed` is said of backups whose header recipe both parsers read alike
(`HeadersAgree`): whole blocks, `AREGTYPE` without a size, long names within a
container. Data of a type the chunker does not know (`K` entries for long link
targets) is cut as headers, and where one of its blocks reads otherwise, or an archive
does not end on a block, the restorer cannot follow; `NothingLost` covers those in
the chunker.
`MTarRestored` excludes names and pax headers of a block or more: the merge
leaves their data behind (`datawrite.cc:551`). `WindowIndependent` is said of
FastCDC; Gear has no largest chunk, and ends one where the window ends.

### Findings

1. `MCBiSearchOverlap.cfg`: for a duplicate, the stored chunk's header flag chooses the
   recipe. A file chunk whose content was first stored as a header segment (8 KiB
   of zeros, and the zero blocks that end an archive) goes to the header recipe,
   and the restore no longer has the data where it was (`BiSearch.cc:597`, `619`).
2. `MCPipelineLeftover.cfg`: after a failed delta `ProcessTrace` returns; the rest of
   the backup and the flag stay behind, while main's call with the comment "clear
   all chunk in queue" (`main.cc:198`) clears the container cache only.
3. `MCWindowsFixedEnd.cfg`: with `-c 0` the last cut of a file that is not a multiple
   of the chunk size ends past the data, and the unsigned `len - localOffset`
   (`chunker.cc:126`) wraps around.

Met while modelling, kept in the models where they are in the code, without a run of
their own:

* With `-L 0` `deflateCompress` gives `deflate` as much room as the chunk is long and
  ignores its result (`absMethod.cc:630`): a chunk that does not get smaller is stored
  in part, as NO_DELTA, and does not restore (`DeflateForms`).
* With `-L 0` the restore inflates (`datawrite.cc:683`), but six of the seven methods
  compress with LZ4 whatever the option says (`Dedup.cc:45`, `NTrans.cc:93`,
  `Finesse.cc:67`, `Odess.cc:102`, `148`, `palantir.cc:83`, `126`, `Locality.cc:102`,
  `139`): their backups do not restore (`Readable`).
* A long-name entry sets a flag that the next data chunk resets (`chunker.cc:466-468`);
  a directory has none and an empty file's is left out (445-449), so that the
  next file's data is hashed under the name of the entry before.
* After a failed delta the fingerprint of the lost chunk stays in the index
  (`BiSearch.cc:95`, `324`, `503`) and later leads to another chunk; `StatsDelta` may divide
  by its size, 0 (164).
* NTransForm, Finesse and LocalDedup keep a delta larger than its chunk and copy
  it past the chunk's memory. LocalDedup encodes against `lz4ChunkBuffer`, and
  its base may itself be a delta.
* A method that returns on a failed delta does not free the base it got
  (`BiSearch.cc:324`, `503`, `palantir.cc:76`), nor does Odess where the delta is
  larger than the chunk (`Odess.cc:100-128`): a leak, no more.
* A long name without a slash is copied with a length of -1 from behind its end
  (`chunker.cc:868-876`); a shorter one without a NUL keeps the tail of a longer one.
* Palantir reads the first element of an emptied vector (`palantir.cc:201`); it is
  still the erased base.
* The tar chunker does not know type `K`: the data of a long link target is read as
  headers, of which some read as files of a huge size. An archive that does not
  end on a block is restored with its last block filled up (`-c 4`) or without it
  (`-c 5`). `headerBuffer` is allocated for 16 headers before `-H` is stored, and a
  `-B` below `CONTAINER_MAX_SIZE` makes chunker and restorer disagree on what is a
  big file; the instances have as many headers as are allocated, and equal limits.
* The merge of mtar shifts all data behind a name or pax header of a block or more.
* `-c 6` and `-c 7` leave the program in `ChunkerInit`, `-c 8` needs an external
  program, and two backups with the same base name overwrite each other's `.m`.

## 4. What is proved

TLAPS proves the following for every value of the constants that the assumptions allow.

* `ReadCacheProofs`: `CacheSlotsDisjoint` and `CacheTypeCorrect`. The invariant is
  `CacheTypeOK /\ SlotsDisjoint /\ FreshSlotFree`: disjointness alone is not
  inductive, since a fresh slot is only known to be free because all used slots
  lie below `currentIndex_`, and `currentIndex_` only stays in the pool
  because it equals the length of the list.

  `CacheImplementsLRU`: every operation is a step of `LRUCache`. `InsertMoves` says
  what an insertion does to each place of the list, evicting or not.
* `DataWriteProofs`: `ChunksStayIntact`, `CacheStaysCoherent`, `AnswersStayValid`,
  `OnlyCopiesAreFreed`, `StorageTypeCorrect` and the refinement
  `StorageImplementsChunkStore`, for any sizes, any number of chunks and containers
  and any writes that fail. The invariant grows in three layers. `StoreInv`: the open
  container, its offset and its id agree (`OpenAgrees`), containers above it have no
  file (`Unwritten`), and each chunk lies unbroken below the offset of the open
  container or in the file of a sealed one (`Placed`). `ReadInv` adds the invariant
  of the cache, whose lemmas are instantiated, and `Coherent`: what is cached is
  sealed and equal to its file. `AnswerInv` adds `HandleInv`: an answer in place
  points to the open container or to a cached one, and the first of two is where
  the second cannot evict it, at the front of the list, which is why two slots are
  needed and enough. `OnlyCopiesAreFreed` has an invariant of its own, `MemoryInv`: each
  branch of the lookup adds to `copies` exactly if it adds to the flagged answers, and
  `Release` and `LeaveBehind` take from both or move from one account to the other.

  Assumed: `CacheHoldsTwo` (`CONTAINER_CACHE_SIZE` is 64, `define.h:30`),
  `SizeAssumption` (the domains of the bounds), `RequestAssumption` (a chunk fits in a
  container, and compression that does not shrink it is refused) and
  `NoFileAssumption` (a missing file is told from every file).
* `PipelineProofs`: `PipelineCorrect` (with its parts `QueueCleared` and `NeverEarly`)
  and `PipelineTypeCorrect`, for any number of backups, any file lengths and any
  queue size, when no delta fails. The invariant adds `Phases` (what each thread's
  position says of the flag and the queue: the flag is up only after the chunker
  ended, so "flag up, then queue empty" is stable) and `Progress` (how far the
  chunker is, and that later backups are untouched).

  `PipelineSimulatesStream` is the safety half of `ImplementsStream`: initial states
  map to initial states, each step to a step of `ChunkStream` or a stutter.
* `MethodsProofs`, its first part, about `BiSearch`: `StoreConsistent` (both searches propose stored bases, with
  `DeltaDepthOne` and `CountersAgree`) without any assumption on failures.
  `StoreInv` strengthens it with `DeltasKept` (the text a delta was made against is what
  the lookup makes of its base), `FormsKept` (which forms there are, and which flag goes
  with which) and `Bounded`.

  `RestoreCorrect` (restore, with `NothingStoredTwice` and `FingerprintsLead`, which says
  that fingerprints lead to their chunks and that every chunk has one that leads to it)
  when no file has the content of a header segment (`NoOverlap`, which finding 1
  shows to be needed), as long as `Completed` holds. `CompletedInv` says that while
  it does, `RestoreInv` does: `FPLeads` and `FPComplete` (every stored chunk is
  found by its fingerprint, hence none is stored twice), `HeadersMarked` (the header
  flag follows from the content, hence a duplicate takes the right recipe) and
  `RecipesCover`.

  `WholeRestore`: with LZ4, which is the default (`struct.h:82`, `absmethod.h:132`), no
  chunk is `Spoilt`, and every backup restores whole. With `-L 0` it does not, and
  `RestoreCorrect` says of which chunks this is so at most.

  `NothingUndefined`: when moreover xdelta3 does not fail, `Completed` always holds.
  That nothing divides by zero needs both indexes and counters: a known name
  means a stored base, and a stored base means `basechunkNum > 0`.

* `MethodsProofs`, its second part, about the other methods, for any contents, features, numbers of chunks and backups, and
  any deltas that fail. The methods share the chunk list, the fingerprints and the
  recipes with `BiSearch`, so the invariants and lemmas of the first part are
  reused for the steps they share. `IndexInvariant` adds what is new to them:
  `PlaceInv` and `LayerInv`, the tables of NTransForm and Finesse and the levels of
  Palantir name stored bases, erased entries included, since `SF_Find` still reads
  those. `MethodsPointToBases` follows. `IndexEntries` says that they moreover have the
  super feature they are proposed for, in its place or on its level
  (`EntriesAreFeatures`). Its invariant is `KeysInv`: the keys of each index
  (`SFKeys`, `PlaceKeys`, `LayerKeys`), and, while `Completed` holds, `FPLeads`, for a
  duplicate is entered into Palantir's levels under the id of the stored chunk that
  its fingerprint leads to.

  `MethodsRestore` is said of every method but LocalDedup and needs `NoOverlap` as
  `RestoreCorrect` does. `MethodsAccounting` (`SFNew - SFDelete`, the size Palantir reports
  for its index, is the number of live entries of its three levels) needs nothing.
  `PalantirKeepsUsed` is the hardest: what `CleanIndex` erases is decided by the
  backup an entry was last used in, while the property speaks of the chunks in
  the recipes, and the two are related across backups by `KeptInv`: every live entry
  was used by the backup its version names (`EntriesUsed`), what the last backups used
  is live and no older than that use (`UsesEntered`), and no recipe is ahead of
  the current backup (`NoneAhead`). `PlacesAssumption` gives the shape of the
  feature tables: 3 places, and 13 on Palantir's three levels.
* `WindowsProofs`: `ContentCutsStayInside`, `FilesCutUpWhole` and
  `FastCDCWindowIndependent`, for any file content, window, chunk sizes and file
  length. The invariant `WindowsInv` says where the window lies in the file and that
  the chunks so far are the file's first bytes. That FastCDC does not notice the
  window rests on two lemmas: a first hit of the mask is the same for every limit
  behind it (`LeastHit`, from the well-ordering of the naturals), and a cut with the
  reserve ahead has all of its limits inside it (`LimitsFixed`, `FastCDCFixed`).
  `WindowsAssumption` asks what the code's constants satisfy: the reserve is no
  shorter than the largest chunk, and the unsigned range is more than two windows.
* `TarChunkerProofs`: `SegmentsInsideBuffers` and `TarNothingLost`, for any archives,
  window sizes and options. The invariant `ChunkerInv` relates the position to the
  window (`PositionOK`), what comes next to where the chunker is (`NextOK`: data only
  after its header, in the same segment), and what is left of a big file to the
  file (`BigOK`); with it a segment of a big file ends before the reserve does.
  `RecipesInv` says where the first `Done` blocks of the file are: each in one place
  of the header recipe, the data recipe or the header buffer.

  Both have a hypothesis, `BigFilesWhole`: where a header announces a big file,
  the archive is long enough to hold it. The code does not check that; in an archive
  cut off inside a big file it copies what lies behind the window. Small files
  need no such hypothesis, as `CutFile` ends at the window.
  `SegmentsInsideBuffers` moreover assumes that `-H` is not above the default, with
  which the buffers are allocated. TLC found `BigFilesWhole`, `ChunkerInv` and
  `RecipesInv` true in every state of `MCTarRestore.cfg` before they were proved.

  `TarRoundTrip`: the restorer gives every backup back (`RoundTripFollowed`). The two
  programs share nothing but the recipes, so the argument goes through what these
  say of the file. `WovenInv` is an invariant of the chunker: with `P` the places of
  the blocks in the header recipe, the data recipe consists of runs of the file
  (`Runs`), it covers what `P` leaves out (`Covered`), and what follows a header in
  the file is what the header announces to the *restorer* (`NoneFollows`,
  `OneFollows`, `BigFollows`): nothing, one chunk, or chunks that add up to its size. `WeaveInv`
  relates this to what the chunker expects next (`Expected`). `FollowInv` is an invariant of the
  restorer: it has written a beginning of the file (`Copied`), and the headers and data
  it has used are those of that beginning (`AtHeader`, `AtData`), so that each next
  header finds its data at the head of the rest.

  `Options` are its hypotheses: `-B` is the restorer's limit (`CONTAINER_MAX_SIZE`, the
  default) and `-H` is less than the blocks of a container. With another `-B`
  the two take different files for big.
* `MTarProofs`: `MTarPassesAgree`, for any archives and window sizes. Neither pass
  knows what the other decided. `DataPart` therefore says of the data pass only what
  it has left out: these blocks are `Headed`, that is the first block is one of them, and
  the next one is the block behind the data of the one before. At most one set of places
  satisfies that, so `HeaderPart`, in which the header pass follows the same rule with
  other windows and other cuts, ends with exactly the blocks the data pass left out. `Announced`
  says what comes next is what is left of a header's data, which a window's end
  must not cut short: `InBuffer` keeps a container's size in reserve, hence the
  assumption that `-B` is at most that, and the hypothesis `DataInReach`, that
  a long name is too, and that the archive was not cut off inside a big file. The
  invariant `MTarInv` was checked on `MCMTar.cfg`, with `DataInReach` true of every
  archive there, before it was proved.

* `SPSCQueueProofs`: `ElementsHandedOver`, `QueueImplementsFIFO` and
  `EnqueueFailsOnlyWhenFull`, for every size, block size and number of items and every
  order the fences leave to the stores. The difficulty is
  that the code's indices go round: `front` and `tail` of a block say nothing of how
  often, and a store that waits says nothing of which element it is for. The
  invariant (`QueueHasHistory`) therefore says that a history exists: a record
  that counts, for each block, the elements put in, seen to be in, taken out and
  seen to be out, both threads' copies included, and numbers the blocks in the
  order the producer took them up. `Good` says which histories there are (`Chain`: the
  counts come in order and differ by less than a block; `Ring`: the threads go round
  behind each other; `Places`, `Numbered`: what is true of a block by its place, and
  which elements it holds; `Packed`: the producer leaves a block only when it is
  full, and sees none of a block's slots released before it sees the consumer there).
  `Indices`, `Slots` and `Buffers` say that every index is a
  count modulo the block size, every slot holds what the counts say, and
  exactly the stores wait that are done and not seen, each behind its fences.

  Every action then is one step of the history, which exists (`...Exists`), keeps it
  good (`...Good`), and adds or removes the stores it should (`...Stores`). For a store
  that becomes visible, the fences give what is seen already, e.g. that an element is
  in its slot before the tail behind it shows. Comparing indices is
  arithmetic: two counts less than a block apart are equal if their remainders
  are (`SlotUnique`). `SPSCAssumption` is what the constructor asserts of its sizes.
  TLC found the invariant true (all but `Packed`, which came later), with the history
  as a variable, before it was proved.

  For the refinement of `FIFO`, `Holds` says what `Contents`, a recursion around the
  ring, is in a state that has a history: the numbers from the last that came out
  to the last that the tail of the last block shows (`LastShown`). That the recursion
  has a value at all is `Recursion` (it ends, because going back shortens the distance to
  the first block); its value is found block by block (`AllListed`), and the sum stays
  within `initialBlockCount * (blockSize - 1)` because the producer is never a whole
  round ahead (`Rounds`). `Moves` is what the steps of the history do to these two
  numbers: `LastShown` grows by one when a tail becomes visible in the block that
  is seen as the last, or when the next block is seen as the last and has its
  first element (`ShowsShown`, `ShowsEntered`), the other when `Take` takes one out. All
  other steps, `EnqueueHere` among them, leave the queue of `FIFO` as it is.

  For `FailsOnlyWhenFull`, `OccupiedBound` finds from the fold in `Occupied` that when all
  blocks but one hold at least `m` elements, at least `m` times their number are
  occupied. When `CheckRing` finds the consumer in the next block, all others are full
  (`AllFull`, from `Packed`): the tail block because the producer saw no room in it, and
  no slot of it was released since. `RoomForSize` says that the blocks the
  constructor makes, without that one, hold `size` elements. A ring of one block
  is counted when `TryEnqueue` finds it full (`OneBlockFull`), since the consumer may
  release slots before `CheckRing` looks.

**Only model-checked.** Liveness (`EveryBackupEnds`, the liveness half of
`ChunkStream`, `AllRestored`, `FileCloses`, `AllDequeued`), which TLAPS does not reach
under fairness; that `Merge` gives the
archives back (`MTarRestored`), a fold over the headers; the names of data
(`LongNamesFollowed`), which depend on what a
well-formed archive is; and what the operators of `Features` and `Lz4` compute, which
is induction over data (`Lz4` is also recursive, so it is outside of what
TLAPS can be asked).

## 5. What is not modelled

* The storage layer is called from the dedup thread only, so `BiSearch` and
  `DataWrite` are sequential; only the queue is shared.
* A container file cut inside the eight bytes of its size field; restarts (the
  program never reads its state back in another process, and never writes the
  last container).
* `writing`, `writeContainers` and `ProcessLastContainer` are called from nowhere, as
  are the queue's `peek`, `pop`, allocating enqueue and blocking variant.
* Long names of more than 8196 bytes, whose copy leaves the buffer.
* zlib itself: `deflate` either fits or is cut off, and `inflate` undoes what fitted.
* The plain tar mode (`-c 3`); `MTarBIN` (`-c 8`), which calls an external program.
* `xxhash.cc` and SHA-256 (a digest stands for what is digested), `xdelta3.h` (a
  delta decodes to what was encoded, or encoding fails), the dictionary, stream
  and partial-decoding functions of `lz4.c`, which the program does not call.
* Option parsing, statistics and logs.

## 6. Plan

Done: all modules of section 2 and the proofs of section 4. Open is a composition of
`Pipeline` with the method, so that a failed delta's leftovers meet the recipes
of the next backup.
