------------------------------ MODULE Methods ------------------------------
(***************************************************************************)
(* The deduplication methods of -m: main creates one of them (main.cc:85)  *)
(* and runs its ProcessTrace for every backup.  They share the fingerprint *)
(* index, the chunk list and the recipes, and differ in how a unique chunk *)
(* finds a base: BiSearch is the module of that name; here are Dedup (none *)
(* at all), NTransForm and Finesse (the latest chunk with the same super   *)
(* feature in the same place), Odess (the first with the same super        *)
(* feature), Palantir (three levels of super features, the finer ones      *)
(* forgotten after some versions) and LocalDedup (the chunk that followed  *)
(* the last duplicate in an earlier version).                              *)
(*                                                                         *)
(* Nothing tells DELTA and FINESSE_DELTA apart, so both are the latter.    *)
(***************************************************************************)
EXTENDS BiSearch, FiniteSets

CONSTANTS
    Method,            \* the methods considered
    SmallContent,      \* contents of at most 60 bytes
    PositionFeatures,  \* NTRANSFORM or FINESSE -> content -> its super features
    PalantirFeatures,  \* content -> the 13 super features of Palantir
    LevelOf,           \* place of a super feature -> its level, 1 to 3
    KeepLevel2,        \* 5 and 2 in CleanIndex: how many versions an entry
    KeepLevel3,        \*   that is not used again is kept
    IdRange            \* 2^64

Levels == 1 .. 3

ASSUME MethodsAssumption ==
    /\ Method \subseteq {"DEDUP", "NTRANSFORM", "FINESSE", "ODESS", "PALANTIR",
                         "BiSEARCH", "LOCALITY"}
    /\ SmallContent \subseteq Content
    /\ KeepLevel2 \in Nat /\ KeepLevel3 \in Nat
    /\ IdRange \in Nat /\ IdRange > 2 * MaxLogical

\* three super features, each with a table of its own; 13, each of one level
ASSUME PlacesAssumption ==
    /\ \A m \in {"NTRANSFORM", "FINESSE"} : \A c \in Content :
           DOMAIN PositionFeatures[m][c] = 1 .. 3
    /\ LevelOf \in [1 .. 13 -> Levels]
    /\ \A c \in Content : DOMAIN PalantirFeatures[c] = 1 .. 13

VARIABLES
    method,            \* the one that runs
    SFtable,           \* place -> super feature -> back of its list
    SFlevels,          \* SFindex1 to SFindex3: level -> super feature -> entry
    SFNew, SFDelete,   \* entries pushed and erased
    plchunk, DedupGap  \* the last duplicate and how far behind it we are

position == <<SFtable>>
layered  == <<SFlevels, SFNew, SFDelete>>
local    == <<plchunk, DedupGap>>
allVars  == <<vars, method, position, layered, local>>

-----------------------------------------------------------------------------
(* What the methods share *)

\* a hash table with the entry v for each of keys
Put(table, keys, v) ==
    [s \in keys \cup DOMAIN table |-> IF s \in keys THEN v ELSE table[s]]

\* a unique chunk stored as a base in no index of BiSearch's, compressed with
\* LZ4 whatever the option says
StorePlain(c) ==
    /\ \E f \in LZ4Forms : ChunkInsert(c, f.deltaFlag, f.form, NoChunk)
    /\ basechunkNum' = basechunkNum + 1
    /\ UNCHANGED <<SFindex, nameTable, deltachunkNum>>

\* xdelta3 fails: return, with the fingerprint already inserted
ReturnsOnError(c, base) ==
    /\ AllowDeltaError
    /\ Pop(c)
    /\ Unique(c)
    /\ base # NoChunk
    /\ FP_Insert(c)
    /\ backup' = backup + 1
    /\ UNCHANGED <<SFindex, nameTable, chunklist, RecipeMap, RecipeMap_header,
                   Version, counters, undefined>>

\* ProcessTrace leaves what is defined
RunsInto(c) ==
    /\ Pop(c)
    /\ Unique(c)
    /\ FP_Insert(c)
    /\ undefined' = TRUE
    /\ UNCHANGED <<SFindex, nameTable, chunklist, RecipeMap, RecipeMap_header,
                   backup, Version, counters>>

-----------------------------------------------------------------------------
(* Dedup *)

Dedup(c) ==
    /\ method = "DEDUP"
    /\ Duplicate(c) \/ (StoreUnique(c) /\ StorePlain(c))
    /\ UNCHANGED <<position, layered, local>>

-----------------------------------------------------------------------------
(* NTransForm and Finesse: querySF and insertSFIndex, SF_Find and SF_Insert *)

FindInPlace(c) ==
    LET sfs  == PositionFeatures[method][c.content]
        hits == {i \in DOMAIN sfs : sfs[i] \in DOMAIN SFtable[i]}
    IN  IF hits = {} THEN NoChunk
        ELSE LET i == CHOOSE i \in hits : \A j \in hits : i <= j
             IN  SFtable[i][sfs[i]]

\* (mutant: all tables get the first super feature)
InsertInPlace_FirstOnly(c) ==
    SFtable' = [i \in DOMAIN SFtable |->
        Put(SFtable[i], {PositionFeatures[method][c.content][1]}, uniquechunkNum + 1)]

InsertInPlace(c) ==
    SFtable' = [i \in DOMAIN SFtable |->
        Put(SFtable[i], {PositionFeatures[method][c.content][i]}, uniquechunkNum + 1)]

\* (mutant: the delta is indexed, and the next chunk is made against it)
StoreByPlace_DeltaToo(c) ==
    /\ StoreUnique(c)
    /\ InsertInPlace(c)
    /\ IF FindInPlace(c) = NoChunk
       THEN StorePlain(c)
       ELSE StoreDelta(c, "FINESSE_DELTA", FindInPlace(c))

StoreByPlace(c) ==
    /\ StoreUnique(c)
    /\ IF FindInPlace(c) = NoChunk
       THEN StorePlain(c) /\ InsertInPlace(c)
       ELSE StoreDelta(c, "FINESSE_DELTA", FindInPlace(c)) /\ UNCHANGED SFtable

\* A delta larger than its chunk is kept, too: it is copied over the chunk and
\* past the memory that was allocated for it.
DeltaOverflows(c) ==
    /\ RunsInto(c)
    /\ FindInPlace(c) # NoChunk

NTransForm(c) ==
    /\ method = "NTRANSFORM"
    /\ \/ Duplicate(c) /\ UNCHANGED SFtable
       \/ StoreByPlace(c)
       \/ ReturnsOnError(c, FindInPlace(c)) /\ UNCHANGED SFtable
       \/ DeltaOverflows(c) /\ UNCHANGED SFtable
    /\ UNCHANGED <<layered, local>>

Finesse(c) ==
    /\ method = "FINESSE"
    /\ \/ Duplicate(c) /\ UNCHANGED SFtable
       \/ StoreByPlace(c)
       \/ ReturnsOnError(c, FindInPlace(c)) /\ UNCHANGED SFtable
       \/ DeltaOverflows(c) /\ UNCHANGED SFtable
    /\ UNCHANGED <<layered, local>>

-----------------------------------------------------------------------------
(* Odess: the table of BiSearch's feature path, for chunks above 60 bytes.  *)
(* It keeps nameTable for its statistics only.                              *)

FindOdess(c) == IF c.content \in SmallContent THEN NoChunk ELSE FindSF(c)

\* no base, or a delta larger than the chunk
OdessBase(c) ==
    /\ StoreUnique(c)
    /\ IF c.content \in SmallContent
       THEN StorePlain(c)
       ELSE StoreBaseAs(c, LZ4Forms)

OdessDelta(c) ==
    /\ StoreUnique(c)
    /\ FindOdess(c) # NoChunk
    /\ StoreDelta(c, "FINESSE_DELTA", FindOdess(c))

Odess(c) ==
    /\ method = "ODESS"
    /\ \/ Duplicate(c)
       \/ OdessBase(c)
       \/ OdessDelta(c)
       \/ ReturnsOnError(c, FindOdess(c))
    /\ UNCHANGED <<position, layered, local>>

-----------------------------------------------------------------------------
(* Palantir *)

\* the first super feature of the lowest level, all levels searched with all
\* super features.  An entry that was erased leaves an empty list behind;
\* SF_Find takes the element it does not have: the erased one, still there.
FindLayered(c) ==
    LET sfs     == PalantirFeatures[c.content]
        hits(l) == {i \in DOMAIN sfs : sfs[i] \in DOMAIN SFlevels[l]}
        found   == {l \in Levels : hits(l) # {}}
    IN  IF found = {} THEN NoChunk
        ELSE LET l == CHOOSE l \in found : \A k \in found : l <= k
                 i == CHOOSE i \in hits(l) : \A j \in hits(l) : i <= j
             IN  SFlevels[l][sfs[i]].id

\* the super features of one level
AtLevel(content, l) ==
    {PalantirFeatures[content][i] : i \in {j \in DOMAIN LevelOf : LevelOf[j] = l}}
Live(l) == {s \in DOMAIN SFlevels[l] : SFlevels[l][s].live}

\* (mutant: an entry counts as new whenever it is written)
LayeredInsert_CountsAll(content, id) ==
    /\ SFlevels' = [l \in Levels |->
           Put(SFlevels[l], AtLevel(content, l),
               [id |-> id, version |-> Version, live |-> TRUE])]
    /\ SFNew' = SFNew + Cardinality(UNION {AtLevel(content, l) : l \in Levels})
    /\ UNCHANGED SFDelete

\* (mutant: an entry that is there keeps its version)
LayeredInsert_KeepsVersion(content, id) ==
    LET version(l, s) == IF s \in Live(l) THEN SFlevels[l][s].version ELSE Version
    IN  /\ SFlevels' = [l \in Levels |->
               [s \in AtLevel(content, l) \cup DOMAIN SFlevels[l] |->
                    IF s \in AtLevel(content, l)
                    THEN [id |-> id, version |-> version(l, s), live |-> TRUE]
                    ELSE SFlevels[l][s]]]
        /\ SFNew' = SFNew + Cardinality(AtLevel(content, 1) \ Live(1))
                          + Cardinality(AtLevel(content, 2) \ Live(2))
                          + Cardinality(AtLevel(content, 3) \ Live(3))
        /\ UNCHANGED SFDelete

\* SF_Insert: one entry for each super feature, the latest chunk's, with the
\* version of its last use
LayeredInsert(content, id) ==
    /\ SFlevels' = [l \in Levels |->
           Put(SFlevels[l], AtLevel(content, l),
               [id |-> id, version |-> Version, live |-> TRUE])]
    /\ SFNew' = SFNew + Cardinality(AtLevel(content, 1) \ Live(1))
                      + Cardinality(AtLevel(content, 2) \ Live(2))
                      + Cardinality(AtLevel(content, 3) \ Live(3))
    /\ UNCHANGED SFDelete

\* no base, or a delta that saves less than LZ4 does on the average
PalantirBase(c) ==
    /\ StoreUnique(c)
    /\ StorePlain(c)
    /\ LayeredInsert(c.content, uniquechunkNum + 1)

PalantirDelta(c) ==
    /\ StoreUnique(c)
    /\ FindLayered(c) # NoChunk
    /\ StoreDelta(c, "FINESSE_DELTA", FindLayered(c))
    /\ UNCHANGED layered

\* a duplicate of a base refreshes its entries
PalantirDuplicate(c) ==
    /\ Duplicate(c)
    /\ LET stored == FPindex[c.content] IN
       IF IsDelta(stored) THEN UNCHANGED layered
       ELSE LayeredInsert(c.content, chunklist[stored].chunkID)

\* the entries of a level that CleanIndex erases
Expired(l) ==
    LET keep == IF l = 2 THEN KeepLevel2 ELSE KeepLevel3
    IN  {s \in Live(l) : l # 1 /\ SFlevels[l][s].version < Version - keep}

CleanIndex ==
    /\ SFlevels' = [l \in Levels |-> [s \in DOMAIN SFlevels[l] |->
           IF s \in Expired(l) THEN [SFlevels[l][s] EXCEPT !.live = FALSE]
           ELSE SFlevels[l][s]]]
    /\ SFDelete' = SFDelete + Cardinality(Expired(2)) + Cardinality(Expired(3))
    /\ UNCHANGED SFNew

Palantir(c) ==
    /\ method = "PALANTIR"
    /\ \/ PalantirDuplicate(c)
       \/ PalantirBase(c)
       \/ PalantirDelta(c)
       \/ ReturnsOnError(c, FindLayered(c)) /\ UNCHANGED layered
    /\ UNCHANGED <<position, local>>

-----------------------------------------------------------------------------
(* LocalDedup *)

\* Chunk numbers are unsigned, and plchunk.chunkId starts at -1: the number of
\* a chunk is its id less 1, that of NoChunk is the largest.
Number(id) == (id - 1) % IdRange

\* plchunk.chunkId + DedupGap < tmpChunk.chunkID - 1 && Version > 0, with the
\* gap just increased
LocalHit ==
    /\ Version > 0
    /\ Number(plchunk + DedupGap + 1) < Number(uniquechunkNum)

\* The encoder is given lz4ChunkBuffer instead of the base it looked up, and
\* the recorded base may itself be a delta.
LocalDelta(c, base) ==
    /\ chunklist' = Append(chunklist,
           [chunkID |-> uniquechunkNum + 1, content |-> c.content,
            HeaderFlag |-> c.HeaderFlag, deltaFlag |-> "LOCAL_DELTA", form |-> "raw",
            basechunkID |-> base, ref |-> Garbage])
    /\ deltachunkNum' = deltachunkNum + 1
    /\ UNCHANGED <<SFindex, nameTable, basechunkNum>>

LocalUnique(c) ==
    /\ LocalHit => plchunk + DedupGap + 1 <= Len(chunklist)
    /\ StoreUnique(c)
    /\ \/ StorePlain(c)
       \/ LocalHit /\ LocalDelta(c, plchunk + DedupGap + 1)
    /\ DedupGap' = DedupGap + 1
    /\ UNCHANGED plchunk

\* Before the first chunk is stored the subtraction wraps around, and a base
\* is looked up in an empty list; after a failure of xdelta3, StatsDelta
\* divides by the size of the delta, 0.
LocalUndefined(c) ==
    /\ LocalHit
    /\ AllowDeltaError \/ plchunk + DedupGap + 1 > Len(chunklist)
    /\ RunsInto(c)
    /\ UNCHANGED local

LocalDuplicate(c) ==
    /\ Duplicate(c)
    /\ plchunk' = IF chunklist[FPindex[c.content]].HeaderFlag THEN plchunk
                  ELSE FPindex[c.content]
    /\ DedupGap' = 0

LocalDedup(c) ==
    /\ method = "LOCALITY"
    /\ LocalDuplicate(c) \/ LocalUnique(c) \/ LocalUndefined(c)
    /\ UNCHANGED <<position, layered>>

-----------------------------------------------------------------------------
MethodsInit ==
    /\ Init
    /\ method \in Method
    /\ SFtable = [i \in 1 .. 3 |-> << >>]
    /\ SFlevels = [l \in Levels |-> << >>]
    /\ SFNew = 0 /\ SFDelete = 0
    /\ plchunk = NoChunk /\ DedupGap = 0

\* Palantir cleans its index before the version is counted
MethodEndOfBackup ==
    /\ EndOfBackup
    /\ IF method = "PALANTIR" THEN CleanIndex ELSE UNCHANGED layered
    /\ UNCHANGED <<position, local>>

BiSearchChunk(c) ==
    /\ method = "BiSEARCH"
    /\ ProcessChunk(c)
    /\ UNCHANGED <<position, layered, local>>

MethodsNext ==
    /\ \/ MethodEndOfBackup
       \/ \E c \in Chunk :
              \/ BiSearchChunk(c) \/ Dedup(c) \/ NTransForm(c) \/ Finesse(c)
              \/ Odess(c) \/ Palantir(c) \/ LocalDedup(c)
    /\ UNCHANGED method

MethodsSpec == MethodsInit /\ [][MethodsNext]_allVars

-----------------------------------------------------------------------------
(* Properties *)

\* Every index of every method proposes only stored bases: the deltas made
\* against them can be restored with one decode.  Palantir's erased entries
\* count, since SF_Find still returns them.
MethodIndexesPointToBases ==
    /\ IndexesPointToBases
    /\ \A i \in DOMAIN SFtable : \A s \in DOMAIN SFtable[i] : IsBase(SFtable[i][s])
    /\ \A l \in Levels : \A s \in DOMAIN SFlevels[l] : IsBase(SFlevels[l][s].id)

\* What an index proposes for a super feature has it, in the same place or level:
\* a delta is always made against a similar chunk.  With Palantir, whose
\* duplicates enter the stored chunk again under the features of the new one,
\* only until xdelta3 fails: a fingerprint left behind leads to another chunk.
EntriesAreFeatures ==
    /\ \A s \in SF : SFindex[s] # NoChunk =>
           \E i \in DOMAIN Features[chunklist[SFindex[s]].content] :
               Features[chunklist[SFindex[s]].content][i] = s
    /\ \A i \in DOMAIN SFtable : \A s \in DOMAIN SFtable[i] :
           PositionFeatures[method][chunklist[SFtable[i][s]].content][i] = s
    /\ Completed => \A l \in Levels : \A s \in DOMAIN SFlevels[l] :
           s \in AtLevel(chunklist[SFlevels[l][s].id].content, l)

\* Under every method but LocalDedup the backups restore as under BiSearch, as
\* long as xdelta3 has not failed: exactly with LZ4, and with -L 0, where what
\* these methods compressed cannot be read, all that was kept as it is.
MethodsRestoreExact == method # "LOCALITY" => RestoreExact

\* The size of Palantir's index as it is reported (SFnum = SFNew - SFDelete)
\* is the number of entries that are there.
LayeredAccounting ==
    SFNew - SFDelete = Cardinality(Live(1)) + Cardinality(Live(2)) + Cardinality(Live(3))

\* the bases in the recipes of the last backups, as many as level l keeps
RecentBases(l) ==
    LET keep   == IF l = 2 THEN KeepLevel2 ELSE KeepLevel3
        recent == {b \in Backup : b >= Version - keep}
        ids    == UNION {{RecipeMap[b][i] : i \in DOMAIN RecipeMap[b]}
                         \cup {RecipeMap_header[b][i] : i \in DOMAIN RecipeMap_header[b]} :
                         b \in recent}
    IN  {id \in ids : ~IsDelta(id)}

\* The finer levels hold exactly the super features of the bases that the last
\* backups used, whether they stored them or found them again.
KeptWhileUsed ==
    Completed /\ method = "PALANTIR" =>
        \A l \in {2, 3} :
            Live(l) = UNION {AtLevel(chunklist[id].content, l) : id \in RecentBases(l)}

=============================================================================
