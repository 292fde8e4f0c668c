------------------------------ MODULE BiSearch ------------------------------
(***************************************************************************)
(* The method of -m 5 (src/src/method/BiSearch.cc, ProcessTrace): each     *)
(* chunk popped from the queue is a duplicate, or is stored as a base, or  *)
(* as a delta against a base that its name (locality) or its content       *)
(* (super features) leads to; the backup's two recipes name the chunks to  *)
(* restore it from.                                                        *)
(*                                                                         *)
(* The storage layer is taken by its contract (ChunkStore): a chunk stays  *)
(* as it was stored.  Chunk ids are positions of chunklist, from 1 (the    *)
(* code counts from 0); NoChunk is the code's -1.  The fingerprint stands  *)
(* for the content (no collisions).  Sizes are not kept: how a delta       *)
(* compares with its chunk, whether local compression pays and what        *)
(* estimateGain decides are choices.  Statistics nothing reads are left    *)
(* out, and so is plchunk between chunks: it is assigned before it is read *)
(* (BiSearch.cc:107).                                                      *)
(***************************************************************************)
EXTENDS Integers, Sequences

CONSTANTS
    HeaderContent,    \* contents of header segments
    DataContent,      \* contents of file chunks and CDC chunks
    Name,             \* name hashes
    SF,               \* super features
    Features,         \* content -> its super features, in order
    TurnOnNameHash,   \* option -t
    LZ4Compress,      \* option -L
    AllowDeltaError,  \* whether xdelta3 may fail
    MaxLogical,       \* bound: chunks fed
    backupNum,        \* option -n
    Garbage           \* what an undecodable chunk restores to

Content == HeaderContent \cup DataContent
Backup  == 1 .. backupNum
ChunkID == 1 .. MaxLogical
NoChunk == 0

\* a chunk in the queue
Chunk == [content : DataContent, name : Name, HeaderFlag : {FALSE}]
         \cup [content : HeaderContent, name : Name, HeaderFlag : {TRUE}]

ASSUME FeaturesAssumption == Features \in [Content -> Seq(SF)]
ASSUME OptionsAssumption ==
    /\ TurnOnNameHash \in BOOLEAN
    /\ LZ4Compress \in BOOLEAN
    /\ AllowDeltaError \in BOOLEAN
    /\ MaxLogical \in Nat
    /\ backupNum \in Nat
ASSUME GarbageAssumption == Garbage \notin Content

VARIABLES
    FPindex,          \* content -> chunk
    SFindex,          \* super feature -> first chunk of its list, the one read
    nameTable,        \* name -> last base stored under it
    chunklist,        \* the stored chunks
    RecipeMap,        \* backup -> ids of its data chunks
    RecipeMap_header, \* backup -> ids of its header segments
    backup,           \* index of the main loop
    Version,
    uniquechunkNum, basechunkNum, deltachunkNum, logicalchunkNum,
    undefined,        \* a division by zero, or a read outside chunklist
    fedData,          \* what the chunker produced for each backup
    fedHeader

counters == <<uniquechunkNum, basechunkNum, deltachunkNum, logicalchunkNum>>
indexes  == <<FPindex, SFindex, nameTable>>
recipes  == <<RecipeMap, RecipeMap_header, fedData, fedHeader>>
vars == <<indexes, chunklist, recipes, backup, Version, counters, undefined>>

-----------------------------------------------------------------------------
(* Lookups *)

IsDelta(id) == chunklist[id].deltaFlag \in {"FINESSE_DELTA", "LOCAL_DELTA"}

Unique(c) == FPindex[c.content] = NoChunk

\* the first super feature that is indexed gives the candidate
FindSF(c) ==
    LET sfs  == Features[c.content]
        hits == {i \in DOMAIN sfs : SFindex[sfs[i]] # NoChunk}
    IN  IF hits = {} THEN NoChunk
        ELSE SFindex[sfs[CHOOSE i \in hits : \A j \in hits : i <= j]]

\* a chunk of the same name was stored in an earlier backup (or in this one)
SameName(c) == TurnOnNameHash /\ Version > 0 /\ nameTable[c.name] # NoChunk

\* the named chunk, or its base when it is a delta
LocalityBase(c) ==
    LET named == nameTable[c.name]
    IN  IF IsDelta(named) THEN chunklist[named].basechunkID ELSE named

\* Get_Chunk_Info decompresses what is NO_DELTA, with LZ4 or zlib by the option
\* alone, and looks at no result: what is in another form, or was cut off,
\* leaves in the buffer what was there before.
Readable(id) ==
    chunklist[id].form \in {"raw", IF LZ4Compress THEN "lz4" ELSE "deflate"}
Text(id) == IF Readable(id) THEN chunklist[id].content ELSE Garbage

\* what Get_Chunk_Info returns to the encoder or decoder as a base: of a delta
\* chunk only the delta, read up to the length of the whole chunk
AsBase(id) == IF IsDelta(id) THEN Garbage ELSE Text(id)

-----------------------------------------------------------------------------
(* Storing a unique chunk *)

\* dataWrite::Chunk_Insert, at the end of chunklist.  form is how the bytes are
\* kept, ref the text the delta was made against.
ChunkInsert(c, flag, form, base) ==
    chunklist' = Append(chunklist,
        [chunkID |-> uniquechunkNum + 1, content |-> c.content,
         HeaderFlag |-> c.HeaderFlag, deltaFlag |-> flag, form |-> form,
         basechunkID |-> base,
         ref |-> IF base = NoChunk THEN Garbage ELSE AsBase(base)])

\* LZ4 leaves a base compressed, or as it is when that would not be smaller
LZ4Forms == {[deltaFlag |-> "NO_DELTA", form |-> "lz4"],
             [deltaFlag |-> "NO_LZ4",   form |-> "raw"]}

\* deflateCompress has as much room as the chunk is long, ignores deflate's
\* answer and always reports a size: what does not fit is cut off.
DeflateForms == {[deltaFlag |-> "NO_DELTA", form |-> "deflate"],
                 [deltaFlag |-> "NO_DELTA", form |-> "cut"]}

LocalForms == IF LZ4Compress THEN LZ4Forms ELSE DeflateForms

InsertSF(c) ==
    SFindex' = [s \in SF |->
        IF SFindex[s] = NoChunk /\ \E i \in DOMAIN Features[c.content] :
                                       Features[c.content][i] = s
        THEN uniquechunkNum + 1 ELSE SFindex[s]]

\* (mutant: one of the four copies of this code forgets the counter)
StoreBase_NotCounted(c) ==
    /\ \E f \in LocalForms : ChunkInsert(c, f.deltaFlag, f.form, NoChunk)
    /\ InsertSF(c)
    /\ nameTable' = [nameTable EXCEPT ![c.name] = uniquechunkNum + 1]
    /\ UNCHANGED <<basechunkNum, deltachunkNum>>

StoreBaseAs(c, forms) ==
    /\ \E f \in forms : ChunkInsert(c, f.deltaFlag, f.form, NoChunk)
    /\ InsertSF(c)
    /\ nameTable' = [nameTable EXCEPT ![c.name] = uniquechunkNum + 1]
    /\ basechunkNum' = basechunkNum + 1
    /\ UNCHANGED deltachunkNum

StoreBase(c) == StoreBaseAs(c, LocalForms)

\* (mutant: a delta is indexed as a candidate, too)
StoreDelta_Indexed(c, flag, base) ==
    /\ ChunkInsert(c, flag, "raw", base)
    /\ InsertSF(c)
    /\ deltachunkNum' = deltachunkNum + 1
    /\ UNCHANGED <<nameTable, basechunkNum>>

StoreDelta(c, flag, base) ==
    /\ ChunkInsert(c, flag, "raw", base)
    /\ deltachunkNum' = deltachunkNum + 1
    /\ UNCHANGED <<SFindex, nameTable, basechunkNum>>

\* (mutant: the fingerprint gets the number of the next chunk)
FP_Insert_Next(c) == FPindex' = [FPindex EXCEPT ![c.content] = uniquechunkNum + 2]

FP_Insert(c) == FPindex' = [FPindex EXCEPT ![c.content] = uniquechunkNum + 1]

\* the recipe is chosen by a header flag, the chunker's own or the stored one
RecipeInsert(id, headerFlag) ==
    IF headerFlag
    THEN /\ RecipeMap_header' = [RecipeMap_header EXCEPT ![backup] = Append(@, id)]
         /\ UNCHANGED RecipeMap
    ELSE /\ RecipeMap' = [RecipeMap EXCEPT ![backup] = Append(@, id)]
         /\ UNCHANGED RecipeMap_header

\* the chunk leaves the queue
Pop(c) ==
    /\ ~undefined
    /\ backup \in Backup
    /\ logicalchunkNum < MaxLogical
    /\ IF c.HeaderFlag
       THEN /\ fedHeader' = [fedHeader EXCEPT ![backup] = Append(@, c.content)]
            /\ UNCHANGED fedData
       ELSE /\ fedData' = [fedData EXCEPT ![backup] = Append(@, c.content)]
            /\ UNCHANGED fedHeader

\* the end of the loop's body
Finish ==
    /\ logicalchunkNum' = logicalchunkNum + 1
    /\ UNCHANGED <<backup, Version, undefined>>

\* what every stored unique chunk goes through
StoreUnique(c) ==
    /\ Pop(c)
    /\ Unique(c)
    /\ FP_Insert(c)
    /\ uniquechunkNum' = uniquechunkNum + 1
    /\ RecipeInsert(uniquechunkNum + 1, c.HeaderFlag)
    /\ Finish

-----------------------------------------------------------------------------
(* The cases of ProcessTrace *)

\* (mutant: a duplicate always goes to the data recipe)
Duplicate_DataRecipe(c) ==
    /\ Pop(c)
    /\ ~Unique(c)
    /\ LET stored == FPindex[c.content] IN
         /\ stored <= Len(chunklist)
         /\ RecipeInsert(chunklist[stored].chunkID, FALSE)
    /\ Finish
    /\ UNCHANGED <<indexes, chunklist, uniquechunkNum, basechunkNum, deltachunkNum>>

\* The stored chunk is used in place of the new one, with its header flag.
Duplicate(c) ==
    /\ Pop(c)
    /\ ~Unique(c)
    /\ LET stored == FPindex[c.content] IN
         /\ stored <= Len(chunklist)
         /\ RecipeInsert(chunklist[stored].chunkID, chunklist[stored].HeaderFlag)
    /\ Finish
    /\ UNCHANGED <<indexes, chunklist, uniquechunkNum, basechunkNum, deltachunkNum>>

\* delta against the candidate of the super features, or a base when there is
\* none or the delta is larger than the chunk
AgainstFeature(c, larger) ==
    IF FindSF(c) = NoChunk \/ larger
    THEN StoreBase(c)
    ELSE StoreDelta(c, "FINESSE_DELTA", FindSF(c))

FeaturePath(c) ==
    /\ StoreUnique(c)
    /\ ~SameName(c)
    /\ \E larger \in BOOLEAN : AgainstFeature(c, larger)

\* the delta against the named chunk is kept: estimateGain accepts it, or the
\* super features lead to the same base
LocalityAccepted(c) ==
    /\ StoreUnique(c)
    /\ SameName(c)
    /\ basechunkNum > 0
    /\ StoreDelta(c, "LOCAL_DELTA", LocalityBase(c))

\* It is larger than the chunk, or estimateGain refuses it and the super
\* features lead elsewhere.  Encoding against the same base gives the same.
LocalityRejected(c) ==
    /\ StoreUnique(c)
    /\ SameName(c)
    /\ basechunkNum > 0
    /\ \E larger \in BOOLEAN :
         /\ FindSF(c) = LocalityBase(c) => larger
         /\ AgainstFeature(c, larger)

\* xdelta3 fails against the candidate: the thread returns in the middle of
\* the loop, and main goes on with the next backup
DeltaError(c) ==
    /\ AllowDeltaError
    /\ Pop(c)
    /\ Unique(c)
    /\ FindSF(c) # NoChunk
    /\ SameName(c) => basechunkNum > 0 /\ FindSF(c) # LocalityBase(c)
    /\ FP_Insert(c)
    /\ backup' = backup + 1
    /\ UNCHANGED <<SFindex, nameTable, chunklist, RecipeMap, RecipeMap_header,
                   Version, counters, undefined>>

\* A division by zero: estimateGain divides by basechunkNum, and both it and
\* line 164 by the size of the delta, 0 when xdelta3 fails.
DivideByZero(c) ==
    /\ Pop(c)
    /\ Unique(c)
    /\ SameName(c)
    /\ AllowDeltaError \/ basechunkNum = 0
    /\ FP_Insert(c)
    /\ undefined' = TRUE
    /\ UNCHANGED <<SFindex, nameTable, chunklist, RecipeMap, RecipeMap_header,
                   backup, Version, counters>>

\* the fingerprint leads past the end of chunklist
OutOfRange(c) ==
    /\ Pop(c)
    /\ FPindex[c.content] > Len(chunklist)
    /\ undefined' = TRUE
    /\ UNCHANGED <<indexes, chunklist, RecipeMap, RecipeMap_header,
                   backup, Version, counters>>

\* the queue is empty and done_: the backup is finished, main starts the next
EndOfBackup ==
    /\ ~undefined
    /\ backup \in Backup
    /\ Version' = Version + 1
    /\ backup' = backup + 1
    /\ UNCHANGED <<indexes, chunklist, recipes, counters, undefined>>

Init ==
    /\ FPindex = [c \in Content |-> NoChunk]
    /\ SFindex = [s \in SF |-> NoChunk]
    /\ nameTable = [n \in Name |-> NoChunk]
    /\ chunklist = << >>
    /\ RecipeMap = [b \in Backup |-> << >>]
    /\ RecipeMap_header = [b \in Backup |-> << >>]
    /\ backup = 1
    /\ Version = 0
    /\ uniquechunkNum = 0
    /\ basechunkNum = 0
    /\ deltachunkNum = 0
    /\ logicalchunkNum = 0
    /\ undefined = FALSE
    /\ fedData = [b \in Backup |-> << >>]
    /\ fedHeader = [b \in Backup |-> << >>]

ProcessChunk(c) ==
    \/ Duplicate(c)
    \/ FeaturePath(c)
    \/ LocalityAccepted(c)
    \/ LocalityRejected(c)
    \/ DeltaError(c)
    \/ DivideByZero(c)
    \/ OutOfRange(c)

Next == EndOfBackup \/ \E c \in Chunk : ProcessChunk(c)

Spec == Init /\ [][Next]_vars
-----------------------------------------------------------------------------
(* Properties *)

\* restoreFile and restoreHeaderFile: a base is written as Get_Chunk_Info
\* returns it, a delta is decoded once, against what it returns for its base
Decode(id) ==
    LET c == chunklist[id]
    IN  IF ~IsDelta(id) THEN Text(id)
        ELSE IF AsBase(c.basechunkID) = c.ref /\ c.ref # Garbage THEN c.content
        ELSE Garbage

Restored(recipe) == [i \in 1 .. Len(recipe) |-> Decode(recipe[i])]

DeltaFlag == {"NO_DELTA", "NO_LZ4", "FINESSE_DELTA", "LOCAL_DELTA"}

StoredChunk == [chunkID : ChunkID, content : Content, HeaderFlag : BOOLEAN,
                deltaFlag : DeltaFlag, form : {"raw", "lz4", "deflate", "cut"},
                basechunkID : ChunkID \cup {NoChunk}, ref : Content \cup {Garbage}]

TypeOK ==
    /\ FPindex \in [Content -> ChunkID \cup {NoChunk}]
    /\ SFindex \in [SF -> ChunkID \cup {NoChunk}]
    /\ nameTable \in [Name -> ChunkID \cup {NoChunk}]
    /\ chunklist \in Seq(StoredChunk)
    /\ RecipeMap \in [Backup -> Seq(ChunkID)]
    /\ RecipeMap_header \in [Backup -> Seq(ChunkID)]
    /\ backup \in Nat /\ Version \in Nat
    /\ uniquechunkNum \in Nat /\ basechunkNum \in Nat
    /\ deltachunkNum \in Nat /\ logicalchunkNum \in Nat
    /\ undefined \in BOOLEAN
    /\ fedData \in [Backup -> Seq(Content)]
    /\ fedHeader \in [Backup -> Seq(Content)]

IsBase(id) == id \in DOMAIN chunklist /\ ~IsDelta(id)

\* The base of a delta is never a delta: restoring decodes once, so a chain
\* of deltas could not be restored (the locality path has to replace a named
\* chunk that is a delta by its base, BiSearch.cc:124-128).
DeltaOnBase ==
    \A id \in DOMAIN chunklist : IsDelta(id) => IsBase(chunklist[id].basechunkID)

\* Both searches only ever propose bases that are already stored.
IndexesPointToBases ==
    /\ \A s \in SF : SFindex[s] # NoChunk => IsBase(SFindex[s])
    /\ \A n \in Name : nameTable[n] # NoChunk => IsBase(nameTable[n])

\* Every ProcessTrace so far ran to its end: Version counts the ends, and a
\* return out of the loop, after xdelta3 failed, is not one of them.
Completed == ~undefined /\ Version = backup - 1

\* A fingerprint leads to the stored chunk of that content (absmethod.h:71:
\* "(fp,chunkid)"), and every stored chunk is found by its own, so that the next
\* chunk of that content is a duplicate; until a ProcessTrace returns early: it
\* leaves behind the fingerprint of a chunk that is not stored.
FPIndexSound ==
    Completed =>
        /\ \A c \in Content : FPindex[c] # NoChunk =>
              /\ FPindex[c] \in DOMAIN chunklist
              /\ chunklist[FPindex[c]].content = c
        /\ \A id \in DOMAIN chunklist : FPindex[chunklist[id].content] = id

\* Deduplication is complete: until then, no content is stored twice.
StoredOnce ==
    Completed => \A i, j \in DOMAIN chunklist :
                     chunklist[i].content = chunklist[j].content => i = j

\* The counters, by which the next chunk is numbered and estimateGain divides,
\* agree with the store.
AccountingAgrees ==
    /\ uniquechunkNum = Len(chunklist)
    /\ uniquechunkNum = basechunkNum + deltachunkNum
    /\ basechunkNum > 0 <=> \E id \in DOMAIN chunklist : ~IsDelta(id)
    /\ \A id \in DOMAIN chunklist : chunklist[id].chunkID = id

\* No backup divides by zero or leaves the chunk list (as long as xdelta3 does
\* not fail: theorem NothingUndefined).
NeverUndefined == ~undefined

\* what is not readable itself, or made against what is not
Spoilt(id) ==
    ~Readable(id) \/ (IsDelta(id) /\ ~Readable(chunklist[id].basechunkID))

\* The recipe restores to what was fed; without LZ4, what is spoilt does not,
\* and takes nothing else with it.
Restores(recipe, fed) ==
    /\ Len(recipe) = Len(fed)
    /\ \A i \in DOMAIN fed :
          Decode(recipe[i]) = fed[i] \/ (~LZ4Compress /\ Spoilt(recipe[i]))

\* At every moment until then, each backup restores to what was fed so far:
\* data chunks and header segments are in their own recipes, in order, and
\* decode.  With -L 0 that is said of the chunks which are kept in a form that
\* zlib decompresses, and of the deltas against such.
RestoreExact ==
    Completed => \A b \in Backup :
        /\ Restores(RecipeMap[b], fedData[b])
        /\ Restores(RecipeMap_header[b], fedHeader[b])

\* The whole of it, whatever -L says ("local compression", main.cc:66) and as
\* -R promises: does not hold with -L 0.
EveryBackupRestores ==
    Completed => \A b \in Backup :
        /\ Restored(RecipeMap[b]) = fedData[b]
        /\ Restored(RecipeMap_header[b]) = fedHeader[b]
=============================================================================
