--------------------------- MODULE MethodsProofs ---------------------------
(***************************************************************************)
(* What MCBiSearch and MCMethods check with a few chunks, for any          *)
(* contents, names and features and any number of chunks and backups.      *)
(*                                                                         *)
(* The first part is about BiSearch.  StoreInv holds even when deltas      *)
(* fail; RestoreInv needs that none does, and that no file has the content *)
(* of a header segment.  The other methods keep the chunk list, the        *)
(* fingerprints and the recipes as BiSearch does, so that its invariants   *)
(* are reused in the second part; what is new there are the tables of      *)
(* NTransForm and Finesse and the levels of Palantir.  LocalDedup alone    *)
(* stores deltas whose base is no base, and is excluded where that         *)
(* matters.                                                                *)
(***************************************************************************)
EXTENDS Methods, WellFoundedInduction, FiniteSetTheorems, TLAPS

-----------------------------------------------------------------------------
(* Sequences *)

\* Appending an element keeps the others where they are.
LEMMA AppendFacts ==
    ASSUME NEW S, NEW s \in Seq(S), NEW e \in S
    PROVE  /\ Append(s, e) \in Seq(S)
           /\ Len(s) \in Nat
           /\ DOMAIN s = 1 .. Len(s)
           /\ Len(Append(s, e)) = Len(s) + 1
           /\ DOMAIN Append(s, e) = 1 .. Len(s) + 1
           /\ \A i \in 1 .. Len(s) : Append(s, e)[i] = s[i]
           /\ Append(s, e)[Len(s) + 1] = e
    BY SMT

\* The positions of a sequence.
LEMMA LenFacts ==
    ASSUME NEW S, NEW s \in Seq(S)
    PROVE  /\ Len(s) \in Nat /\ DOMAIN s = 1 .. Len(s)
           /\ \A i \in DOMAIN s : s[i] \in S
           /\ s = [i \in 1 .. Len(s) |-> s[i]]
    BY SMT

-----------------------------------------------------------------------------
(* The search indexes and the chunk list *)

\* A nonempty set of numbers has a least one.
LEMMA LeastNatural ==
    ASSUME NEW T \in SUBSET Nat, T # {}
    PROVE  \E x \in T : \A y \in T : x <= y
<1> DEFINE R == {ss \in Nat \X Nat : ss[1] < ss[2]}
<1>1. IsWellFoundedOn(R, Nat)
    BY NatLessThanWellFounded DEF OpToRel
<1>2. \E x \in T : \A y \in T : <<y, x>> \notin R
  <2> HIDE DEF R
  <2> QED BY <1>1, WFMin
<1>3. ASSUME NEW x \in T, NEW y \in T, <<y, x>> \notin R
      PROVE  x <= y
    BY <1>3
<1> QED BY <1>2, <1>3

\* The text of a delta is what is read back of its base, which is no delta.
DeltasKept ==
    \A id \in DOMAIN chunklist : IsDelta(id) =>
        /\ chunklist[id].basechunkID \in DOMAIN chunklist
        /\ ~IsDelta(chunklist[id].basechunkID)
        /\ chunklist[id].ref = Text(chunklist[id].basechunkID)

\* With LZ4 nothing is kept in another form.
FormsKept ==
    LZ4Compress => \A id \in DOMAIN chunklist : chunklist[id].form \in {"raw", "lz4"}

\* Every chunk is stored once per chunk fed at most.
Bounded ==
    /\ uniquechunkNum <= logicalchunkNum
    /\ logicalchunkNum <= MaxLogical

StoreInv ==
    /\ TypeOK
    /\ Bounded
    /\ AccountingAgrees
    /\ IndexesPointToBases
    /\ DeltasKept
    /\ FormsKept

\* The first indexed super feature leads to a stored base.
LEMMA FindSFIsBase ==
    ASSUME StoreInv, NEW c \in Chunk, FindSF(c) # NoChunk
    PROVE  IsBase(FindSF(c))
<1> DEFINE sfs  == Features[c.content]
           hits == {i \in DOMAIN sfs : SFindex[sfs[i]] # NoChunk}
<1>1. c.content \in Content
    BY DEF Chunk, Content
<1>2. sfs \in Seq(SF)
    BY <1>1, FeaturesAssumption
<1>3. /\ DOMAIN sfs \in SUBSET Nat
      /\ \A i \in DOMAIN sfs : sfs[i] \in SF
    BY <1>2
<1>4. hits # {}
    BY DEF FindSF
<1>5. hits \in SUBSET Nat
    BY <1>3
<1>6. \E i \in hits : \A j \in hits : i <= j
    BY <1>4, <1>5, LeastNatural
<1> DEFINE first == CHOOSE i \in hits : \A j \in hits : i <= j
<1>7. first \in hits
    BY <1>6
<1>8. FindSF(c) = SFindex[sfs[first]]
    BY <1>4 DEF FindSF
<1>9. sfs[first] \in SF
    BY <1>3, <1>7
<1> QED BY <1>8, <1>9 DEF StoreInv, IndexesPointToBases

\* The chunk known by a name is a base, and so is what the locality path
\* encodes against.
LEMMA LocalityBaseIsBase ==
    ASSUME StoreInv, NEW c \in Chunk, SameName(c)
    PROVE  IsBase(LocalityBase(c))
<1>1. c.name \in Name
    BY DEF Chunk
<1>2. IsBase(nameTable[c.name])
    BY <1>1 DEF SameName, StoreInv, IndexesPointToBases
<1> QED BY <1>2 DEF LocalityBase, IsBase

-----------------------------------------------------------------------------
(* A chunk leaves the queue and gets its number *)

\* The record of what the chunker produced.
FedOK == fedData \in [Backup -> Seq(Content)] /\ fedHeader \in [Backup -> Seq(Content)]

\* A popped chunk is added to the record of its backup.
LEMMA PopFacts ==
    ASSUME TypeOK, NEW c \in Chunk, Pop(c)
    PROVE  FedOK'
<1>1. backup \in Backup /\ c.content \in Content
    BY DEF Pop, Chunk, Content
<1>2. FedOK
    BY DEF TypeOK, FedOK
<1>3. /\ Append(fedData[backup], c.content) \in Seq(Content)
      /\ Append(fedHeader[backup], c.content) \in Seq(Content)
  <2>1. fedData[backup] \in Seq(Content) /\ fedHeader[backup] \in Seq(Content)
      BY <1>1, <1>2 DEF FedOK
  <2> QED BY <1>1, <2>1, AppendFacts
<1> QED BY <1>1, <1>2, <1>3 DEF Pop, FedOK

\* A chunk number is added to one of the recipes of the backup.
LEMMA RecipeFacts ==
    ASSUME TypeOK, backup \in Backup, NEW id \in ChunkID, NEW headerFlag,
           RecipeInsert(id, headerFlag)
    PROVE  /\ RecipeMap' \in [Backup -> Seq(ChunkID)]
           /\ RecipeMap_header' \in [Backup -> Seq(ChunkID)]
<1>1. /\ Append(RecipeMap[backup], id) \in Seq(ChunkID)
      /\ Append(RecipeMap_header[backup], id) \in Seq(ChunkID)
  <2>1. /\ RecipeMap[backup] \in Seq(ChunkID)
        /\ RecipeMap_header[backup] \in Seq(ChunkID)
      BY DEF TypeOK
  <2> QED BY <2>1, AppendFacts
<1> QED BY <1>1 DEF TypeOK, RecipeInsert

\* There is a number left for a chunk that can be fed.
LEMMA NextIdFacts ==
    ASSUME StoreInv, NEW c \in Chunk, Pop(c)
    PROVE  /\ uniquechunkNum \in Nat
           /\ uniquechunkNum + 1 \in ChunkID
           /\ logicalchunkNum + 1 \in Nat
           /\ uniquechunkNum + 1 <= logicalchunkNum + 1
           /\ logicalchunkNum + 1 <= MaxLogical
           /\ uniquechunkNum <= logicalchunkNum + 1
    BY OptionsAssumption DEF StoreInv, TypeOK, Bounded, Pop, ChunkID

\* The fingerprint index keeps its type.
LEMMA FPInsertType ==
    ASSUME StoreInv, NEW c \in Chunk, Pop(c), FP_Insert(c)
    PROVE  FPindex' \in [Content -> ChunkID \cup {NoChunk}]
<1>1. uniquechunkNum + 1 \in ChunkID
    BY NextIdFacts
<1> QED BY <1>1 DEF StoreInv, TypeOK, FP_Insert

\* What every stored unique chunk does to types and bounds.
LEMMA StoreUniqueFacts ==
    ASSUME StoreInv, NEW c \in Chunk, StoreUnique(c)
    PROVE  /\ FPindex' \in [Content -> ChunkID \cup {NoChunk}]
           /\ RecipeMap' \in [Backup -> Seq(ChunkID)]
           /\ RecipeMap_header' \in [Backup -> Seq(ChunkID)]
           /\ FedOK'
           /\ backup' \in Nat /\ Version' \in Nat /\ undefined' \in BOOLEAN
           /\ uniquechunkNum' \in Nat /\ logicalchunkNum' \in Nat
           /\ Bounded'
<1>1. TypeOK /\ Pop(c) /\ FP_Insert(c) /\ Finish /\ backup \in Backup
    BY DEF StoreInv, StoreUnique, Pop
<1>2. uniquechunkNum + 1 \in ChunkID /\ RecipeInsert(uniquechunkNum + 1, c.HeaderFlag)
    BY <1>1, NextIdFacts DEF StoreUnique
<1>3. FPindex' \in [Content -> ChunkID \cup {NoChunk}]
    BY <1>1, FPInsertType
<1>4. /\ RecipeMap' \in [Backup -> Seq(ChunkID)]
      /\ RecipeMap_header' \in [Backup -> Seq(ChunkID)]
    BY <1>1, <1>2, RecipeFacts
<1>5. FedOK'
    BY <1>1, PopFacts
<1>6. /\ backup' \in Nat /\ Version' \in Nat /\ undefined' \in BOOLEAN
      /\ uniquechunkNum' = uniquechunkNum + 1
      /\ logicalchunkNum' = logicalchunkNum + 1
    BY <1>1 DEF TypeOK, Finish, StoreUnique
<1>7. /\ uniquechunkNum' \in Nat /\ logicalchunkNum' \in Nat
      /\ Bounded'
  <2>1. /\ uniquechunkNum \in Nat
        /\ logicalchunkNum + 1 \in Nat
        /\ uniquechunkNum + 1 <= logicalchunkNum + 1
        /\ logicalchunkNum + 1 <= MaxLogical
      BY <1>1, NextIdFacts
  <2> QED BY <1>6, <2>1 DEF Bounded
<1> QED BY <1>3, <1>4, <1>5, <1>6, <1>7

-----------------------------------------------------------------------------
(* A chunk enters the chunk list *)

\* what ChunkInsert leaves: the old chunks, and one more
Extended(c, flag, base) ==
    /\ chunklist' \in Seq(StoredChunk)
    /\ DOMAIN chunklist = 1 .. uniquechunkNum
    /\ DOMAIN chunklist' = 1 .. uniquechunkNum + 1
    /\ Len(chunklist') = uniquechunkNum + 1
    /\ \A i \in 1 .. uniquechunkNum : chunklist'[i] = chunklist[i]
    /\ chunklist'[uniquechunkNum + 1].chunkID = uniquechunkNum + 1
    /\ chunklist'[uniquechunkNum + 1].content = c.content
    /\ chunklist'[uniquechunkNum + 1].HeaderFlag = c.HeaderFlag
    /\ chunklist'[uniquechunkNum + 1].deltaFlag = flag
    /\ LZ4Compress => chunklist'[uniquechunkNum + 1].form \in {"raw", "lz4"}
    /\ chunklist'[uniquechunkNum + 1].basechunkID = base
    /\ base # NoChunk => chunklist'[uniquechunkNum + 1].ref = Text(base)

\* the forms a chunk may be given
Form == {"raw", "lz4", "deflate", "cut"}
FormAllowed(form) == form \in Form /\ (LZ4Compress => form \in {"raw", "lz4"})

\* ChunkInsert appends one chunk, a base or a delta against a base.
LEMMA ChunkInsertFacts ==
    ASSUME StoreInv, NEW c \in Chunk, NEW flag \in DeltaFlag,
           NEW form, FormAllowed(form),
           NEW base \in ChunkID \cup {NoChunk},
           base # NoChunk => IsBase(base),
           uniquechunkNum + 1 \in ChunkID,
           ChunkInsert(c, flag, form, base)
    PROVE  Extended(c, flag, base)
<1> DEFINE ref == IF base = NoChunk THEN Garbage ELSE AsBase(base)
           new == [chunkID |-> uniquechunkNum + 1, content |-> c.content,
                   HeaderFlag |-> c.HeaderFlag, deltaFlag |-> flag, form |-> form,
                   basechunkID |-> base, ref |-> ref]
<1>1. /\ chunklist \in Seq(StoredChunk)
      /\ uniquechunkNum = Len(chunklist)
    BY DEF StoreInv, TypeOK, AccountingAgrees
<1>2. c.content \in Content /\ c.HeaderFlag \in BOOLEAN
    BY DEF Chunk, Content
<1>3. base # NoChunk => ref = Text(base) /\ ref \in Content \cup {Garbage}
  <2>1. ASSUME base # NoChunk
        PROVE  chunklist[base] \in StoredChunk /\ ref = Text(base)
      BY <1>1, <2>1 DEF IsBase, AsBase
  <2> QED BY <2>1 DEF StoredChunk, Text
<1>4. ref \in Content \cup {Garbage}
    BY <1>3
<1>5. new \in StoredChunk
  <2> HIDE DEF ref
  <2> QED BY <1>2, <1>4 DEF StoredChunk, FormAllowed, Form
<1>6. chunklist' = Append(chunklist, new)
    BY DEF ChunkInsert
<1>7. /\ new.chunkID = uniquechunkNum + 1
      /\ new.content = c.content
      /\ new.HeaderFlag = c.HeaderFlag
      /\ new.deltaFlag = flag
      /\ LZ4Compress => new.form \in {"raw", "lz4"}
      /\ new.basechunkID = base
      /\ base # NoChunk => new.ref = Text(base)
    BY <1>3 DEF FormAllowed
<1> HIDE DEF new
<1>8. /\ chunklist' \in Seq(StoredChunk)
      /\ DOMAIN chunklist = 1 .. uniquechunkNum
      /\ DOMAIN chunklist' = 1 .. uniquechunkNum + 1
      /\ Len(chunklist') = uniquechunkNum + 1
      /\ \A i \in 1 .. uniquechunkNum : chunklist'[i] = chunklist[i]
      /\ chunklist'[uniquechunkNum + 1] = new
    BY <1>1, <1>5, <1>6, AppendFacts
<1> QED BY <1>7, <1>8 DEF Extended

\* Compressing a base gives it one of these flags and an allowed form.
LEMMA FormsFacts ==
    /\ \A f \in LZ4Forms : f.deltaFlag \in {"NO_DELTA", "NO_LZ4"} /\ FormAllowed(f.form)
    /\ \A f \in LocalForms : f.deltaFlag \in {"NO_DELTA", "NO_LZ4"} /\ FormAllowed(f.form)
    /\ FormAllowed("raw")
    BY DEF LZ4Forms, LocalForms, DeflateForms, FormAllowed, Form

\* Each compressed base is inserted with such a flag and form.
BaseInserted(c) ==
    \E flag \in {"NO_DELTA", "NO_LZ4"}, form \in Form :
        FormAllowed(form) /\ ChunkInsert(c, flag, form, NoChunk)

LEMMA BaseInsertedFacts ==
    ASSUME NEW c, NEW forms \in {LZ4Forms, LocalForms},
           \E f \in forms : ChunkInsert(c, f.deltaFlag, f.form, NoChunk)
    PROVE  BaseInserted(c)
<1>1. PICK f \in forms : ChunkInsert(c, f.deltaFlag, f.form, NoChunk)
    OBVIOUS
<1>2. f.deltaFlag \in {"NO_DELTA", "NO_LZ4"} /\ FormAllowed(f.form)
    BY FormsFacts
<1> QED BY <1>1, <1>2 DEF BaseInserted, FormAllowed

\* The stored chunks stay as they are, bases and deltas.
LEMMA ExtendedKeeps ==
    ASSUME StoreInv, NEW c, NEW flag, NEW base, Extended(c, flag, base),
           NEW id \in DOMAIN chunklist
    PROVE  /\ chunklist'[id] = chunklist[id]
           /\ id \in DOMAIN chunklist'
           /\ IsDelta(id)' <=> IsDelta(id)
<1>1. uniquechunkNum \in Nat
    BY DEF StoreInv, TypeOK
<1>2. chunklist'[id] = chunklist[id] /\ id \in DOMAIN chunklist'
    BY <1>1 DEF Extended
<1> QED BY <1>2 DEF IsDelta

\* id is a stored base in the next state
BaseNext(id) ==
    /\ id \in DOMAIN chunklist'
    /\ chunklist'[id].deltaFlag \notin {"FINESSE_DELTA", "LOCAL_DELTA"}

\* A stored base stays one.
LEMMA BaseStays ==
    ASSUME StoreInv, NEW c, NEW flag, NEW base, Extended(c, flag, base),
           NEW id, IsBase(id)
    PROVE  BaseNext(id)
<1>1. id \in DOMAIN chunklist /\ ~IsDelta(id)
    BY DEF IsBase
<1>2. chunklist'[id] = chunklist[id] /\ id \in DOMAIN chunklist'
    BY <1>1, ExtendedKeeps
<1> QED BY <1>1, <1>2 DEF IsDelta, BaseNext

\* The deltas still lead to their bases, and the new one to its own.
LEMMA DeltasKeptStep ==
    ASSUME StoreInv, NEW c, NEW flag, NEW base, Extended(c, flag, base),
           flag \in {"FINESSE_DELTA", "LOCAL_DELTA"} => base # NoChunk /\ IsBase(base)
    PROVE  DeltasKept'
<1>1. uniquechunkNum \in Nat
    BY DEF StoreInv, TypeOK
<1> SUFFICES ASSUME NEW id \in DOMAIN chunklist', IsDelta(id)'
             PROVE  /\ chunklist'[id].basechunkID \in DOMAIN chunklist'
                    /\ ~IsDelta(chunklist[id].basechunkID)'
                    /\ chunklist'[id].ref = Text(chunklist[id].basechunkID)'
    BY DEF DeltasKept
<1>2. CASE id \in DOMAIN chunklist
  <2>1. IsDelta(id) /\ chunklist'[id] = chunklist[id]
      BY <1>2, ExtendedKeeps
  <2>2. /\ chunklist[id].basechunkID \in DOMAIN chunklist
        /\ ~IsDelta(chunklist[id].basechunkID)
        /\ chunklist[id].ref = Text(chunklist[id].basechunkID)
      BY <1>2, <2>1 DEF StoreInv, DeltasKept
  <2> DEFINE b == chunklist[id].basechunkID
  <2>3. /\ chunklist'[b] = chunklist[b] /\ b \in DOMAIN chunklist'
      BY <2>2 , <1>1 DEF Extended
  <2> QED BY <2>1, <2>2, <2>3 DEF IsDelta, Text, Readable
<1>3. CASE id = uniquechunkNum + 1
  <2>1. /\ chunklist'[id].deltaFlag = flag
        /\ chunklist'[id].basechunkID = base
        /\ base # NoChunk => chunklist'[id].ref = Text(base)
      BY <1>3 DEF Extended
  <2>2. base # NoChunk /\ IsBase(base)
      BY <2>1 DEF IsDelta
  <2>3. base \in DOMAIN chunklist /\ ~IsDelta(base)
      BY <2>2 DEF IsBase
  <2>4. chunklist'[base] = chunklist[base] /\ base \in DOMAIN chunklist'
      BY <2>3, <1>1 DEF Extended
  <2> QED BY <2>1, <2>2, <2>3, <2>4 DEF IsDelta, Text, Readable
<1> QED BY <1>1, <1>2, <1>3 DEF Extended

\* The forms stay those that the option allows.
LEMMA FormsKeptStep ==
    ASSUME StoreInv, NEW c, NEW flag, NEW base, Extended(c, flag, base)
    PROVE  FormsKept'
<1>1. uniquechunkNum \in Nat
    BY DEF StoreInv, TypeOK
<1> SUFFICES ASSUME LZ4Compress, NEW id \in DOMAIN chunklist'
             PROVE  chunklist'[id].form \in {"raw", "lz4"}
    BY DEF FormsKept
<1>2. CASE id \in DOMAIN chunklist
    BY <1>2, ExtendedKeeps DEF StoreInv, FormsKept
<1>3. CASE id = uniquechunkNum + 1
    BY <1>3 DEF Extended
<1> QED BY <1>1, <1>2, <1>3 DEF Extended

\* The chunks stay numbered by their position.
LEMMA NumberedStep ==
    ASSUME StoreInv, NEW c, NEW flag, NEW base, Extended(c, flag, base),
           uniquechunkNum' = uniquechunkNum + 1
    PROVE  /\ uniquechunkNum' = Len(chunklist)'
           /\ \A id \in DOMAIN chunklist' : chunklist'[id].chunkID = id
<1>1. uniquechunkNum \in Nat /\ \A id \in DOMAIN chunklist : chunklist[id].chunkID = id
    BY DEF StoreInv, TypeOK, AccountingAgrees
<1> QED BY <1>1 DEF Extended

\* Storing a base: the counters, and both indexes, lead to bases only.
LEMMA StoreBaseStep ==
    ASSUME StoreInv, NEW c \in Chunk, StoreUnique(c),
           NEW forms \in {LZ4Forms, LocalForms}, StoreBaseAs(c, forms)
    PROVE  StoreInv' /\ \E flag : Extended(c, flag, NoChunk)
<1>1. PICK flag \in {"NO_DELTA", "NO_LZ4"}, form \in Form :
          FormAllowed(form) /\ ChunkInsert(c, flag, form, NoChunk)
    BY BaseInsertedFacts DEF StoreBaseAs, BaseInserted
<1>2. uniquechunkNum \in Nat /\ uniquechunkNum + 1 \in ChunkID
    BY NextIdFacts DEF StoreUnique
<1>3. Extended(c, flag, NoChunk)
    BY <1>1, <1>2, ChunkInsertFacts DEF DeltaFlag
<1>4. /\ uniquechunkNum' = uniquechunkNum + 1
      /\ c.name \in Name /\ c.content \in Content
    BY DEF StoreUnique, Chunk, Content
<1>5. BaseNext(uniquechunkNum + 1)
    BY <1>1, <1>2, <1>3 DEF Extended, BaseNext
<1>6. \A id : IsBase(id) => BaseNext(id)
    BY <1>3, BaseStays
<1>7. /\ SFindex' \in [SF -> ChunkID \cup {NoChunk}]
      /\ nameTable' \in [Name -> ChunkID \cup {NoChunk}]
    BY <1>2, <1>4 DEF StoreBaseAs, InsertSF, StoreInv, TypeOK
<1>8. IndexesPointToBases'
  <2>1. ASSUME NEW s \in SF, SFindex'[s] # NoChunk PROVE BaseNext(SFindex'[s])
    <3>1. SFindex'[s] = SFindex[s] \/ SFindex'[s] = uniquechunkNum + 1
        BY DEF StoreBaseAs, InsertSF
    <3>2. CASE SFindex'[s] = uniquechunkNum + 1
        BY <1>5, <3>2
    <3>3. CASE SFindex'[s] = SFindex[s]
      <4>1. IsBase(SFindex[s])
          BY <2>1, <3>3 DEF StoreInv, IndexesPointToBases
      <4> QED BY <1>6, <3>3, <4>1
    <3> QED BY <3>1, <3>2, <3>3
  <2>2. ASSUME NEW n \in Name, nameTable'[n] # NoChunk PROVE BaseNext(nameTable'[n])
    <3>1. nameTable' = [nameTable EXCEPT ![c.name] = uniquechunkNum + 1]
        BY DEF StoreBaseAs
    <3>2. nameTable'[n] = nameTable[n] \/ nameTable'[n] = uniquechunkNum + 1
        BY <3>1, <1>4 DEF StoreInv, TypeOK
    <3>3. CASE nameTable'[n] = uniquechunkNum + 1
        BY <1>5, <3>3
    <3>4. CASE nameTable'[n] = nameTable[n]
      <4>1. IsBase(nameTable[n])
          BY <2>2, <3>4 DEF StoreInv, IndexesPointToBases
      <4> QED BY <1>6, <3>4, <4>1
    <3> QED BY <3>2, <3>3, <3>4
  <2> QED BY <2>1, <2>2 DEF IndexesPointToBases, IsBase, IsDelta, BaseNext
<1>9. basechunkNum' = basechunkNum + 1 /\ deltachunkNum' = deltachunkNum
    BY DEF StoreBaseAs
<1>10. /\ basechunkNum \in Nat /\ deltachunkNum \in Nat
       /\ uniquechunkNum = basechunkNum + deltachunkNum
    BY DEF StoreInv, TypeOK, AccountingAgrees
<1>11. /\ basechunkNum' \in Nat /\ deltachunkNum' \in Nat
       /\ uniquechunkNum' = basechunkNum' + deltachunkNum'
       /\ basechunkNum' > 0
    BY <1>2, <1>4, <1>9, <1>10
<1>12. AccountingAgrees'
  <2>1. \E id \in DOMAIN chunklist' : ~IsDelta(id)'
      BY <1>5 DEF BaseNext, IsDelta
  <2>2. /\ uniquechunkNum' = Len(chunklist)'
        /\ \A id \in DOMAIN chunklist' : chunklist'[id].chunkID = id
      BY <1>3, <1>4, NumberedStep
  <2> QED BY <1>11, <2>1, <2>2 DEF AccountingAgrees, IsDelta
<1>13. DeltasKept' /\ FormsKept'
    BY <1>1, <1>3, DeltasKeptStep, FormsKeptStep
<1>14. TypeOK'
    BY <1>3, <1>7, <1>11, StoreUniqueFacts DEF TypeOK, FedOK, Extended
<1> QED BY <1>3, <1>8, <1>12, <1>13, <1>14, StoreUniqueFacts DEF StoreInv

\* Storing a delta against a base leaves the indexes alone.
LEMMA StoreDeltaStep ==
    ASSUME StoreInv, NEW c \in Chunk, StoreUnique(c),
           NEW flag \in {"FINESSE_DELTA", "LOCAL_DELTA"}, NEW base, IsBase(base),
           StoreDelta(c, flag, base)
    PROVE  StoreInv' /\ \E f, b : Extended(c, f, b)
<1>1. uniquechunkNum \in Nat /\ uniquechunkNum + 1 \in ChunkID
    BY NextIdFacts DEF StoreUnique
<1>2. base \in ChunkID /\ base # NoChunk
  <2>1. DOMAIN chunklist = 1 .. uniquechunkNum
      BY LenFacts DEF StoreInv, TypeOK, AccountingAgrees
  <2> QED BY <1>1, <2>1, OptionsAssumption DEF IsBase, ChunkID, NoChunk
<1>3. Extended(c, flag, base)
    BY <1>1, <1>2, ChunkInsertFacts, FormsFacts DEF DeltaFlag, StoreDelta
<1>4. uniquechunkNum' = uniquechunkNum + 1
    BY DEF StoreUnique
<1>5. \A id : IsBase(id) => BaseNext(id)
    BY <1>3, BaseStays
<1>6. /\ SFindex' = SFindex /\ nameTable' = nameTable
      /\ basechunkNum' = basechunkNum /\ deltachunkNum' = deltachunkNum + 1
    BY DEF StoreDelta
<1>7. IndexesPointToBases'
    BY <1>5, <1>6 DEF StoreInv, IndexesPointToBases, IsBase, IsDelta, BaseNext
<1>8. /\ basechunkNum \in Nat /\ deltachunkNum \in Nat
      /\ uniquechunkNum = basechunkNum + deltachunkNum
    BY DEF StoreInv, TypeOK, AccountingAgrees
<1>9. /\ basechunkNum' \in Nat /\ deltachunkNum' \in Nat
      /\ uniquechunkNum' = basechunkNum' + deltachunkNum'
    BY <1>1, <1>4, <1>6, <1>8
<1>10. AccountingAgrees'
  <2>1. basechunkNum > 0
      BY DEF IsBase, StoreInv, AccountingAgrees
  <2>2. \E id \in DOMAIN chunklist' : ~IsDelta(id)'
    <3>1. base \in DOMAIN chunklist /\ ~IsDelta(base)
        BY DEF IsBase
    <3> QED BY <1>3, <3>1, ExtendedKeeps
  <2>3. /\ uniquechunkNum' = Len(chunklist)'
        /\ \A id \in DOMAIN chunklist' : chunklist'[id].chunkID = id
      BY <1>3, <1>4, NumberedStep
  <2> QED BY <1>6, <1>9, <2>1, <2>2, <2>3 DEF AccountingAgrees, IsDelta
<1>11. DeltasKept' /\ FormsKept'
    BY <1>2, <1>3, DeltasKeptStep, FormsKeptStep
<1>12. TypeOK'
    BY <1>3, <1>6, <1>9, StoreUniqueFacts DEF StoreInv, TypeOK, FedOK, Extended
<1> QED BY <1>3, <1>7, <1>10, <1>11, <1>12, StoreUniqueFacts DEF StoreInv

-----------------------------------------------------------------------------
(* The actions *)

\* Storing a unique chunk through the super features: with no base to encode
\* against, or with a delta too large, it becomes a base.
LEMMA AgainstFeatureStep ==
    ASSUME StoreInv, NEW c \in Chunk, StoreUnique(c), NEW larger,
           AgainstFeature(c, larger)
    PROVE  StoreInv' /\ \E f, b : Extended(c, f, b)
<1>1. CASE FindSF(c) = NoChunk \/ larger
  <2>1. StoreBaseAs(c, LocalForms)
      BY <1>1 DEF AgainstFeature, StoreBase
  <2> QED BY <2>1, StoreBaseStep
<1>2. CASE ~(FindSF(c) = NoChunk \/ larger)
  <2>1. StoreDelta(c, "FINESSE_DELTA", FindSF(c)) /\ FindSF(c) # NoChunk
      BY <1>2 DEF AgainstFeature
  <2>2. IsBase(FindSF(c))
      BY <2>1, FindSFIsBase
  <2> QED BY <2>1, <2>2, StoreDeltaStep
<1> QED BY <1>1, <1>2

\* Every path that stores a unique chunk keeps the invariant.
LEMMA UniqueStep ==
    ASSUME StoreInv, NEW c \in Chunk,
           FeaturePath(c) \/ LocalityAccepted(c) \/ LocalityRejected(c)
    PROVE  StoreInv' /\ StoreUnique(c) /\ \E f, b : Extended(c, f, b)
<1>1. CASE FeaturePath(c)
    BY <1>1, AgainstFeatureStep DEF FeaturePath
<1>2. CASE LocalityAccepted(c)
    BY <1>2, LocalityBaseIsBase, StoreDeltaStep DEF LocalityAccepted
<1>3. CASE LocalityRejected(c)
    BY <1>3, AgainstFeatureStep DEF LocalityRejected
<1> QED BY <1>1, <1>2, <1>3

\* A duplicate adds a stored chunk's number to a recipe.
LEMMA DuplicateStep ==
    ASSUME StoreInv, NEW c \in Chunk, Duplicate(c)
    PROVE  StoreInv'
<1>1. TypeOK /\ Pop(c) /\ Finish /\ backup \in Backup /\ c.content \in Content
    BY DEF StoreInv, Duplicate, Pop, Chunk, Content
<1> DEFINE stored == FPindex[c.content]
<1>2. stored \in ChunkID
    BY <1>1 DEF Duplicate, Unique, TypeOK
<1>3. chunklist[stored].chunkID = stored /\ stored \in DOMAIN chunklist
  <2>1. DOMAIN chunklist = 1 .. Len(chunklist) /\ Len(chunklist) \in Nat
      BY <1>1, LenFacts DEF TypeOK
  <2>2. stored <= Len(chunklist)
      BY DEF Duplicate
  <2>3. stored \in DOMAIN chunklist
      BY <1>2, <2>1, <2>2, OptionsAssumption DEF ChunkID
  <2> QED BY <2>3 DEF StoreInv, AccountingAgrees
<1>4. RecipeInsert(stored, chunklist[stored].HeaderFlag)
    BY <1>3 DEF Duplicate
<1>5. /\ RecipeMap' \in [Backup -> Seq(ChunkID)]
      /\ RecipeMap_header' \in [Backup -> Seq(ChunkID)]
  <2> HIDE DEF stored
  <2> QED BY <1>1, <1>2, <1>4, RecipeFacts
<1>6. FedOK'
    BY <1>1, PopFacts
<1>7. /\ UNCHANGED <<indexes, chunklist, uniquechunkNum, basechunkNum, deltachunkNum>>
      /\ UNCHANGED <<backup, Version, undefined>>
      /\ logicalchunkNum' = logicalchunkNum + 1
    BY <1>1 DEF Duplicate, Finish
<1>8. logicalchunkNum' \in Nat /\ Bounded'
    BY <1>1, <1>7, NextIdFacts DEF Bounded
<1>9. TypeOK'
    BY <1>1, <1>5, <1>6, <1>7, <1>8 DEF TypeOK, FedOK, indexes
<1> QED BY <1>7, <1>8, <1>9 DEF StoreInv, AccountingAgrees, IndexesPointToBases,
           DeltasKept, FormsKept, IsBase, IsDelta, Text, Readable, indexes

\* The steps that store nothing, a failed delta among them: they may leave a
\* fingerprint behind, but no index, counter or chunk.
LEMMA NothingStoredStep ==
    ASSUME StoreInv, NEW c \in Chunk,
           DeltaError(c) \/ DivideByZero(c) \/ OutOfRange(c)
    PROVE  StoreInv'
<1>1. TypeOK /\ Pop(c)
    BY DEF StoreInv, DeltaError, DivideByZero, OutOfRange
<1>2. FedOK'
    BY <1>1, PopFacts
<1>3. FPindex' \in [Content -> ChunkID \cup {NoChunk}]
  <2>1. CASE FP_Insert(c)
      BY <1>1, <2>1, FPInsertType
  <2>2. CASE FPindex' = FPindex
      BY <1>1, <2>2 DEF TypeOK
  <2> QED BY <2>1, <2>2 DEF DeltaError, DivideByZero, OutOfRange, indexes
<1>4. /\ UNCHANGED <<SFindex, nameTable, chunklist, RecipeMap, RecipeMap_header>>
      /\ UNCHANGED <<Version, counters>>
      /\ backup' \in Nat /\ undefined' \in BOOLEAN
  <2>1. backup \in Nat /\ backup + 1 \in Nat /\ undefined \in BOOLEAN
      BY <1>1 DEF TypeOK
  <2>2. CASE DeltaError(c)
      BY <2>1, <2>2 DEF DeltaError
  <2>3. CASE DivideByZero(c)
      BY <2>1, <2>3 DEF DivideByZero
  <2>4. CASE OutOfRange(c)
      BY <2>1, <2>4 DEF OutOfRange, indexes
  <2> QED BY <2>2, <2>3, <2>4
<1>5. TypeOK'
    BY <1>1, <1>2, <1>3, <1>4 DEF TypeOK, FedOK, counters
<1> QED BY <1>4, <1>5 DEF StoreInv, Bounded, AccountingAgrees, IndexesPointToBases,
           DeltasKept, FormsKept, IsBase, IsDelta, Text, Readable, counters

\* The end of a backup touches neither indexes nor chunks.
LEMMA EndOfBackupStep ==
    ASSUME StoreInv, EndOfBackup
    PROVE  StoreInv'
<1>1. TypeOK'
    BY DEF StoreInv, TypeOK, EndOfBackup, indexes, recipes, counters
<1> QED BY <1>1 DEF StoreInv, EndOfBackup, Bounded, AccountingAgrees,
           IndexesPointToBases, DeltasKept, FormsKept, IsBase, IsDelta, Text, Readable,
           indexes, recipes, counters

\* Nothing is stored at first.
LEMMA InitStore == Init => StoreInv
<1> SUFFICES ASSUME Init PROVE StoreInv
    OBVIOUS
<1>1. /\ << >> \in Seq(StoredChunk) /\ << >> \in Seq(ChunkID) /\ << >> \in Seq(Content)
      /\ Len(<< >>) = 0 /\ DOMAIN << >> = {}
    BY SMT
<1>2. TypeOK
    BY <1>1 DEF Init, TypeOK, NoChunk
<1>3. chunklist = << >> /\ DOMAIN chunklist = {} /\ Len(chunklist) = 0
    BY <1>1 DEF Init
<1>4. AccountingAgrees
    BY <1>3 DEF Init, AccountingAgrees
<1>5. IndexesPointToBases /\ DeltasKept /\ FormsKept
    BY <1>3 DEF Init, IndexesPointToBases, DeltasKept, FormsKept
<1>6. Bounded
    BY OptionsAssumption DEF Init, Bounded
<1> QED BY <1>2, <1>4, <1>5, <1>6 DEF StoreInv

\* The store, its search indexes and its counters stay in step, whatever fails.
THEOREM StoreInvariant == Spec => []StoreInv
<1>1. StoreInv /\ [Next]_vars => StoreInv'
  <2> SUFFICES ASSUME StoreInv, [Next]_vars PROVE StoreInv'
      OBVIOUS
  <2>1. CASE EndOfBackup
      BY <2>1, EndOfBackupStep
  <2>2. ASSUME NEW c \in Chunk, ProcessChunk(c) PROVE StoreInv'
      BY <2>2, UniqueStep, DuplicateStep, NothingStoredStep DEF ProcessChunk
  <2>3. CASE UNCHANGED vars
      BY <2>3 DEF vars, indexes, recipes, counters, StoreInv, TypeOK, Bounded,
            AccountingAgrees, IndexesPointToBases, DeltasKept, FormsKept, IsBase, IsDelta,
            Text, Readable
  <2> QED BY <2>1, <2>2, <2>3 DEF Next
<1> QED BY <1>1, InitStore, PTL DEF Spec

\* Both searches only ever propose stored bases, deltas have depth one and the
\* counters agree with the store: with or without failing deltas.
THEOREM StoreConsistent ==
    Spec => [](IndexesPointToBases /\ DeltaOnBase /\ AccountingAgrees)
<1>1. StoreInv => IndexesPointToBases /\ DeltaOnBase /\ AccountingAgrees
    BY DEF StoreInv, DeltasKept, DeltaOnBase, IsBase
<1> QED BY <1>1, StoreInvariant, PTL

\* A delta is encoded against a chunk that is not one: restoring takes one
\* level of decoding, which is all that writeToFile does.
COROLLARY DeltaDepthOne == Spec => []DeltaOnBase
BY StoreConsistent, PTL

\* The counters printed at the end are those of the chunks stored.
COROLLARY CountersAgree == Spec => []AccountingAgrees
BY StoreConsistent, PTL

\* Types of the state.
THEOREM BiSearchTypeCorrect == Spec => []TypeOK
<1>1. StoreInv => TypeOK
    BY DEF StoreInv
<1> QED BY <1>1, StoreInvariant, PTL

-----------------------------------------------------------------------------
(* Restoring *)

\* No file has the content of a header segment.
NoOverlap == HeaderContent \cap DataContent = {}

\* the recipe leads to the chunks that were fed
Covers(list, recipe, fed) ==
    /\ Len(recipe) = Len(fed)
    /\ \A i \in 1 .. Len(recipe) :
         recipe[i] \in DOMAIN list /\ list[recipe[i]].content = fed[i]

RecipesCover ==
    \A b \in Backup : /\ Covers(chunklist, RecipeMap[b], fedData[b])
                      /\ Covers(chunklist, RecipeMap_header[b], fedHeader[b])

\* A fingerprint leads to its chunk.
FPLeads ==
    \A c \in Content : FPindex[c] # NoChunk =>
        /\ FPindex[c] \in DOMAIN chunklist
        /\ chunklist[FPindex[c]].content = c

\* Every stored chunk is found by its fingerprint.
FPComplete ==
    \A id \in DOMAIN chunklist : FPindex[chunklist[id].content] = id

\* The header flag of a stored chunk follows from its content.
HeadersMarked ==
    \A id \in DOMAIN chunklist :
        chunklist[id].HeaderFlag <=> chunklist[id].content \in HeaderContent

RestoreInv ==
    /\ FPLeads
    /\ FPComplete
    /\ HeadersMarked
    /\ RecipesCover
    /\ ~undefined

\* Once a ProcessTrace has not run to its end, none of this is claimed: the
\* versions lag behind the backups from then on.
CompletedInv ==
    /\ Version <= backup - 1
    /\ Completed => RestoreInv

\* A recipe that fits a list of chunks fits every extension of the list.
LEMMA CoversStay ==
    ASSUME NEW list, NEW longer, NEW recipe, NEW fed, Covers(list, recipe, fed),
           \A id \in DOMAIN list : id \in DOMAIN longer /\ longer[id] = list[id]
    PROVE  Covers(longer, recipe, fed)
    BY DEF Covers

\* A recipe grows with the chunks fed.
LEMMA CoversAppend ==
    ASSUME NEW list, NEW recipe \in Seq(ChunkID), NEW fed \in Seq(Content),
           Covers(list, recipe, fed), NEW id \in ChunkID, NEW e \in Content,
           id \in DOMAIN list, list[id].content = e
    PROVE  Covers(list, Append(recipe, id), Append(fed, e))
<1> DEFINE r == Append(recipe, id)
           f == Append(fed, e)
<1>1. /\ Len(recipe) \in Nat /\ Len(recipe) = Len(fed)
      /\ Len(r) = Len(recipe) + 1 /\ Len(f) = Len(recipe) + 1
      /\ \A i \in 1 .. Len(recipe) : r[i] = recipe[i] /\ f[i] = fed[i]
      /\ r[Len(recipe) + 1] = id /\ f[Len(recipe) + 1] = e
    BY AppendFacts DEF Covers
<1> HIDE DEF r, f
<1>2. ASSUME NEW i \in 1 .. Len(r)
      PROVE  r[i] \in DOMAIN list /\ list[r[i]].content = f[i]
  <2>1. i \in 1 .. Len(recipe) \/ i = Len(recipe) + 1
      BY <1>1
  <2>2. CASE i \in 1 .. Len(recipe)
      BY <1>1, <2>2 DEF Covers
  <2>3. CASE i = Len(recipe) + 1
      BY <1>1, <2>3
  <2> QED BY <2>1, <2>2, <2>3
<1>3. Covers(list, r, f)
    BY <1>1, <1>2 DEF Covers
<1> QED BY <1>3 DEF r, f

\* One chunk is fed, and a chunk of its content enters the recipe of its kind.
LEMMA RecipeStep ==
    ASSUME TypeOK, NEW c \in Chunk, Pop(c), NEW id \in ChunkID,
           NEW headerFlag, headerFlag <=> c.HeaderFlag, RecipeInsert(id, headerFlag),
           NEW list, id \in DOMAIN list, list[id].content = c.content,
           \A b \in Backup : /\ Covers(list, RecipeMap[b], fedData[b])
                             /\ Covers(list, RecipeMap_header[b], fedHeader[b])
    PROVE  \A b \in Backup : /\ Covers(list, RecipeMap'[b], fedData'[b])
                             /\ Covers(list, RecipeMap_header'[b], fedHeader'[b])
<1> SUFFICES ASSUME NEW b \in Backup
             PROVE  /\ Covers(list, RecipeMap'[b], fedData'[b])
                    /\ Covers(list, RecipeMap_header'[b], fedHeader'[b])
    OBVIOUS
<1>1. c.content \in Content /\ backup \in Backup
    BY DEF Chunk, Content, Pop
<1>2. /\ RecipeMap \in [Backup -> Seq(ChunkID)]
      /\ RecipeMap_header \in [Backup -> Seq(ChunkID)]
      /\ fedData \in [Backup -> Seq(Content)]
      /\ fedHeader \in [Backup -> Seq(Content)]
    BY DEF TypeOK
<1>3. /\ Covers(list, RecipeMap[b], fedData[b])
      /\ Covers(list, RecipeMap_header[b], fedHeader[b])
    OBVIOUS
<1>4. CASE c.HeaderFlag
  <2>1. /\ RecipeMap' = RecipeMap /\ fedData' = fedData
        /\ RecipeMap_header' = [RecipeMap_header EXCEPT ![backup] = Append(@, id)]
        /\ fedHeader' = [fedHeader EXCEPT ![backup] = Append(@, c.content)]
      BY <1>4 DEF RecipeInsert, Pop
  <2>2. CASE b = backup
    <3>1. /\ RecipeMap_header'[b] = Append(RecipeMap_header[b], id)
          /\ fedHeader'[b] = Append(fedHeader[b], c.content)
        BY <1>2, <2>1, <2>2
    <3>2. Covers(list, Append(RecipeMap_header[b], id), Append(fedHeader[b], c.content))
        BY <1>1, <1>2, <1>3, CoversAppend
    <3> QED BY <1>3, <2>1, <3>1, <3>2
  <2>3. CASE b # backup
    <3>1. RecipeMap_header'[b] = RecipeMap_header[b] /\ fedHeader'[b] = fedHeader[b]
        BY <1>2, <2>1, <2>3
    <3> QED BY <1>3, <2>1, <3>1
  <2> QED BY <2>2, <2>3
<1>5. CASE ~c.HeaderFlag
  <2>1. /\ RecipeMap_header' = RecipeMap_header /\ fedHeader' = fedHeader
        /\ RecipeMap' = [RecipeMap EXCEPT ![backup] = Append(@, id)]
        /\ fedData' = [fedData EXCEPT ![backup] = Append(@, c.content)]
      BY <1>5 DEF RecipeInsert, Pop
  <2>2. CASE b = backup
    <3>1. /\ RecipeMap'[b] = Append(RecipeMap[b], id)
          /\ fedData'[b] = Append(fedData[b], c.content)
        BY <1>2, <2>1, <2>2
    <3>2. Covers(list, Append(RecipeMap[b], id), Append(fedData[b], c.content))
        BY <1>1, <1>2, <1>3, CoversAppend
    <3> QED BY <1>3, <2>1, <3>1, <3>2
  <2>3. CASE b # backup
    <3>1. RecipeMap'[b] = RecipeMap[b] /\ fedData'[b] = fedData[b]
        BY <1>2, <2>1, <2>3
    <3> QED BY <1>3, <2>1, <3>1
  <2> QED BY <2>2, <2>3
<1> QED BY <1>4, <1>5

\* A header flag tells the two kinds of content apart.
LEMMA HeaderFlagOfContent ==
    ASSUME NoOverlap, NEW c \in Chunk
    PROVE  c.HeaderFlag <=> c.content \in HeaderContent
    BY DEF NoOverlap, Chunk

\* A stored chunk is found by its fingerprint, and the recipe gets its number.
LEMMA UniqueRestore ==
    ASSUME StoreInv, RestoreInv, NoOverlap, NEW c \in Chunk, StoreUnique(c),
           NEW flag, NEW base, Extended(c, flag, base)
    PROVE  RestoreInv'
<1> DEFINE new == uniquechunkNum + 1
<1>1. /\ uniquechunkNum \in Nat /\ new \in ChunkID
      /\ c.content \in Content /\ TypeOK /\ Pop(c)
    BY NextIdFacts DEF StoreUnique, Chunk, Content, StoreInv
<1>2. /\ DOMAIN chunklist = 1 .. uniquechunkNum
      /\ DOMAIN chunklist' = 1 .. uniquechunkNum + 1
      /\ \A i \in DOMAIN chunklist : chunklist'[i] = chunklist[i]
      /\ chunklist'[new].content = c.content
      /\ chunklist'[new].HeaderFlag = c.HeaderFlag
    BY DEF Extended
<1>3. /\ \A i \in DOMAIN chunklist : i \in DOMAIN chunklist' /\ i # NoChunk
      /\ new \in DOMAIN chunklist'
      /\ \A i \in DOMAIN chunklist' : i \in DOMAIN chunklist \/ i = new
    BY <1>1, <1>2 DEF NoChunk
<1>4. /\ \A i \in DOMAIN chunklist : chunklist[i].content \in Content
      /\ chunklist \in Seq(StoredChunk)
  <2>1. chunklist \in Seq(StoredChunk)
      BY <1>1 DEF TypeOK
  <2>2. \A i \in DOMAIN chunklist : chunklist[i] \in StoredChunk
      BY <2>1, LenFacts
  <2> QED BY <2>1, <2>2 DEF StoredChunk
<1>5. /\ FPindex'[c.content] = new
      /\ \A x \in Content : x # c.content => FPindex'[x] = FPindex[x]
      /\ FPindex[c.content] = NoChunk
    BY <1>1 DEF StoreUnique, FP_Insert, TypeOK, Unique
<1> HIDE DEF new
<1>6. FPLeads'
  <2> SUFFICES ASSUME NEW x \in Content, FPindex'[x] # NoChunk
               PROVE  /\ FPindex'[x] \in DOMAIN chunklist'
                      /\ chunklist'[FPindex'[x]].content = x
      BY DEF FPLeads
  <2>1. CASE x = c.content
      BY <1>2, <1>3, <1>5, <2>1
  <2>2. CASE x # c.content
    <3>1. FPindex'[x] = FPindex[x]
        BY <1>5, <2>2
    <3>2. FPindex[x] \in DOMAIN chunklist /\ chunklist[FPindex[x]].content = x
        BY <3>1 DEF RestoreInv, FPLeads
    <3> QED BY <1>2, <1>3, <3>1, <3>2
  <2> QED BY <2>1, <2>2
<1>7. FPComplete'
  <2> SUFFICES ASSUME NEW id \in DOMAIN chunklist'
               PROVE  FPindex'[chunklist'[id].content] = id
      BY DEF FPComplete
  <2>1. CASE id = new
      BY <1>2, <1>5, <2>1
  <2>2. CASE id \in DOMAIN chunklist
    <3>1. FPindex[chunklist[id].content] = id
        BY <2>2 DEF RestoreInv, FPComplete
    <3>2. chunklist[id].content # c.content
        BY <1>3, <1>5, <2>2, <3>1
    <3> QED BY <1>2, <1>4, <1>5, <2>2, <3>1, <3>2
  <2> QED BY <1>3, <2>1, <2>2
<1>8. HeadersMarked'
  <2>1. ASSUME NEW id \in DOMAIN chunklist'
        PROVE  chunklist'[id].HeaderFlag <=> chunklist'[id].content \in HeaderContent
    <3>1. CASE id = new
        BY <1>2, <3>1, HeaderFlagOfContent
    <3>2. CASE id \in DOMAIN chunklist
        BY <1>2, <3>2 DEF RestoreInv, HeadersMarked
    <3> QED BY <1>3, <3>1, <3>2
  <2> QED BY <2>1 DEF HeadersMarked
<1>9. RecipesCover'
  <2> DEFINE longer == chunklist'
  <2>1. /\ new \in DOMAIN longer /\ longer[new].content = c.content
        /\ \A i \in DOMAIN chunklist : i \in DOMAIN longer /\ longer[i] = chunklist[i]
      BY <1>2, <1>3
  <2>2. RecipeInsert(new, c.HeaderFlag)
      BY DEF StoreUnique, new
  <2> HIDE DEF longer
  <2>3. \A b \in Backup : /\ Covers(longer, RecipeMap[b], fedData[b])
                          /\ Covers(longer, RecipeMap_header[b], fedHeader[b])
      BY <2>1, CoversStay DEF RestoreInv, RecipesCover
  <2>4. \A b \in Backup : /\ Covers(longer, RecipeMap'[b], fedData'[b])
                          /\ Covers(longer, RecipeMap_header'[b], fedHeader'[b])
      BY <1>1, <2>1, <2>2, <2>3, RecipeStep
  <2> QED BY <2>4 DEF longer, RecipesCover, Covers
<1>10. ~undefined'
    BY DEF StoreUnique, Finish, RestoreInv
<1> QED BY <1>6, <1>7, <1>8, <1>9, <1>10 DEF RestoreInv

\* A duplicate restores to the chunk stored first, in the recipe of its kind.
LEMMA DuplicateRestore ==
    ASSUME StoreInv, RestoreInv, NoOverlap, NEW c \in Chunk, Duplicate(c)
    PROVE  RestoreInv'
<1> DEFINE stored == FPindex[c.content]
<1>1. TypeOK /\ Pop(c) /\ c.content \in Content
    BY DEF StoreInv, Duplicate, Chunk, Content
<1>2. stored \in ChunkID /\ stored # NoChunk
    BY <1>1 DEF Duplicate, Unique, TypeOK
<1>3. stored \in DOMAIN chunklist /\ chunklist[stored].content = c.content
    BY <1>1, <1>2 DEF RestoreInv, FPLeads
<1>4. chunklist[stored].chunkID = stored
    BY <1>3 DEF StoreInv, AccountingAgrees
<1>5. chunklist[stored].HeaderFlag <=> c.HeaderFlag
    BY <1>3, HeaderFlagOfContent DEF RestoreInv, HeadersMarked
<1>6. RecipeInsert(stored, chunklist[stored].HeaderFlag)
    BY <1>4 DEF Duplicate
<1> HIDE DEF stored
<1>7. \A b \in Backup : /\ Covers(chunklist, RecipeMap'[b], fedData'[b])
                        /\ Covers(chunklist, RecipeMap_header'[b], fedHeader'[b])
    BY <1>1, <1>2, <1>3, <1>5, <1>6, RecipeStep DEF RestoreInv, RecipesCover
<1>8. UNCHANGED <<FPindex, chunklist, undefined>>
    BY DEF Duplicate, Finish, indexes
<1>9. RecipesCover'
    BY <1>7, <1>8 DEF RecipesCover, Covers
<1> QED BY <1>8, <1>9 DEF RestoreInv, FPLeads, FPComplete, HeadersMarked

\* No step fails, divides by zero or leaves the chunk list: a known name means
\* a stored base, and a known fingerprint a stored chunk.
LEMMA NothingFails ==
    ASSUME StoreInv, RestoreInv, ~AllowDeltaError, NEW c \in Chunk
    PROVE  ~DeltaError(c) /\ ~DivideByZero(c) /\ ~OutOfRange(c)
<1>1. ~DeltaError(c)
    BY DEF DeltaError
<1>2. ~DivideByZero(c)
  <2>1. SameName(c) => basechunkNum > 0
    <3>1. ASSUME SameName(c) PROVE IsBase(nameTable[c.name])
        BY <3>1 DEF SameName, Chunk, StoreInv, IndexesPointToBases
    <3> QED BY <3>1 DEF IsBase, StoreInv, AccountingAgrees
  <2>2. basechunkNum \in Nat
      BY DEF StoreInv, TypeOK
  <2> QED BY <2>1, <2>2 DEF DivideByZero
<1>3. ~OutOfRange(c)
  <2>1. c.content \in Content /\ chunklist \in Seq(StoredChunk)
      BY DEF Chunk, Content, StoreInv, TypeOK
  <2>2. Len(chunklist) \in Nat /\ DOMAIN chunklist = 1 .. Len(chunklist)
      BY <2>1, LenFacts
  <2>3. FPindex[c.content] = 0 \/ FPindex[c.content] \in 1 .. Len(chunklist)
      BY <2>1, <2>2 DEF RestoreInv, FPLeads, NoChunk
  <2> QED BY <2>2, <2>3 DEF OutOfRange
<1> QED BY <1>1, <1>2, <1>3

\* Nothing was fed and nothing stored.
LEMMA InitRestore == Init => RestoreInv
<1> SUFFICES ASSUME Init PROVE RestoreInv
    OBVIOUS
<1>1. DOMAIN << >> = {} /\ Len(<< >>) = 0
    BY SMT
<1>2. chunklist = << >> /\ DOMAIN chunklist = {}
    BY <1>1 DEF Init
<1>3. FPLeads /\ FPComplete /\ HeadersMarked
    BY <1>2 DEF Init, FPLeads, FPComplete, HeadersMarked
<1>4. Covers(chunklist, << >>, << >>)
    BY <1>1 DEF Covers
<1>5. RecipesCover
    BY <1>4 DEF Init, RecipesCover
<1> QED BY <1>3, <1>5 DEF RestoreInv, Init

\* A chunk that is processed to its end keeps every backup restorable.
LEMMA ChunkRestore ==
    ASSUME StoreInv, RestoreInv, NoOverlap, NEW c \in Chunk,
           \/ Duplicate(c)
           \/ FeaturePath(c) \/ LocalityAccepted(c) \/ LocalityRejected(c)
    PROVE  RestoreInv'
<1>1. CASE Duplicate(c)
    BY <1>1, DuplicateRestore
<1>2. CASE FeaturePath(c) \/ LocalityAccepted(c) \/ LocalityRejected(c)
  <2>1. StoreUnique(c) /\ \E f, b : Extended(c, f, b)
      BY <1>2, UniqueStep
  <2> QED BY <2>1, UniqueRestore
<1> QED BY <1>1, <1>2

\* So does the end of a backup, and a step that changes nothing.
LEMMA EndRestore ==
    ASSUME RestoreInv, EndOfBackup \/ UNCHANGED vars
    PROVE  RestoreInv'
<1>1. CASE EndOfBackup
    BY <1>1 DEF EndOfBackup, RestoreInv, FPLeads, FPComplete,
          HeadersMarked, RecipesCover, Covers, indexes, recipes
<1>2. CASE UNCHANGED vars
    BY <1>2 DEF vars, indexes, recipes, RestoreInv, FPLeads, FPComplete,
          HeadersMarked, RecipesCover, Covers
<1> QED BY <1>1, <1>2

\* How a step of a chunk moves on: the version and the backup stay unless the
\* delta fails; what follows an undefined step is not claimed.
LEMMA ChunkMoves ==
    ASSUME NEW c \in Chunk, ProcessChunk(c)
    PROVE  \/ DeltaError(c) /\ backup' = backup + 1 /\ Version' = Version
           \/ undefined' /\ backup' = backup /\ Version' = Version
           \/ /\ \/ Duplicate(c)
                 \/ FeaturePath(c) \/ LocalityAccepted(c) \/ LocalityRejected(c)
              /\ UNCHANGED <<backup, Version, undefined>>
<1>1. CASE Duplicate(c)
    BY <1>1 DEF Duplicate, Finish
<1>2. CASE FeaturePath(c) \/ LocalityAccepted(c) \/ LocalityRejected(c)
    BY <1>2 DEF FeaturePath, LocalityAccepted, LocalityRejected, StoreUnique, Finish
<1>3. CASE DeltaError(c)
    BY <1>3 DEF DeltaError
<1>4. CASE DivideByZero(c) \/ OutOfRange(c)
    BY <1>4 DEF DivideByZero, OutOfRange
<1> QED BY <1>1, <1>2, <1>3, <1>4 DEF ProcessChunk

\* As long as every ProcessTrace runs to its end, every step keeps every
\* backup restorable.
THEOREM RestoreInvariant ==
    ASSUME NoOverlap
    PROVE  Spec => [](StoreInv /\ CompletedInv)
<1>1. StoreInv /\ CompletedInv /\ [Next]_vars => CompletedInv'
  <2> SUFFICES ASSUME StoreInv, CompletedInv, [Next]_vars PROVE CompletedInv'
      OBVIOUS
  <2>0. backup \in Nat /\ Version \in Nat
      BY DEF StoreInv, TypeOK
  <2>1. CASE EndOfBackup
    <3>1. backup' = backup + 1 /\ Version' = Version + 1 /\ undefined' = undefined
        BY <2>1 DEF EndOfBackup
    <3>2. Completed => RestoreInv'
        BY <2>1, EndRestore DEF CompletedInv
    <3> QED BY <2>0, <3>1, <3>2 DEF CompletedInv, Completed
  <2>2. ASSUME NEW c \in Chunk, ProcessChunk(c) PROVE CompletedInv'
    <3>1. CASE backup' = backup + 1 /\ Version' = Version
        BY <2>0, <3>1 DEF CompletedInv, Completed
    <3>2. CASE undefined' /\ backup' = backup /\ Version' = Version
        BY <2>0, <3>2 DEF CompletedInv, Completed
    <3>3. CASE /\ \/ Duplicate(c)
                  \/ FeaturePath(c) \/ LocalityAccepted(c) \/ LocalityRejected(c)
               /\ UNCHANGED <<backup, Version, undefined>>
      <4>1. Completed => RestoreInv'
          BY <3>3, ChunkRestore DEF CompletedInv
      <4> QED BY <3>3, <4>1 DEF CompletedInv, Completed
    <3> QED BY <2>2, <3>1, <3>2, <3>3, ChunkMoves
  <2>3. CASE UNCHANGED vars
    <3>1. UNCHANGED <<backup, Version, undefined>>
        BY <2>3 DEF vars
    <3>2. Completed => RestoreInv'
        BY <2>3, EndRestore DEF CompletedInv
    <3> QED BY <3>1, <3>2 DEF CompletedInv, Completed
  <2> QED BY <2>1, <2>2, <2>3 DEF Next
<1>2. Init => CompletedInv
    BY InitRestore DEF Init, CompletedInv, Completed
<1> QED BY <1>1, <1>2, StoreInvariant, PTL DEF Spec

\* When xdelta3 does not fail, every backup runs to its end and nothing
\* undefined happens.
THEOREM NothingUndefined ==
    ASSUME NoOverlap, ~AllowDeltaError
    PROVE  Spec => [](NeverUndefined /\ Completed)
<1>1. StoreInv /\ CompletedInv /\ Completed /\ [Next]_vars => Completed'
  <2> SUFFICES ASSUME StoreInv, CompletedInv, Completed, [Next]_vars
               PROVE  Completed'
      OBVIOUS
  <2>0. RestoreInv /\ backup \in Nat /\ Version \in Nat
      BY DEF CompletedInv, StoreInv, TypeOK
  <2>1. CASE EndOfBackup
      BY <2>0, <2>1 DEF EndOfBackup, Completed
  <2>2. ASSUME NEW c \in Chunk, ProcessChunk(c) PROVE Completed'
    <3>1. ~DeltaError(c) /\ ~DivideByZero(c) /\ ~OutOfRange(c)
        BY <2>0, NothingFails
    <3>2. UNCHANGED <<backup, Version, undefined>>
      <4>1. CASE Duplicate(c)
          BY <4>1 DEF Duplicate, Finish
      <4>2. CASE FeaturePath(c) \/ LocalityAccepted(c) \/ LocalityRejected(c)
          BY <4>2 DEF FeaturePath, LocalityAccepted, LocalityRejected, StoreUnique, Finish
      <4> QED BY <2>2, <3>1, <4>1, <4>2 DEF ProcessChunk
    <3> QED BY <3>2 DEF Completed
  <2>3. CASE UNCHANGED vars
      BY <2>3 DEF vars, Completed
  <2> QED BY <2>1, <2>2, <2>3 DEF Next
<1>2. Init => Completed
    BY DEF Init, Completed
<1>3. Completed => NeverUndefined
    BY DEF Completed, NeverUndefined
<1> QED BY <1>1, <1>2, <1>3, RestoreInvariant, PTL DEF Spec

\* A stored chunk decodes to its content, or is spoilt: a delta has a base that
\* is no delta, and what is read of it is the text the delta was made against.
LEMMA DecodeFacts ==
    ASSUME StoreInv, NEW id \in DOMAIN chunklist
    PROVE  Decode(id) = chunklist[id].content \/ (~LZ4Compress /\ Spoilt(id))
<1>1. \A i \in DOMAIN chunklist : chunklist[i].content \in Content
  <2>1. \A i \in DOMAIN chunklist : chunklist[i] \in StoredChunk
      BY LenFacts DEF StoreInv, TypeOK
  <2> QED BY <2>1 DEF StoredChunk
<1>2. \A i \in DOMAIN chunklist : Readable(i) \/ ~LZ4Compress
    BY DEF StoreInv, FormsKept, Readable
<1>3. CASE ~IsDelta(id)
    BY <1>2, <1>3 DEF Decode, Text, Spoilt
<1>4. CASE IsDelta(id)
  <2> DEFINE b == chunklist[id].basechunkID
  <2>1. b \in DOMAIN chunklist /\ ~IsDelta(b) /\ chunklist[id].ref = Text(b)
      BY <1>4 DEF StoreInv, DeltasKept
  <2>2. AsBase(b) = chunklist[id].ref
      BY <2>1 DEF AsBase
  <2>3. CASE Readable(b)
    <3>1. chunklist[id].ref # Garbage
        BY <1>1, <2>1, <2>3, GarbageAssumption DEF Text
    <3> QED BY <1>4, <2>2, <3>1 DEF Decode
  <2>4. CASE ~Readable(b)
      BY <1>2, <1>4, <2>1, <2>4 DEF Spoilt
  <2> QED BY <2>3, <2>4
<1> QED BY <1>3, <1>4

\* A recipe that leads to the chunks fed restores them.
LEMMA RestoredFacts ==
    ASSUME StoreInv, NEW recipe, NEW fed \in Seq(Content),
           Covers(chunklist, recipe, fed)
    PROVE  Restores(recipe, fed)
<1>1. Len(recipe) = Len(fed) /\ DOMAIN fed = 1 .. Len(fed)
    BY LenFacts DEF Covers
<1>2. ASSUME NEW i \in DOMAIN fed
      PROVE  Decode(recipe[i]) = fed[i] \/ (~LZ4Compress /\ Spoilt(recipe[i]))
  <2>1. recipe[i] \in DOMAIN chunklist /\ chunklist[recipe[i]].content = fed[i]
      BY <1>1 DEF Covers
  <2> QED BY <2>1, DecodeFacts
<1> QED BY <1>1, <1>2 DEF Restores

\* With LZ4 that is all of it: the recipe restores to exactly what was fed.
LEMMA RestoredWhole ==
    ASSUME NEW recipe, NEW fed \in Seq(Content), LZ4Compress, Restores(recipe, fed)
    PROVE  Restored(recipe) = fed
<1>1. /\ Len(recipe) = Len(fed)
      /\ \A i \in 1 .. Len(fed) : Decode(recipe[i]) = fed[i]
    BY LenFacts DEF Restores
<1>2. fed = [i \in 1 .. Len(fed) |-> fed[i]]
    BY LenFacts
<1>3. [i \in 1 .. Len(recipe) |-> Decode(recipe[i])] = [i \in 1 .. Len(fed) |-> fed[i]]
    BY <1>1
<1> QED BY <1>2, <1>3 DEF Restored

\* Until a ProcessTrace returns early, every backup restores to what was fed,
\* under -L 0 but for the chunks that zlib cannot read back and the deltas
\* against such; no content is stored twice and fingerprints lead to their
\* chunks.
THEOREM RestoreCorrect ==
    ASSUME NoOverlap
    PROVE  Spec => [](RestoreExact /\ StoredOnce /\ FPIndexSound)
<1>1. StoreInv /\ RestoreInv => RestoreExact
  <2> SUFFICES ASSUME StoreInv, RestoreInv, NEW b \in Backup
               PROVE  /\ Restores(RecipeMap[b], fedData[b])
                      /\ Restores(RecipeMap_header[b], fedHeader[b])
      BY DEF RestoreExact
  <2>1. fedData[b] \in Seq(Content) /\ fedHeader[b] \in Seq(Content)
      BY DEF StoreInv, TypeOK
  <2> QED BY <2>1, RestoredFacts DEF RestoreInv, RecipesCover
<1>2. RestoreInv => StoredOnce /\ FPIndexSound
    BY DEF RestoreInv, FPLeads, FPComplete, StoredOnce, FPIndexSound
<1>3. ~Completed => RestoreExact /\ StoredOnce /\ FPIndexSound
    BY DEF RestoreExact, StoredOnce, FPIndexSound
<1>4. StoreInv /\ CompletedInv => RestoreExact /\ StoredOnce /\ FPIndexSound
    BY <1>1, <1>2, <1>3 DEF CompletedInv
<1> QED BY <1>4, RestoreInvariant, PTL

\* With LZ4, which is used when -L is not given, nothing is left out:
\* every backup restores to exactly what was fed.
THEOREM WholeRestore ==
    ASSUME NoOverlap, LZ4Compress
    PROVE  Spec => []EveryBackupRestores
<1>1. StoreInv /\ RestoreExact => EveryBackupRestores
  <2> SUFFICES ASSUME StoreInv, RestoreExact, Completed, NEW b \in Backup
               PROVE  /\ Restored(RecipeMap[b]) = fedData[b]
                      /\ Restored(RecipeMap_header[b]) = fedHeader[b]
      BY DEF EveryBackupRestores
  <2>1. fedData[b] \in Seq(Content) /\ fedHeader[b] \in Seq(Content)
      BY DEF StoreInv, TypeOK
  <2> QED BY <2>1, RestoredWhole DEF RestoreExact
<1> QED BY <1>1, StoreInvariant, RestoreCorrect, PTL

\* No content is stored twice: whatever was stored is found by its fingerprint,
\* across files, segments and backups, until xdelta3 fails.
COROLLARY NothingStoredTwice ==
    ASSUME NoOverlap
    PROVE  Spec => []StoredOnce
BY RestoreCorrect, PTL

\* Until then a fingerprint in the index leads to the chunk that has it, and
\* every stored chunk is found by its own: the next chunk of that content is a
\* duplicate.
COROLLARY FingerprintsLead ==
    ASSUME NoOverlap
    PROVE  Spec => []FPIndexSound
BY RestoreCorrect, PTL

-----------------------------------------------------------------------------
(* The tables *)

PlaceInv ==
    /\ DOMAIN SFtable = 1 .. 3
    /\ \A i \in 1 .. 3 : \A s \in DOMAIN SFtable[i] : IsBase(SFtable[i][s])

LayerInv ==
    /\ DOMAIN SFlevels = Levels
    /\ \A l \in Levels : \A s \in DOMAIN SFlevels[l] : IsBase(SFlevels[l][s].id)

\* LocalDedup uses no table at all.
NoIndex ==
    /\ SFindex = [s \in SF |-> NoChunk]
    /\ nameTable = [n \in Name |-> NoChunk]
    /\ SFtable = [i \in 1 .. 3 |-> << >>]
    /\ SFlevels = [l \in Levels |-> << >>]

IndexInv ==
    /\ method # "LOCALITY" => StoreInv /\ PlaceInv /\ LayerInv
    /\ method = "LOCALITY" => NoIndex

\* What a step does to the stored bases.
BasesStay == \A id : IsBase(id) => BaseNext(id)

\* A table that got the entry v for some keys keeps its other entries.
LEMMA PutCases ==
    ASSUME NEW table, NEW keys, NEW v, NEW next, next = Put(table, keys, v),
           NEW s \in DOMAIN next
    PROVE  \/ s \in keys /\ next[s] = v
           \/ s \in DOMAIN table \ keys /\ next[s] = table[s]
BY DEF Put

\* A table that is left alone keeps pointing to bases.
LEMMA PlaceUnchanged == PlaceInv /\ BasesStay /\ SFtable' = SFtable => PlaceInv'
BY DEF PlaceInv, BasesStay, BaseNext, IsBase, IsDelta

LEMMA LayerUnchanged == LayerInv /\ BasesStay /\ SFlevels' = SFlevels => LayerInv'
BY DEF LayerInv, BasesStay, BaseNext, IsBase, IsDelta

\* A set of places has a first one.
LEMMA FirstPlace ==
    ASSUME NEW hits \in SUBSET Nat, hits # {}
    PROVE  (CHOOSE i \in hits : \A j \in hits : i <= j) \in hits
BY LeastNatural

\* The first indexed super feature of the tables leads to a stored base.
LEMMA FindInPlaceIsBase ==
    ASSUME PlaceInv, method \in {"NTRANSFORM", "FINESSE"}, NEW c \in Chunk,
           FindInPlace(c) # NoChunk
    PROVE  IsBase(FindInPlace(c))
<1> DEFINE sfs  == PositionFeatures[method][c.content]
           hits == {i \in DOMAIN sfs : sfs[i] \in DOMAIN SFtable[i]}
           i    == CHOOSE k \in hits : \A j \in hits : k <= j
<1>1. DOMAIN sfs = 1 .. 3
  BY PlacesAssumption DEF Chunk, Content
<1>2. hits # {} /\ FindInPlace(c) = SFtable[i][sfs[i]]
  BY DEF FindInPlace
<1>3. hits \in SUBSET Nat
  BY <1>1
<1>4. i \in hits
  <2> HIDE DEF hits
  <2> QED BY <1>2, <1>3, FirstPlace
<1> QED BY <1>1, <1>2, <1>4 DEF PlaceInv

\* So does the first super feature of the lowest level of Palantir's, erased
\* or not.
LEMMA FindLayeredIsBase ==
    ASSUME LayerInv, NEW c \in Chunk, FindLayered(c) # NoChunk
    PROVE  IsBase(FindLayered(c))
<1> DEFINE sfs     == PalantirFeatures[c.content]
           hits(l) == {i \in DOMAIN sfs : sfs[i] \in DOMAIN SFlevels[l]}
           found   == {l \in Levels : hits(l) # {}}
           l       == CHOOSE k \in found : \A j \in found : k <= j
           i       == CHOOSE k \in hits(l) : \A j \in hits(l) : k <= j
<1>1. DOMAIN sfs = 1 .. 13
  BY PlacesAssumption DEF Chunk, Content
<1>2. found # {} /\ FindLayered(c) = SFlevels[l][sfs[i]].id
  BY DEF FindLayered
<1>3. l \in found
  <2>1. found \in SUBSET Nat
    BY DEF Levels
  <2> HIDE DEF found
  <2> QED BY <1>2, <2>1, FirstPlace
<1>4. hits(l) # {} /\ l \in Levels
  BY <1>3
<1> HIDE DEF l
<1>5. i \in hits(l)
  <2> DEFINE H == hits(l)
  <2>1. H \in SUBSET Nat /\ H # {}
    BY <1>1, <1>4
  <2>2. i = CHOOSE k \in H : \A j \in H : k <= j
    OBVIOUS
  <2> HIDE DEF H, i
  <2>3. i \in H
    BY <2>1, <2>2, FirstPlace
  <2> QED BY <2>3 DEF H
<1> QED BY <1>2, <1>4, <1>5 DEF LayerInv

\* The first super feature of Odess is BiSearch's.
LEMMA FindOdessIsBase ==
    ASSUME StoreInv, NEW c \in Chunk, FindOdess(c) # NoChunk
    PROVE  IsBase(FindOdess(c))
BY FindSFIsBase DEF FindOdess

-----------------------------------------------------------------------------
(* The store, whatever the method *)

\* A base that is not indexed: the counters and the list agree.
LEMMA StorePlainStep ==
    ASSUME StoreInv, NEW c \in Chunk, StoreUnique(c), StorePlain(c)
    PROVE  StoreInv' /\ \E flag : Extended(c, flag, NoChunk)
<1>1. PICK flag \in {"NO_DELTA", "NO_LZ4"}, form \in Form :
          FormAllowed(form) /\ ChunkInsert(c, flag, form, NoChunk)
  BY BaseInsertedFacts DEF StorePlain, BaseInserted
<1>2. uniquechunkNum \in Nat /\ uniquechunkNum + 1 \in ChunkID
  BY NextIdFacts DEF StoreUnique
<1>3. Extended(c, flag, NoChunk)
  BY <1>1, <1>2, ChunkInsertFacts DEF DeltaFlag
<1>4. uniquechunkNum' = uniquechunkNum + 1
  BY DEF StoreUnique
<1>5. BaseNext(uniquechunkNum + 1)
  BY <1>1, <1>2, <1>3 DEF Extended, BaseNext
<1>6. \A id : IsBase(id) => BaseNext(id)
  BY <1>3, BaseStays
<1>7. /\ SFindex' = SFindex /\ nameTable' = nameTable
      /\ basechunkNum' = basechunkNum + 1 /\ deltachunkNum' = deltachunkNum
  BY DEF StorePlain
<1>8. IndexesPointToBases'
  BY <1>6, <1>7 DEF StoreInv, IndexesPointToBases, IsBase, IsDelta, BaseNext
<1>9. /\ basechunkNum \in Nat /\ deltachunkNum \in Nat
      /\ uniquechunkNum = basechunkNum + deltachunkNum
  BY DEF StoreInv, TypeOK, AccountingAgrees
<1>10. /\ basechunkNum' \in Nat /\ deltachunkNum' \in Nat
       /\ uniquechunkNum' = basechunkNum' + deltachunkNum'
       /\ basechunkNum' > 0
  BY <1>2, <1>4, <1>7, <1>9
<1>11. AccountingAgrees'
  <2>1. \E id \in DOMAIN chunklist' : ~IsDelta(id)'
    BY <1>5 DEF BaseNext, IsDelta
  <2>2. /\ uniquechunkNum' = Len(chunklist)'
        /\ \A id \in DOMAIN chunklist' : chunklist'[id].chunkID = id
    BY <1>3, <1>4, NumberedStep
  <2> QED BY <1>10, <2>1, <2>2 DEF AccountingAgrees, IsDelta
<1>12. DeltasKept' /\ FormsKept'
  BY <1>1, <1>3, DeltasKeptStep, FormsKeptStep
<1>13. TypeOK'
  BY <1>3, <1>7, <1>10, StoreUniqueFacts DEF StoreInv, TypeOK, FedOK, Extended
<1> QED BY <1>3, <1>8, <1>11, <1>12, <1>13, StoreUniqueFacts DEF StoreInv

\* A step that stores nothing but a fingerprint: xdelta3 failed, or the method
\* does something undefined.
LeftBehind(c) ==
    /\ Pop(c)
    /\ FP_Insert(c)
    /\ UNCHANGED <<SFindex, nameTable, chunklist, RecipeMap, RecipeMap_header,
                   Version, counters>>
    /\ \/ backup' = backup + 1 /\ undefined' = undefined
       \/ backup' = backup /\ undefined' = TRUE

LEMMA LeftBehindStep ==
    ASSUME StoreInv, NEW c \in Chunk, LeftBehind(c)
    PROVE  StoreInv'
<1>1. TypeOK /\ Pop(c) /\ FP_Insert(c)
  BY DEF StoreInv, LeftBehind
<1>2. FedOK' /\ FPindex' \in [Content -> ChunkID \cup {NoChunk}]
  BY <1>1, PopFacts, FPInsertType
<1>3. /\ UNCHANGED <<SFindex, nameTable, chunklist, RecipeMap, RecipeMap_header>>
      /\ UNCHANGED <<Version, counters>>
      /\ backup' \in Nat /\ undefined' \in BOOLEAN
  <2>1. backup \in Nat /\ backup + 1 \in Nat /\ undefined \in BOOLEAN
    BY <1>1 DEF TypeOK
  <2>2. CASE backup' = backup + 1 /\ undefined' = undefined
    BY <2>1, <2>2 DEF LeftBehind
  <2>3. CASE backup' = backup /\ undefined' = TRUE
    BY <2>1, <2>3 DEF LeftBehind
  <2> QED BY <2>2, <2>3 DEF LeftBehind
<1>4. TypeOK'
  BY <1>1, <1>2, <1>3 DEF TypeOK, FedOK, counters
<1> QED BY <1>3, <1>4 DEF StoreInv, Bounded, AccountingAgrees, IndexesPointToBases,
           DeltasKept, FormsKept, IsBase, IsDelta, Text, Readable, counters

\* Both ways to leave a fingerprint behind.
LEMMA ReturnLeaves ==
    ASSUME NEW c, NEW base, ReturnsOnError(c, base) \/ RunsInto(c)
    PROVE  LeftBehind(c)
BY DEF ReturnsOnError, RunsInto, LeftBehind, counters

\* What a chunk does to the store: it is a duplicate, it is stored, or it only
\* leaves a fingerprint behind (BiSearch may also run into a duplicate whose
\* chunk is missing).
Stored(c) == StoreUnique(c) /\ \E flag, base : Extended(c, flag, base)
Lost(c) ==
    /\ chunklist' = chunklist
    /\ Version' = Version
    /\ backup' = backup + 1 \/ (backup' = backup /\ undefined' = TRUE)
ChunkStep(c) == Duplicate(c) \/ Stored(c) \/ Lost(c)

\* None of the three touches a stored base.
LEMMA StepKeepsBases ==
    ASSUME StoreInv, NEW c \in Chunk, ChunkStep(c)
    PROVE  BasesStay
<1>1. CASE Stored(c)
  BY <1>1, BaseStays DEF Stored, BasesStay
<1>2. CASE Duplicate(c) \/ Lost(c)
  BY <1>2 DEF Duplicate, Lost, BasesStay, BaseNext, IsBase, IsDelta
<1> QED BY <1>1, <1>2 DEF ChunkStep

\* A chunk stored by BiSearch.
LEMMA BiSearchStep ==
    ASSUME StoreInv, NEW c \in Chunk, ProcessChunk(c)
    PROVE  StoreInv' /\ ChunkStep(c)
<1>1. StoreInv'
  BY UniqueStep, DuplicateStep, NothingStoredStep DEF ProcessChunk
<1>2. CASE Duplicate(c)
  BY <1>1, <1>2 DEF ChunkStep
<1>3. CASE FeaturePath(c) \/ LocalityAccepted(c) \/ LocalityRejected(c)
  BY <1>3, UniqueStep DEF ChunkStep, Stored
<1>4. CASE DeltaError(c) \/ DivideByZero(c) \/ OutOfRange(c)
  BY <1>1, <1>4 DEF DeltaError, DivideByZero, OutOfRange, Lost, ChunkStep
<1> QED BY <1>2, <1>3, <1>4 DEF ProcessChunk

\* A chunk stored by one of the others, as a base without an index of
\* BiSearch's, as a base of Odess, or as a delta.
LEMMA PlainStep ==
    ASSUME StoreInv, NEW c \in Chunk, StoreUnique(c), StorePlain(c)
    PROVE  StoreInv' /\ Stored(c) /\ BaseNext(uniquechunkNum + 1)
<1>1. PICK flag : Extended(c, flag, NoChunk)
  BY StorePlainStep
<1>2. BaseInserted(c)
  BY BaseInsertedFacts DEF StorePlain
<1>3. uniquechunkNum \in Nat /\ uniquechunkNum + 1 \in ChunkID
  BY NextIdFacts DEF StoreUnique
<1>4. BaseNext(uniquechunkNum + 1)
  BY <1>2, <1>3, ChunkInsertFacts DEF BaseInserted, DeltaFlag, Extended, BaseNext
<1> QED BY <1>1, <1>4, StorePlainStep DEF Stored

LEMMA DeltaStep ==
    ASSUME StoreInv, NEW c \in Chunk, StoreUnique(c), NEW base, IsBase(base),
           StoreDelta(c, "FINESSE_DELTA", base)
    PROVE  StoreInv' /\ Stored(c)
BY StoreDeltaStep DEF Stored

LEMMA LeftStep ==
    ASSUME StoreInv, NEW c \in Chunk, NEW base, ReturnsOnError(c, base) \/ RunsInto(c)
    PROVE  StoreInv' /\ Lost(c)
<1>1. LeftBehind(c)
  BY ReturnLeaves
<1> QED BY <1>1, LeftBehindStep DEF LeftBehind, Lost

-----------------------------------------------------------------------------
(* The tables follow the store *)

\* The methods that keep deltas apart from bases.
MethodChunk(c) ==
    \/ BiSearchChunk(c) \/ Dedup(c) \/ NTransForm(c) \/ Finesse(c)
    \/ Odess(c) \/ Palantir(c)

\* A duplicate, as a step of the store.
LEMMA DuplicateIsStep ==
    ASSUME StoreInv, NEW c \in Chunk, Duplicate(c)
    PROVE  StoreInv' /\ ChunkStep(c)
BY DuplicateStep DEF ChunkStep

\* The super features of a chunk stored as a base lead to it.
LEMMA InsertInPlaceStep ==
    ASSUME PlaceInv, BasesStay, NEW c \in Chunk, InsertInPlace(c),
           BaseNext(uniquechunkNum + 1)
    PROVE  PlaceInv'
<1>1. PICK new : new = uniquechunkNum + 1 /\ BaseNext(new)
  OBVIOUS
<1> DEFINE key(i) == PositionFeatures[method][c.content][i]
<1>2. DOMAIN SFtable' = 1 .. 3
  BY DEF InsertInPlace, PlaceInv
<1>3. ASSUME NEW i \in 1 .. 3, NEW s \in DOMAIN SFtable'[i]
      PROVE  BaseNext(SFtable'[i][s])
  <2>1. SFtable'[i] = Put(SFtable[i], {key(i)}, new)
    BY <1>1 DEF InsertInPlace, PlaceInv
  <2> HIDE DEF key
  <2>2. \/ SFtable'[i][s] = new
        \/ s \in DOMAIN SFtable[i] /\ SFtable'[i][s] = SFtable[i][s]
    BY <1>3, <2>1, PutCases
  <2> QED BY <1>1, <2>2 DEF PlaceInv, BasesStay
<1> QED BY <1>2, <1>3 DEF PlaceInv, IsBase, IsDelta, BaseNext

\* So do those of a base in Palantir's levels, new or found again.
LEMMA LayeredInsertStep ==
    ASSUME LayerInv, BasesStay, NEW content, NEW id, BaseNext(id),
           LayeredInsert(content, id)
    PROVE  LayerInv'
<1> DEFINE v == [id |-> id, version |-> Version, live |-> TRUE]
<1>1. v.id = id
  OBVIOUS
<1>2. DOMAIN SFlevels' = Levels
  BY DEF LayeredInsert
<1>3. ASSUME NEW l \in Levels, NEW s \in DOMAIN SFlevels'[l]
      PROVE  BaseNext(SFlevels'[l][s].id)
  <2>1. SFlevels'[l] = Put(SFlevels[l], AtLevel(content, l), v)
    BY <1>1 DEF LayeredInsert
  <2> HIDE DEF v
  <2>2. \/ SFlevels'[l][s] = v
        \/ s \in DOMAIN SFlevels[l] /\ SFlevels'[l][s] = SFlevels[l][s]
    BY <1>3, <2>1, PutCases
  <2> QED BY <1>1, <2>2 DEF LayerInv, BasesStay
<1> QED BY <1>2, <1>3 DEF LayerInv, IsBase, IsDelta, BaseNext

\* An erased entry keeps the chunk it led to.
LEMMA CleanIndexStep ==
    ASSUME LayerInv, BasesStay, CleanIndex
    PROVE  LayerInv'
<1>1. DOMAIN SFlevels' = Levels
  BY DEF CleanIndex
<1>2. ASSUME NEW l \in Levels, NEW s \in DOMAIN SFlevels'[l]
      PROVE  BaseNext(SFlevels'[l][s].id)
  <2>1. s \in DOMAIN SFlevels[l]
    BY <1>2 DEF CleanIndex
  <2>2. SFlevels'[l][s].id = SFlevels[l][s].id
    BY <2>1 DEF CleanIndex
  <2> QED BY <2>1, <2>2 DEF LayerInv, BasesStay
<1> QED BY <1>1, <1>2 DEF LayerInv, IsBase, IsDelta, BaseNext

-----------------------------------------------------------------------------
(* One lemma for the chunks of each method *)

LEMMA DedupStep ==
    ASSUME StoreInv, NEW c \in Chunk, Dedup(c)
    PROVE  StoreInv' /\ ChunkStep(c)
BY DuplicateIsStep, PlainStep DEF Dedup, ChunkStep

\* NTransForm and Finesse
LEMMA PlaceStep ==
    ASSUME StoreInv, PlaceInv, NEW c \in Chunk, NTransForm(c) \/ Finesse(c)
    PROVE  StoreInv' /\ PlaceInv' /\ ChunkStep(c)
<1>1. method \in {"NTRANSFORM", "FINESSE"}
  BY DEF NTransForm, Finesse
<1>2. CASE Duplicate(c) /\ UNCHANGED SFtable
  BY <1>2, DuplicateIsStep, StepKeepsBases, PlaceUnchanged
<1>3. CASE StoreByPlace(c) /\ FindInPlace(c) = NoChunk
  <2>1. StoreUnique(c) /\ StorePlain(c) /\ InsertInPlace(c)
    BY <1>3 DEF StoreByPlace
  <2>2. StoreInv' /\ Stored(c) /\ BaseNext(uniquechunkNum + 1)
    BY <2>1, PlainStep
  <2>3. ChunkStep(c) /\ BasesStay
    BY <2>2, StepKeepsBases DEF ChunkStep
  <2> QED BY <2>1, <2>2, <2>3, InsertInPlaceStep
<1>4. CASE StoreByPlace(c) /\ FindInPlace(c) # NoChunk
  <2>1. /\ StoreUnique(c) /\ StoreDelta(c, "FINESSE_DELTA", FindInPlace(c))
        /\ UNCHANGED SFtable
    BY <1>4 DEF StoreByPlace
  <2>2. IsBase(FindInPlace(c))
    BY <1>1, <1>4, FindInPlaceIsBase
  <2>3. StoreInv' /\ Stored(c)
    BY <2>1, <2>2, DeltaStep
  <2> QED BY <2>1, <2>3, StepKeepsBases, PlaceUnchanged DEF ChunkStep
<1>5. CASE /\ ReturnsOnError(c, FindInPlace(c)) \/ DeltaOverflows(c)
           /\ UNCHANGED SFtable
  <2>1. StoreInv' /\ Lost(c)
    BY <1>5, LeftStep DEF DeltaOverflows
  <2> QED BY <1>5, <2>1, StepKeepsBases, PlaceUnchanged DEF ChunkStep
<1> QED BY <1>2, <1>3, <1>4, <1>5 DEF NTransForm, Finesse

LEMMA OdessStep ==
    ASSUME StoreInv, NEW c \in Chunk, Odess(c)
    PROVE  StoreInv' /\ ChunkStep(c)
<1>1. CASE Duplicate(c)
  BY <1>1, DuplicateIsStep
<1>2. CASE OdessBase(c)
  BY <1>2, PlainStep, StoreBaseStep DEF OdessBase, ChunkStep, Stored
<1>3. CASE OdessDelta(c)
  BY <1>3, FindOdessIsBase, DeltaStep DEF OdessDelta, ChunkStep
<1>4. CASE ReturnsOnError(c, FindOdess(c))
  BY <1>4, LeftStep DEF ChunkStep
<1> QED BY <1>1, <1>2, <1>3, <1>4 DEF Odess

\* The fingerprint of a duplicate leads to a chunk that bears its number.
LEMMA DuplicateFound ==
    ASSUME StoreInv, NEW c \in Chunk, Duplicate(c)
    PROVE  /\ FPindex[c.content] \in ChunkID
           /\ FPindex[c.content] \in DOMAIN chunklist
           /\ chunklist[FPindex[c.content]].chunkID = FPindex[c.content]
<1> DEFINE stored == FPindex[c.content]
<1>1. TypeOK /\ c.content \in Content
  BY DEF StoreInv, Chunk, Content
<1>2. stored \in ChunkID /\ stored <= Len(chunklist)
  BY <1>1 DEF Duplicate, Unique, TypeOK
<1>3. DOMAIN chunklist = 1 .. Len(chunklist) /\ Len(chunklist) \in Nat
  BY <1>1, LenFacts DEF TypeOK
<1>4. stored \in DOMAIN chunklist
  BY <1>2, <1>3, OptionsAssumption DEF ChunkID
<1> QED BY <1>2, <1>4 DEF StoreInv, AccountingAgrees

LEMMA PalantirStep ==
    ASSUME StoreInv, LayerInv, NEW c \in Chunk, Palantir(c)
    PROVE  StoreInv' /\ LayerInv' /\ ChunkStep(c)
<1>1. CASE PalantirDuplicate(c)
  <2>1. StoreInv' /\ ChunkStep(c) /\ BasesStay /\ Duplicate(c)
    BY <1>1, DuplicateIsStep, StepKeepsBases DEF PalantirDuplicate
  <2>2. CASE IsDelta(FPindex[c.content])
    <3>1. SFlevels' = SFlevels
      BY <1>1, <2>2 DEF PalantirDuplicate, layered
    <3> QED BY <2>1, <3>1, LayerUnchanged
  <2>3. CASE ~IsDelta(FPindex[c.content])
    <3>1. IsBase(FPindex[c.content]) /\ LayeredInsert(c.content, FPindex[c.content])
      BY <1>1, <2>1, <2>3, DuplicateFound DEF PalantirDuplicate, IsBase
    <3>2. PICK stored : stored = FPindex[c.content]
      OBVIOUS
    <3>3. BaseNext(stored) /\ LayeredInsert(c.content, stored)
      BY <2>1, <3>1, <3>2 DEF BasesStay
    <3> QED BY <2>1, <3>3, LayeredInsertStep
  <2> QED BY <2>2, <2>3
<1>2. CASE PalantirBase(c)
  <2>1. StoreInv' /\ Stored(c) /\ BaseNext(uniquechunkNum + 1)
    BY <1>2, PlainStep DEF PalantirBase
  <2>2. ChunkStep(c) /\ BasesStay
    BY <2>1, StepKeepsBases DEF ChunkStep
  <2>3. PICK new : new = uniquechunkNum + 1
    OBVIOUS
  <2>4. BaseNext(new) /\ LayeredInsert(c.content, new)
    BY <1>2, <2>1, <2>3 DEF PalantirBase
  <2> QED BY <2>1, <2>2, <2>4, LayeredInsertStep
<1>3. CASE PalantirDelta(c)
  <2>1. StoreInv' /\ Stored(c)
    BY <1>3, FindLayeredIsBase, DeltaStep DEF PalantirDelta
  <2>2. SFlevels' = SFlevels
    BY <1>3 DEF PalantirDelta, layered
  <2> QED BY <2>1, <2>2, StepKeepsBases, LayerUnchanged DEF ChunkStep
<1>4. CASE ReturnsOnError(c, FindLayered(c)) /\ UNCHANGED layered
  <2>1. StoreInv' /\ Lost(c)
    BY <1>4, LeftStep
  <2> QED BY <1>4, <2>1, StepKeepsBases, LayerUnchanged DEF ChunkStep, layered
<1> QED BY <1>1, <1>2, <1>3, <1>4 DEF Palantir

\* Together: the store, the tables of the method that runs, which its step
\* moves along, and those of the others, which it leaves alone.
LEMMA MethodChunkStep ==
    ASSUME StoreInv, PlaceInv, LayerInv, NEW c \in Chunk, MethodChunk(c)
    PROVE  StoreInv' /\ PlaceInv' /\ LayerInv' /\ ChunkStep(c)
<1>1. CASE BiSearchChunk(c) \/ Dedup(c) \/ Odess(c)
  <2>1. StoreInv' /\ ChunkStep(c)
    BY <1>1, BiSearchStep, DedupStep, OdessStep DEF BiSearchChunk
  <2>2. SFtable' = SFtable /\ SFlevels' = SFlevels
    BY <1>1 DEF BiSearchChunk, Dedup, Odess, position, layered
  <2> QED BY <2>1, <2>2, StepKeepsBases, PlaceUnchanged, LayerUnchanged
<1>2. CASE NTransForm(c) \/ Finesse(c)
  <2>1. StoreInv' /\ PlaceInv' /\ ChunkStep(c)
    BY <1>2, PlaceStep
  <2>2. SFlevels' = SFlevels
    BY <1>2 DEF NTransForm, Finesse, layered
  <2> QED BY <2>1, <2>2, StepKeepsBases, LayerUnchanged
<1>3. CASE Palantir(c)
  <2>1. StoreInv' /\ LayerInv' /\ ChunkStep(c)
    BY <1>3, PalantirStep
  <2>2. SFtable' = SFtable
    BY <1>3 DEF Palantir, position
  <2> QED BY <2>1, <2>2, StepKeepsBases, PlaceUnchanged
<1> QED BY <1>1, <1>2, <1>3 DEF MethodChunk

-----------------------------------------------------------------------------
(* Every index of every method *)

\* The end of a backup touches the store as little as BiSearch's, and Palantir
\* cleans its levels.
LEMMA MethodEndStep ==
    ASSUME StoreInv, PlaceInv, LayerInv, MethodEndOfBackup
    PROVE  StoreInv' /\ PlaceInv' /\ LayerInv'
<1>1. EndOfBackup /\ SFtable' = SFtable
  BY DEF MethodEndOfBackup, position
<1>2. StoreInv'
  BY <1>1, EndOfBackupStep
<1>3. BasesStay
  BY <1>1 DEF EndOfBackup, BasesStay, BaseNext, IsBase, IsDelta
<1>4. CleanIndex \/ SFlevels' = SFlevels
  BY DEF MethodEndOfBackup, layered
<1> QED BY <1>1, <1>2, <1>3, <1>4, PlaceUnchanged, LayerUnchanged, CleanIndexStep

\* LocalDedup stores a chunk without any index.
LEMMA LocalStep ==
    ASSUME NoIndex, NEW c, LocalDedup(c)
    PROVE  NoIndex'
<1>1. SFtable' = SFtable /\ SFlevels' = SFlevels
  BY DEF LocalDedup, position, layered
<1>2. SFindex' = SFindex /\ nameTable' = nameTable
  BY DEF LocalDedup, LocalDuplicate, LocalUnique, LocalUndefined, Duplicate,
         indexes, StorePlain, LocalDelta, RunsInto
<1> QED BY <1>1, <1>2 DEF NoIndex

\* The indexes of all methods stay in step with the chunk list.
THEOREM IndexInvariant == MethodsSpec => []IndexInv
<1>1. MethodsInit => IndexInv
  <2> SUFFICES ASSUME MethodsInit PROVE IndexInv
    OBVIOUS
  <2>1. StoreInv
    BY InitStore DEF MethodsInit
  <2>2. DOMAIN << >> = {}
    BY SMT
  <2>3. PlaceInv /\ LayerInv
    BY <2>2 DEF MethodsInit, PlaceInv, LayerInv
  <2>4. NoIndex
    BY DEF MethodsInit, Init, NoIndex
  <2> QED BY <2>1, <2>3, <2>4 DEF IndexInv
<1>2. IndexInv /\ [MethodsNext]_allVars => IndexInv'
  <2> SUFFICES ASSUME IndexInv, [MethodsNext]_allVars PROVE IndexInv'
    OBVIOUS
  <2>1. CASE MethodsNext /\ method # "LOCALITY"
    <3>1. StoreInv /\ PlaceInv /\ LayerInv /\ method' = method
      BY <2>1 DEF IndexInv, MethodsNext
    <3>2. CASE MethodEndOfBackup
      BY <2>1, <3>1, <3>2, MethodEndStep DEF IndexInv
    <3>3. ASSUME NEW c \in Chunk, MethodChunk(c) PROVE IndexInv'
      BY <2>1, <3>1, <3>3, MethodChunkStep DEF IndexInv
    <3> QED BY <2>1, <3>2, <3>3 DEF MethodsNext, MethodChunk, LocalDedup
  <2>2. CASE MethodsNext /\ method = "LOCALITY"
    <3>1. NoIndex /\ method' = method
      BY <2>2 DEF IndexInv, MethodsNext
    <3>2. CASE MethodEndOfBackup
      <4>1. /\ SFtable' = SFtable /\ SFlevels' = SFlevels
            /\ SFindex' = SFindex /\ nameTable' = nameTable
        BY <2>2, <3>2 DEF MethodEndOfBackup, position, layered, EndOfBackup, indexes
      <4> QED BY <2>2, <3>1, <4>1 DEF IndexInv, NoIndex
    <3>3. ASSUME NEW c \in Chunk, LocalDedup(c) PROVE IndexInv'
      BY <2>2, <3>1, <3>3, LocalStep DEF IndexInv
    <3> QED BY <2>2, <3>2, <3>3
          DEF MethodsNext, BiSearchChunk, Dedup, NTransForm, Finesse, Odess, Palantir
  <2>3. CASE UNCHANGED allVars
    <3>1. UNCHANGED vars /\ UNCHANGED <<method, SFtable, SFlevels>>
      BY <2>3 DEF allVars, position, layered
    <3>2. StoreInv => StoreInv'
      BY <3>1 DEF vars, indexes, recipes, counters, StoreInv, TypeOK, Bounded,
            AccountingAgrees, IndexesPointToBases, DeltasKept, FormsKept, IsBase, IsDelta,
            Text, Readable
    <3>3. UNCHANGED <<chunklist, SFindex, nameTable>>
      BY <3>1 DEF vars, indexes
    <3> QED BY <3>1, <3>2, <3>3 DEF IndexInv, PlaceInv, LayerInv, NoIndex, IsBase, IsDelta
  <2> QED BY <2>1, <2>2, <2>3
<1> QED BY <1>1, <1>2, PTL DEF MethodsSpec

\* Whatever a method looks up as a base, by name, super feature, place or
\* level, erased entries included, is stored whole.
THEOREM MethodsPointToBases == MethodsSpec => []MethodIndexesPointToBases
<1>1. IndexInv => MethodIndexesPointToBases
  <2> SUFFICES ASSUME IndexInv PROVE MethodIndexesPointToBases
    OBVIOUS
  <2>1. CASE method # "LOCALITY"
    BY <2>1 DEF IndexInv, StoreInv, PlaceInv, LayerInv, MethodIndexesPointToBases
  <2>2. CASE method = "LOCALITY"
    <3>1. DOMAIN << >> = {}
      BY SMT
    <3> QED BY <2>2, <3>1 DEF IndexInv, NoIndex, MethodIndexesPointToBases,
               IndexesPointToBases
  <2> QED BY <2>1, <2>2
<1> QED BY <1>1, IndexInvariant, PTL

-----------------------------------------------------------------------------
(* What the entries of the indexes have in common with their keys *)

SFKeys ==
    \A s \in SF : SFindex[s] # NoChunk =>
        \E i \in DOMAIN Features[chunklist[SFindex[s]].content] :
            Features[chunklist[SFindex[s]].content][i] = s

PlaceKeys ==
    \A i \in 1 .. 3 : \A s \in DOMAIN SFtable[i] :
        PositionFeatures[method][chunklist[SFtable[i][s]].content][i] = s

LayerKeys ==
    \A l \in Levels : \A s \in DOMAIN SFlevels[l] :
        s \in AtLevel(chunklist[SFlevels[l][s].id].content, l)

\* The levels follow the fingerprints, as long as none is left behind.
KeysInv ==
    /\ Version <= backup - 1
    /\ SFKeys
    /\ PlaceKeys
    /\ Completed => FPLeads /\ LayerKeys

\* What a step does to the stored chunks.
ChunksStay ==
    \A id \in DOMAIN chunklist : id \in DOMAIN chunklist' /\ chunklist'[id] = chunklist[id]

LEMMA StepKeepsChunks ==
    ASSUME StoreInv, NEW c \in Chunk, ChunkStep(c)
    PROVE  ChunksStay
<1>1. CASE Stored(c)
  BY <1>1, ExtendedKeeps DEF Stored, ChunksStay
<1>2. CASE Duplicate(c) \/ Lost(c)
  BY <1>2 DEF Duplicate, Lost, ChunksStay
<1> QED BY <1>1, <1>2 DEF ChunkStep

\* The number that a stored chunk gets, and its content.
LEMMA NewContent ==
    ASSUME StoreInv, NEW c \in Chunk, Stored(c)
    PROVE  /\ uniquechunkNum + 1 \in DOMAIN chunklist'
           /\ chunklist'[uniquechunkNum + 1].content = c.content
           /\ FPindex' = [FPindex EXCEPT ![c.content] = uniquechunkNum + 1]
<1>1. PICK flag, base : Extended(c, flag, base)
  BY DEF Stored
<1>2. uniquechunkNum \in Nat
  BY DEF StoreInv, TypeOK
<1> QED BY <1>1, <1>2 DEF Extended, Stored, StoreUnique, FP_Insert

\* An index that is left alone, or gets the features of the chunk stored.
LEMMA SFKeysStep ==
    ASSUME StoreInv, SFKeys, ChunksStay, NEW c \in Chunk,
           SFindex' = SFindex \/ (Stored(c) /\ InsertSF(c))
    PROVE  SFKeys'
<1> SUFFICES ASSUME NEW s \in SF, SFindex'[s] # NoChunk
             PROVE  \E i \in DOMAIN Features[chunklist'[SFindex'[s]].content] :
                        Features[chunklist'[SFindex'[s]].content][i] = s
  BY DEF SFKeys
<1>1. CASE SFindex'[s] = SFindex[s]
  <2>1. SFindex[s] \in DOMAIN chunklist
    BY <1>1 DEF StoreInv, IndexesPointToBases, IsBase
  <2>2. chunklist'[SFindex[s]] = chunklist[SFindex[s]]
    BY <2>1 DEF ChunksStay
  <2> QED BY <1>1, <2>2 DEF SFKeys
<1>2. CASE SFindex'[s] # SFindex[s]
  <2>1. Stored(c) /\ InsertSF(c)
    BY <1>2
  <2>2. /\ SFindex'[s] = uniquechunkNum + 1
        /\ \E i \in DOMAIN Features[c.content] : Features[c.content][i] = s
    BY <1>2, <2>1 DEF InsertSF
  <2>3. chunklist'[uniquechunkNum + 1].content = c.content
    BY <2>1, NewContent
  <2> QED BY <2>2, <2>3
<1> QED BY <1>1, <1>2

LEMMA PlaceKeysStep ==
    ASSUME StoreInv, PlaceInv, PlaceKeys, ChunksStay, method' = method, NEW c \in Chunk,
           SFtable' = SFtable \/ (Stored(c) /\ InsertInPlace(c))
    PROVE  PlaceKeys'
<1> SUFFICES ASSUME NEW i \in 1 .. 3, NEW s \in DOMAIN SFtable'[i]
             PROVE  PositionFeatures[method][chunklist'[SFtable'[i][s]].content][i] = s
  BY DEF PlaceKeys
<1>1. CASE s \in DOMAIN SFtable[i] /\ SFtable'[i][s] = SFtable[i][s]
  <2>1. SFtable[i][s] \in DOMAIN chunklist
    BY <1>1 DEF PlaceInv, IsBase
  <2>2. chunklist'[SFtable[i][s]] = chunklist[SFtable[i][s]]
    BY <2>1 DEF ChunksStay
  <2> QED BY <1>1, <2>2 DEF PlaceKeys
<1>2. CASE Stored(c) /\ InsertInPlace(c)
  <2> DEFINE key == PositionFeatures[method][c.content][i]
  <2>1. PICK new : new = uniquechunkNum + 1
    OBVIOUS
  <2>2. SFtable'[i] = Put(SFtable[i], {key}, new)
    BY <1>2, <2>1 DEF InsertInPlace, PlaceInv
  <2>3. chunklist'[new].content = c.content
    BY <1>2, <2>1, NewContent
  <2> HIDE DEF key
  <2>4. \/ s \in {key} /\ SFtable'[i][s] = new
        \/ s \in DOMAIN SFtable[i] \ {key} /\ SFtable'[i][s] = SFtable[i][s]
    BY <2>2, PutCases
  <2> QED BY <1>1, <2>3, <2>4 DEF key
<1> QED BY <1>1, <1>2

\* The levels get the features of a chunk under the number of a chunk that has
\* its content.
LEMMA LayerKeysEntered ==
    ASSUME LayerInv, LayerKeys, ChunksStay, NEW content, NEW id,
           chunklist'[id].content = content, LayeredInsert(content, id)
    PROVE  LayerKeys'
<1> DEFINE v == [id |-> id, version |-> Version, live |-> TRUE]
<1> SUFFICES ASSUME NEW l \in Levels, NEW s \in DOMAIN SFlevels'[l]
             PROVE  s \in AtLevel(chunklist'[SFlevels'[l][s].id].content, l)
  BY DEF LayerKeys, AtLevel
<1>1. v.id = id
  OBVIOUS
<1>2. SFlevels'[l] = Put(SFlevels[l], AtLevel(content, l), v)
  BY DEF LayeredInsert
<1> HIDE DEF v
<1>3. \/ s \in AtLevel(content, l) /\ SFlevels'[l][s] = v
      \/ s \in DOMAIN SFlevels[l] \ AtLevel(content, l) /\ SFlevels'[l][s] = SFlevels[l][s]
  BY <1>2, PutCases
<1>4. CASE s \in AtLevel(content, l) /\ SFlevels'[l][s] = v
  BY <1>1, <1>4
<1>5. CASE s \in DOMAIN SFlevels[l] /\ SFlevels'[l][s] = SFlevels[l][s]
  <2>1. SFlevels[l][s].id \in DOMAIN chunklist
    BY <1>5 DEF LayerInv, IsBase
  <2>2. chunklist'[SFlevels[l][s].id] = chunklist[SFlevels[l][s].id]
    BY <2>1 DEF ChunksStay
  <2> QED BY <1>5, <2>2 DEF LayerKeys
<1> QED BY <1>3, <1>4, <1>5

\* Levels that keep their entries, erased or not, keep what they lead to.
LEMMA LayerKeysKept ==
    ASSUME LayerInv, LayerKeys, ChunksStay, CleanIndex \/ SFlevels' = SFlevels
    PROVE  LayerKeys'
<1> SUFFICES ASSUME NEW l \in Levels, NEW s \in DOMAIN SFlevels'[l]
             PROVE  s \in AtLevel(chunklist'[SFlevels'[l][s].id].content, l)
  BY DEF LayerKeys, AtLevel
<1>1. s \in DOMAIN SFlevels[l]
  BY DEF CleanIndex
<1>2. SFlevels'[l][s].id = SFlevels[l][s].id
  <2>1. CASE CleanIndex
    BY <1>1, <2>1 DEF CleanIndex
  <2>2. CASE SFlevels' = SFlevels
    BY <2>2
  <2> QED BY <2>1, <2>2
<1>3. SFlevels[l][s].id \in DOMAIN chunklist
  BY <1>1 DEF LayerInv, IsBase
<1>4. chunklist'[SFlevels[l][s].id] = chunklist[SFlevels[l][s].id]
  BY <1>3 DEF ChunksStay
<1> QED BY <1>1, <1>2, <1>4 DEF LayerKeys

\* A chunk that gets a number of its own is stored.
LEMMA UniqueIsStored ==
    ASSUME StoreInv, NEW c \in Chunk, ChunkStep(c), StoreUnique(c)
    PROVE  Stored(c)
<1>1. ~Duplicate(c)
  BY DEF Duplicate, StoreUnique
<1>2. ~Lost(c)
  <2>1. backup \in Nat /\ backup' = backup /\ undefined' = FALSE
    BY DEF StoreInv, TypeOK, StoreUnique, Pop, Finish
  <2> QED BY <2>1 DEF Lost
<1> QED BY <1>1, <1>2 DEF ChunkStep

\* What a chunk does to the indexes, under any method.
LEMMA SFMoves ==
    ASSUME NEW c \in Chunk, MethodChunk(c)
    PROVE  SFindex' = SFindex \/ (StoreUnique(c) /\ InsertSF(c))
<1>1. CASE Duplicate(c)
  BY <1>1 DEF Duplicate, indexes
<1>2. CASE StorePlain(c)
  BY <1>2 DEF StorePlain
<1>3. ASSUME NEW flag, NEW base, StoreDelta(c, flag, base) PROVE SFindex' = SFindex
  BY <1>3 DEF StoreDelta
<1>4. ASSUME NEW forms, StoreBaseAs(c, forms) PROVE InsertSF(c)
  BY <1>4 DEF StoreBaseAs
<1>5. ASSUME NEW base, ReturnsOnError(c, base) PROVE SFindex' = SFindex
  BY <1>5 DEF ReturnsOnError
<1>6. ASSUME NEW larger, AgainstFeature(c, larger)
      PROVE  SFindex' = SFindex \/ InsertSF(c)
  BY <1>3, <1>4, <1>6 DEF AgainstFeature, StoreBase
<1>7. CASE ProcessChunk(c)
  <2>1. CASE FeaturePath(c) \/ LocalityRejected(c)
    BY <1>6, <2>1 DEF FeaturePath, LocalityRejected
  <2>2. CASE LocalityAccepted(c)
    BY <1>3, <2>2 DEF LocalityAccepted
  <2>3. CASE DeltaError(c) \/ DivideByZero(c) \/ OutOfRange(c)
    BY <2>3 DEF DeltaError, DivideByZero, OutOfRange, indexes
  <2> QED BY <1>1, <1>7, <2>1, <2>2, <2>3 DEF ProcessChunk
<1>8. CASE NTransForm(c) \/ Finesse(c)
  <2>1. CASE StoreByPlace(c)
    BY <1>2, <1>3, <2>1 DEF StoreByPlace
  <2>2. CASE DeltaOverflows(c)
    BY <2>2 DEF DeltaOverflows, RunsInto
  <2> QED BY <1>1, <1>5, <1>8, <2>1, <2>2 DEF NTransForm, Finesse
<1>9. CASE Odess(c)
  BY <1>1, <1>2, <1>3, <1>4, <1>5, <1>9 DEF Odess, OdessBase, OdessDelta
<1>10. CASE Palantir(c)
  BY <1>1, <1>2, <1>3, <1>5, <1>10
     DEF Palantir, PalantirDuplicate, PalantirBase, PalantirDelta
<1>11. CASE Dedup(c)
  BY <1>1, <1>2, <1>11 DEF Dedup
<1> QED BY <1>7, <1>8, <1>9, <1>10, <1>11 DEF MethodChunk, BiSearchChunk

LEMMA PlaceMoves ==
    ASSUME NEW c \in Chunk, MethodChunk(c)
    PROVE  SFtable' = SFtable \/ (StoreUnique(c) /\ InsertInPlace(c))
<1>1. CASE NTransForm(c) \/ Finesse(c)
  BY <1>1 DEF NTransForm, Finesse, StoreByPlace
<1>2. CASE BiSearchChunk(c) \/ Dedup(c) \/ Odess(c) \/ Palantir(c)
  BY <1>2 DEF BiSearchChunk, Dedup, Odess, Palantir, position
<1> QED BY <1>1, <1>2 DEF MethodChunk

LEMMA LayerMoves ==
    ASSUME StoreInv, NEW c \in Chunk, MethodChunk(c)
    PROVE  \/ SFlevels' = SFlevels
           \/ StoreUnique(c) /\ LayeredInsert(c.content, uniquechunkNum + 1)
           \/ Duplicate(c) /\ LayeredInsert(c.content, FPindex[c.content])
<1>1. CASE PalantirDuplicate(c)
  BY <1>1, DuplicateFound DEF PalantirDuplicate, layered
<1>2. CASE PalantirBase(c) \/ PalantirDelta(c) \/ UNCHANGED layered
  BY <1>2 DEF PalantirBase, PalantirDelta, layered
<1>3. CASE Palantir(c)
  BY <1>1, <1>2, <1>3 DEF Palantir
<1>4. CASE BiSearchChunk(c) \/ Dedup(c) \/ NTransForm(c) \/ Finesse(c) \/ Odess(c)
  BY <1>4 DEF BiSearchChunk, Dedup, NTransForm, Finesse, Odess, layered
<1> QED BY <1>3, <1>4 DEF MethodChunk

\* A fingerprint is left behind only where a ProcessTrace ends early.
LEMMA FPLeadsStep ==
    ASSUME StoreInv, KeysInv, NEW c \in Chunk, ChunkStep(c), Completed'
    PROVE  /\ Completed /\ FPLeads'
           /\ Version' <= backup' - 1
<1>1. backup \in Nat /\ Version \in Nat /\ Version <= backup - 1
  BY DEF StoreInv, TypeOK, KeysInv
<1>2. CASE Duplicate(c)
  <2>1. UNCHANGED <<backup, Version, undefined, FPindex, chunklist>>
    BY <1>2 DEF Duplicate, Finish, indexes
  <2> QED BY <1>1, <2>1 DEF KeysInv, Completed, FPLeads
<1>3. CASE Stored(c)
  <2>1. UNCHANGED <<backup, Version, undefined>>
    BY <1>3 DEF Stored, StoreUnique, Finish
  <2>2. Completed /\ FPLeads
    BY <2>1 DEF KeysInv, Completed
  <2>3. ChunksStay
    BY <1>3, StepKeepsChunks DEF ChunkStep
  <2>4. PICK new : /\ new \in DOMAIN chunklist' /\ chunklist'[new].content = c.content
                   /\ FPindex' = [FPindex EXCEPT ![c.content] = new]
    BY <1>3, NewContent
  <2>5. FPindex \in [Content -> ChunkID \cup {NoChunk}]
    BY DEF StoreInv, TypeOK
  <2>6. FPLeads'
    <3> SUFFICES ASSUME NEW d \in Content, FPindex'[d] # NoChunk
                 PROVE  /\ FPindex'[d] \in DOMAIN chunklist'
                        /\ chunklist'[FPindex'[d]].content = d
      BY DEF FPLeads
    <3>1. CASE d = c.content
      BY <2>4, <2>5, <3>1
    <3>2. CASE d # c.content
      <4>1. FPindex'[d] = FPindex[d]
        BY <2>4, <2>5, <3>2
      <4> QED BY <2>2, <2>3, <4>1 DEF FPLeads, ChunksStay
    <3> QED BY <3>1, <3>2
  <2> QED BY <1>1, <2>1, <2>2, <2>6
<1>4. CASE Lost(c)
  BY <1>1, <1>4 DEF Lost, Completed
<1> QED BY <1>2, <1>3, <1>4 DEF ChunkStep

\* A chunk, under any method that has indexes.
LEMMA KeysChunkStep ==
    ASSUME StoreInv, PlaceInv, LayerInv, KeysInv, NEW c \in Chunk, MethodChunk(c),
           method' = method
    PROVE  KeysInv'
<1>1. ChunkStep(c)
  BY MethodChunkStep
<1>2. ChunksStay
  BY <1>1, StepKeepsChunks
<1>3. SFKeys'
  BY <1>1, <1>2, SFMoves, UniqueIsStored, SFKeysStep DEF KeysInv
<1>4. PlaceKeys'
  BY <1>1, <1>2, PlaceMoves, UniqueIsStored, PlaceKeysStep DEF KeysInv
<1>5. Version' <= backup' - 1
  <2>1. backup \in Nat /\ Version \in Nat /\ Version <= backup - 1
    BY DEF StoreInv, TypeOK, KeysInv
  <2>2. Version' = Version /\ (backup' = backup \/ backup' = backup + 1)
    BY <1>1 DEF ChunkStep, Duplicate, Stored, StoreUnique, Lost, Finish
  <2> QED BY <2>1, <2>2
<1>6. ASSUME Completed' PROVE FPLeads' /\ LayerKeys'
  <2>1. Completed /\ FPLeads' /\ FPLeads /\ LayerKeys
    BY <1>1, <1>6, FPLeadsStep DEF KeysInv
  <2>2. CASE SFlevels' = SFlevels
    BY <1>2, <2>1, <2>2, LayerKeysKept
  <2>3. CASE StoreUnique(c) /\ LayeredInsert(c.content, uniquechunkNum + 1)
    <3>1. PICK new : new = uniquechunkNum + 1
      OBVIOUS
    <3>2. chunklist'[new].content = c.content /\ LayeredInsert(c.content, new)
      BY <1>1, <2>3, <3>1, UniqueIsStored, NewContent
    <3> QED BY <1>2, <2>1, <3>2, LayerKeysEntered
  <2>4. CASE Duplicate(c) /\ LayeredInsert(c.content, FPindex[c.content])
    <3>1. PICK stored : stored = FPindex[c.content]
      OBVIOUS
    <3>2. c.content \in Content /\ stored # NoChunk /\ chunklist' = chunklist
      BY <2>4, <3>1 DEF Duplicate, Unique, Chunk, Content
    <3>3. chunklist'[stored].content = c.content /\ LayeredInsert(c.content, stored)
      BY <2>1, <2>4, <3>1, <3>2 DEF FPLeads
    <3> QED BY <1>2, <2>1, <3>3, LayerKeysEntered
  <2> QED BY <2>1, <2>2, <2>3, <2>4, LayerMoves
<1> QED BY <1>3, <1>4, <1>5, <1>6 DEF KeysInv

LEMMA KeysEndStep ==
    ASSUME StoreInv, PlaceInv, LayerInv, KeysInv, MethodEndOfBackup, method' = method
    PROVE  KeysInv'
<1>1. /\ UNCHANGED <<SFindex, FPindex, chunklist, SFtable, undefined>>
      /\ Version' = Version + 1 /\ backup' = backup + 1
  BY DEF MethodEndOfBackup, EndOfBackup, indexes, position
<1>2. Version \in Nat /\ backup \in Nat
  BY DEF StoreInv, TypeOK
<1>3. SFKeys' /\ PlaceKeys' /\ Version' <= backup' - 1
  BY <1>1, <1>2 DEF KeysInv, SFKeys, PlaceKeys
<1>4. ChunksStay /\ (CleanIndex \/ SFlevels' = SFlevels)
  BY <1>1 DEF ChunksStay, MethodEndOfBackup, layered
<1>5. ASSUME Completed' PROVE FPLeads' /\ LayerKeys'
  <2>1. Completed
    BY <1>1, <1>2, <1>5 DEF Completed
  <2>2. FPLeads'
    BY <1>1, <2>1 DEF KeysInv, FPLeads
  <2> QED BY <1>4, <2>1, <2>2, LayerKeysKept DEF KeysInv
<1> QED BY <1>3, <1>5 DEF KeysInv

\* Whatever an index of a method proposes for a super feature was stored as a
\* base and has it: in Palantir's levels as long as xdelta3 has not failed, in
\* the others always.
KeysFollow == method # "LOCALITY" => KeysInv

THEOREM IndexEntries == MethodsSpec => []EntriesAreFeatures
<1>1. MethodsInit => KeysFollow
  <2>1. DOMAIN << >> = {}
    BY SMT
  <2> QED BY <2>1 DEF MethodsInit, Init, KeysFollow, KeysInv, SFKeys, PlaceKeys, LayerKeys,
             FPLeads
<1>2. IndexInv /\ KeysFollow /\ [MethodsNext]_allVars => KeysFollow'
  <2> SUFFICES ASSUME IndexInv, KeysFollow, [MethodsNext]_allVars, method' # "LOCALITY"
               PROVE  KeysInv'
    BY DEF KeysFollow
  <2>1. method' = method
    BY DEF MethodsNext, allVars
  <2>2. StoreInv /\ PlaceInv /\ LayerInv /\ KeysInv
    BY <2>1 DEF IndexInv, KeysFollow
  <2>3. CASE MethodEndOfBackup
    BY <2>1, <2>2, <2>3, KeysEndStep
  <2>4. ASSUME NEW c \in Chunk, MethodChunk(c) PROVE KeysInv'
    BY <2>1, <2>2, <2>4, KeysChunkStep
  <2>5. CASE UNCHANGED allVars
    <3>1. UNCHANGED <<SFindex, FPindex, chunklist, SFtable, SFlevels, undefined>>
      BY <2>5 DEF allVars, vars, indexes, position, layered
    <3>2. UNCHANGED <<Version, backup, method>>
      BY <2>5 DEF allVars, vars
    <3> QED BY <2>2, <3>1, <3>2
          DEF KeysInv, SFKeys, PlaceKeys, LayerKeys, FPLeads, Completed, AtLevel
  <2> QED BY <2>1, <2>3, <2>4, <2>5 DEF MethodsNext, MethodChunk, LocalDedup
<1>3. IndexInv /\ KeysFollow => EntriesAreFeatures
  <2> SUFFICES ASSUME IndexInv, KeysFollow PROVE EntriesAreFeatures
    OBVIOUS
  <2>1. CASE method # "LOCALITY"
    <3>1. DOMAIN SFtable = 1 .. 3
      BY <2>1 DEF IndexInv, PlaceInv
    <3> QED BY <2>1, <3>1 DEF KeysFollow, KeysInv, SFKeys, PlaceKeys, LayerKeys,
               EntriesAreFeatures
  <2>2. CASE method = "LOCALITY"
    <3>1. DOMAIN << >> = {}
      BY SMT
    <3> QED BY <2>2, <3>1 DEF IndexInv, NoIndex, EntriesAreFeatures
  <2> QED BY <2>1, <2>2
<1> QED BY <1>1, <1>2, <1>3, IndexInvariant, PTL DEF MethodsSpec

-----------------------------------------------------------------------------
(* Restoring *)

\* A chunk that is stored or found again keeps every backup restorable; one
\* that only leaves its fingerprint behind ends that.
LEMMA MethodChunkRestore ==
    ASSUME StoreInv, CompletedInv, NoOverlap, NEW c \in Chunk, ChunkStep(c)
    PROVE  CompletedInv'
<1>1. backup \in Nat /\ Version \in Nat
  BY DEF StoreInv, TypeOK
<1>2. CASE Duplicate(c)
  <2>1. UNCHANGED <<backup, Version, undefined>>
    BY <1>2 DEF Duplicate, Finish
  <2>2. Completed => RestoreInv'
    BY <1>2, DuplicateRestore DEF CompletedInv
  <2> QED BY <2>1, <2>2 DEF CompletedInv, Completed
<1>3. CASE Stored(c)
  <2>1. UNCHANGED <<backup, Version, undefined>>
    BY <1>3 DEF Stored, StoreUnique, Finish
  <2>2. Completed => RestoreInv'
    BY <1>3, UniqueRestore DEF CompletedInv, Stored
  <2> QED BY <2>1, <2>2 DEF CompletedInv, Completed
<1>4. CASE Lost(c)
  <2>1. CASE backup' = backup + 1 /\ Version' = Version
    BY <1>1, <2>1 DEF CompletedInv, Completed
  <2>2. CASE backup' = backup /\ undefined' = TRUE /\ Version' = Version
    BY <1>1, <2>2 DEF CompletedInv, Completed
  <2> QED BY <1>4, <2>1, <2>2 DEF Lost
<1> QED BY <1>2, <1>3, <1>4 DEF ChunkStep

LEMMA MethodEndRestore ==
    ASSUME StoreInv, CompletedInv, EndOfBackup
    PROVE  CompletedInv'
<1>1. backup \in Nat /\ Version \in Nat
  BY DEF StoreInv, TypeOK
<1>2. backup' = backup + 1 /\ Version' = Version + 1 /\ undefined' = undefined
  BY DEF EndOfBackup
<1>3. Completed => RestoreInv'
  BY EndRestore DEF CompletedInv
<1> QED BY <1>1, <1>2, <1>3 DEF CompletedInv, Completed

MethodsInv ==
    /\ IndexInv
    /\ method # "LOCALITY" => CompletedInv

\* All methods but LocalDedup keep every backup restorable, as long as every
\* ProcessTrace runs to its end.
THEOREM MethodsInvariant ==
    ASSUME NoOverlap
    PROVE  MethodsSpec => []MethodsInv
<1>1. MethodsInit => (method # "LOCALITY" => CompletedInv)
  BY InitRestore DEF MethodsInit, Init, CompletedInv, Completed
<1>2. MethodsInv /\ [MethodsNext]_allVars => (method # "LOCALITY" => CompletedInv)'
  <2> SUFFICES ASSUME MethodsInv, [MethodsNext]_allVars, method' # "LOCALITY"
               PROVE  CompletedInv'
    OBVIOUS
  <2>1. method' = method
    BY DEF MethodsNext, allVars
  <2>2. StoreInv /\ PlaceInv /\ LayerInv /\ CompletedInv
    BY <2>1 DEF MethodsInv, IndexInv
  <2>3. CASE MethodEndOfBackup
    BY <2>2, <2>3, MethodEndRestore DEF MethodEndOfBackup
  <2>4. ASSUME NEW c \in Chunk, MethodChunk(c) PROVE CompletedInv'
    BY <2>2, <2>4, MethodChunkStep, MethodChunkRestore
  <2>5. CASE UNCHANGED allVars
    <3>1. UNCHANGED vars /\ UNCHANGED <<backup, Version, undefined>>
      BY <2>5 DEF allVars, vars
    <3>2. Completed => RestoreInv'
      BY <2>2, <3>1, EndRestore DEF CompletedInv
    <3> QED BY <2>2, <3>1, <3>2 DEF CompletedInv, Completed
  <2> QED BY <2>1, <2>3, <2>4, <2>5 DEF MethodsNext, MethodChunk, LocalDedup
<1> QED BY <1>1, <1>2, IndexInvariant, PTL DEF MethodsSpec, MethodsInv

\* Every method but LocalDedup restores every backup to what was fed, until an
\* xdelta3 failure ends a ProcessTrace: exactly with LZ4, and under -L 0 but for
\* the chunks that cannot be read back and the deltas against such.
THEOREM MethodsRestore ==
    ASSUME NoOverlap
    PROVE  MethodsSpec => []MethodsRestoreExact
<1>1. StoreInv /\ RestoreInv => RestoreExact
  <2> SUFFICES ASSUME StoreInv, RestoreInv, NEW b \in Backup
               PROVE  /\ Restores(RecipeMap[b], fedData[b])
                      /\ Restores(RecipeMap_header[b], fedHeader[b])
    BY DEF RestoreExact
  <2>1. fedData[b] \in Seq(Content) /\ fedHeader[b] \in Seq(Content)
    BY DEF StoreInv, TypeOK
  <2> QED BY <2>1, RestoredFacts DEF RestoreInv, RecipesCover
<1>2. ~Completed => RestoreExact
  BY DEF RestoreExact
<1>3. MethodsInv => MethodsRestoreExact
  BY <1>1, <1>2 DEF MethodsInv, IndexInv, CompletedInv, MethodsRestoreExact
<1> QED BY <1>3, MethodsInvariant, PTL

-----------------------------------------------------------------------------
(* The size of Palantir's index *)

\* The images of a finite set are finitely many.
LEMMA ImageFinite ==
    ASSUME NEW S, IsFiniteSet(S), NEW f
    PROVE  IsFiniteSet({f[x] : x \in S})
<1> DEFINE T == {f[x] : x \in S}
           g == [x \in S |-> f[x]]
<1>1. g \in Surjection(S, T)
  BY DEF Surjection
<1> QED BY <1>1, FS_Surjection

\* A chunk has 13 super features at most on a level.
LEMMA AtLevelFinite ==
    ASSUME NEW content, NEW l
    PROVE  IsFiniteSet(AtLevel(content, l))
<1> DEFINE places == {j \in DOMAIN LevelOf : LevelOf[j] = l}
<1>1. DOMAIN LevelOf = 1 .. 13
  BY PlacesAssumption
<1>2. IsFiniteSet(1 .. 13)
  <2>1. PICK last \in Nat : last = 13
    OBVIOUS
  <2>2. IsFiniteSet(1 .. last)
    BY FS_Interval
  <2> QED BY <2>1, <2>2, Zenon
<1>3. IsFiniteSet(places)
  BY <1>1, <1>2, FS_Subset
<1>4. IsFiniteSet({PalantirFeatures[content][i] : i \in places})
  BY <1>3, ImageFinite
<1> QED BY <1>4 DEF AtLevel

\* How a set grows by the elements that are new, and shrinks by a part of it.
LEMMA GrowShrink ==
    ASSUME NEW S, IsFiniteSet(S), NEW T, IsFiniteSet(T)
    PROVE  /\ IsFiniteSet(S \cup T) /\ IsFiniteSet(S \ T)
           /\ Cardinality(S) \in Nat /\ Cardinality(T) \in Nat
           /\ Cardinality(T \ S) \in Nat /\ Cardinality(S \ T) \in Nat
           /\ Cardinality(S \cup T) = Cardinality(S) + Cardinality(T \ S)
           /\ T \subseteq S => Cardinality(S \ T) = Cardinality(S) - Cardinality(T)
<1>1. IsFiniteSet(T \ S) /\ IsFiniteSet(S \ T)
  BY FS_Difference
<1>2. S \cup T = S \cup (T \ S) /\ S \cap (T \ S) = {}
  OBVIOUS
<1>3. /\ IsFiniteSet(S \cup (T \ S))
      /\ Cardinality(S \cup (T \ S)) =
             Cardinality(S) + Cardinality(T \ S) - Cardinality(S \cap (T \ S))
  BY <1>1, FS_Union
<1>4. Cardinality({}) = 0
  BY FS_EmptySet
<1>5. /\ Cardinality(S) \in Nat /\ Cardinality(T) \in Nat
      /\ Cardinality(T \ S) \in Nat /\ Cardinality(S \ T) \in Nat
  BY <1>1, FS_CardinalityType
<1>6. Cardinality(S \cup T) = Cardinality(S) + Cardinality(T \ S)
  <2>1. Cardinality(S \cap (T \ S)) = 0
    BY <1>2, <1>4
  <2>2. Cardinality(S \cup (T \ S)) = Cardinality(S) + Cardinality(T \ S)
    BY <1>3, <1>5, <2>1
  <2> QED BY <1>2, <2>2
<1>7. T \subseteq S => Cardinality(S \ T) = Cardinality(S) - Cardinality(T)
  <2>1. T \subseteq S => S \cap T = T
    OBVIOUS
  <2> QED BY <2>1, FS_Difference
<1> QED BY <1>1, <1>2, <1>3, <1>5, <1>6, <1>7

\* Each level holds finitely many entries, and the two counters differ by
\* those that are not erased.
AccountInv ==
    /\ SFNew \in Int /\ SFDelete \in Int
    /\ \A l \in Levels : IsFiniteSet(Live(l))
    /\ LayeredAccounting

\* The entries that are there after an insertion and after a cleaning.
LEMMA LiveInserted ==
    ASSUME NEW content, NEW id, LayeredInsert(content, id), NEW l \in Levels
    PROVE  Live(l)' = Live(l) \cup AtLevel(content, l)
<1> DEFINE v == [id |-> id, version |-> Version, live |-> TRUE]
<1>1. SFlevels'[l] = Put(SFlevels[l], AtLevel(content, l), v)
  BY DEF LayeredInsert
<1>2. v.live = TRUE
  OBVIOUS
<1> HIDE DEF v
<1>3. DOMAIN SFlevels'[l] = AtLevel(content, l) \cup DOMAIN SFlevels[l]
  BY <1>1 DEF Put
<1>4. ASSUME NEW s \in DOMAIN SFlevels'[l]
      PROVE  SFlevels'[l][s].live <=> s \in Live(l) \cup AtLevel(content, l)
  <2>1. CASE s \in AtLevel(content, l)
    <3>1. SFlevels'[l][s] = v
      BY <1>1, <1>4, <2>1 DEF Put
    <3> QED BY <1>2, <2>1, <3>1
  <2>2. CASE s \notin AtLevel(content, l)
    <3>1. s \in DOMAIN SFlevels[l] /\ SFlevels'[l][s] = SFlevels[l][s]
      BY <1>1, <1>3, <1>4, <2>2 DEF Put
    <3> QED BY <2>2, <3>1 DEF Live
  <2> QED BY <2>1, <2>2
<1> QED BY <1>3, <1>4 DEF Live

LEMMA LiveCleaned ==
    ASSUME CleanIndex, NEW l \in Levels
    PROVE  Live(l)' = Live(l) \ Expired(l)
<1>1. /\ DOMAIN SFlevels'[l] = DOMAIN SFlevels[l]
      /\ \A s \in DOMAIN SFlevels[l] :
             SFlevels'[l][s] = IF s \in Expired(l)
                               THEN [SFlevels[l][s] EXCEPT !.live = FALSE]
                               ELSE SFlevels[l][s]
  BY DEF CleanIndex
<1>2. \A s \in Expired(l) : SFlevels[l][s].live
  BY DEF Expired, Live
<1>3. ASSUME NEW s \in DOMAIN SFlevels[l]
      PROVE  SFlevels'[l][s].live <=> s \in Live(l) \ Expired(l)
  <2>1. CASE s \in Expired(l)
    <3>1. SFlevels'[l][s] = [SFlevels[l][s] EXCEPT !.live = FALSE]
      BY <1>1, <2>1
    <3> QED BY <2>1, <3>1
  <2>2. CASE s \notin Expired(l)
    <3>1. SFlevels'[l][s] = SFlevels[l][s]
      BY <1>1, <2>2
    <3> QED BY <2>2, <3>1 DEF Live
  <2> QED BY <2>1, <2>2
<1> QED BY <1>1, <1>3 DEF Live

\* All that ever happens to the levels.
LayeredMove ==
    \/ UNCHANGED layered
    \/ CleanIndex
    \/ \E content, id : LayeredInsert(content, id)

LEMMA LayeredMoves == [MethodsNext]_allVars => LayeredMove
<1> SUFFICES ASSUME [MethodsNext]_allVars PROVE LayeredMove
  OBVIOUS
<1>1. CASE MethodEndOfBackup
  BY <1>1 DEF MethodEndOfBackup, LayeredMove
<1>2. ASSUME NEW c \in Chunk, Palantir(c) PROVE LayeredMove
  <2>1. CASE PalantirDuplicate(c)
    BY <2>1 DEF PalantirDuplicate, LayeredMove
  <2>2. CASE PalantirBase(c)
    BY <2>2 DEF PalantirBase, LayeredMove
  <2>3. CASE PalantirDelta(c) \/ UNCHANGED layered
    BY <2>3 DEF PalantirDelta, LayeredMove
  <2> QED BY <1>2, <2>1, <2>2, <2>3 DEF Palantir
<1>3. ASSUME NEW c \in Chunk,
             \/ BiSearchChunk(c) \/ Dedup(c) \/ NTransForm(c) \/ Finesse(c)
             \/ Odess(c) \/ LocalDedup(c)
      PROVE  UNCHANGED layered
  BY <1>3 DEF BiSearchChunk, Dedup, NTransForm, Finesse, Odess, LocalDedup
<1>4. CASE UNCHANGED allVars
  BY <1>4 DEF allVars, LayeredMove
<1> QED BY <1>1, <1>2, <1>3, <1>4 DEF MethodsNext, LayeredMove

LEMMA AccountInserted ==
    ASSUME AccountInv, NEW content, NEW id, LayeredInsert(content, id)
    PROVE  AccountInv'
<1> DEFINE new(l) == AtLevel(content, l)
<1>1. ASSUME NEW l \in Levels
      PROVE  /\ IsFiniteSet(Live(l)')
             /\ Cardinality(Live(l)) \in Nat /\ Cardinality(new(l) \ Live(l)) \in Nat
             /\ Cardinality(Live(l)') = Cardinality(Live(l)) + Cardinality(new(l) \ Live(l))
  <2>1. IsFiniteSet(Live(l)) /\ IsFiniteSet(new(l))
    BY AtLevelFinite DEF AccountInv
  <2>2. Live(l)' = Live(l) \cup new(l)
    BY LiveInserted
  <2> HIDE DEF new
  <2> QED BY <2>1, <2>2, GrowShrink
<1>2. /\ SFNew' = SFNew + Cardinality(new(1) \ Live(1))
                        + Cardinality(new(2) \ Live(2)) + Cardinality(new(3) \ Live(3))
      /\ SFDelete' = SFDelete
  BY DEF LayeredInsert
<1>3. 1 \in Levels /\ 2 \in Levels /\ 3 \in Levels
  BY DEF Levels
<1> HIDE DEF new
<1>4. /\ SFNew \in Int /\ SFDelete \in Int
      /\ SFNew - SFDelete = Cardinality(Live(1)) + Cardinality(Live(2)) + Cardinality(Live(3))
  BY DEF AccountInv, LayeredAccounting
<1>5. /\ SFNew' \in Int /\ SFDelete' \in Int
      /\ SFNew' - SFDelete' =
             Cardinality(Live(1)') + Cardinality(Live(2)') + Cardinality(Live(3)')
  <2> DEFINE added(l) == Cardinality(new(l) \ Live(l))
             live(l)  == Cardinality(Live(l))
             next(l)  == Cardinality(Live(l)')
  <2>1. \A l \in Levels : live(l) \in Nat /\ added(l) \in Nat /\ next(l) = live(l) + added(l)
    BY <1>1
  <2>2. /\ SFNew' = SFNew + added(1) + added(2) + added(3)
        /\ SFNew - SFDelete = live(1) + live(2) + live(3)
    BY <1>2, <1>4
  <2> HIDE DEF added, live, next
  <2>3. /\ SFNew' \in Int /\ SFDelete' \in Int
        /\ SFNew' - SFDelete' = next(1) + next(2) + next(3)
    BY <1>2, <1>3, <1>4, <2>1, <2>2
  <2> QED BY <2>3 DEF next
<1> QED BY <1>1, <1>5 DEF AccountInv, LayeredAccounting

LEMMA AccountCleaned ==
    ASSUME AccountInv, CleanIndex
    PROVE  AccountInv'
<1>1. ASSUME NEW l \in Levels
      PROVE  /\ IsFiniteSet(Live(l)')
             /\ Cardinality(Live(l)) \in Nat /\ Cardinality(Expired(l)) \in Nat
             /\ Cardinality(Live(l)') = Cardinality(Live(l)) - Cardinality(Expired(l))
  <2>1. IsFiniteSet(Live(l)) /\ Expired(l) \subseteq Live(l)
    BY DEF AccountInv, Expired
  <2>2. IsFiniteSet(Expired(l))
    BY <2>1, FS_Subset
  <2>3. Live(l)' = Live(l) \ Expired(l)
    BY LiveCleaned
  <2> QED BY <2>1, <2>2, <2>3, GrowShrink
<1>2. /\ SFDelete' = SFDelete + Cardinality(Expired(2)) + Cardinality(Expired(3))
      /\ SFNew' = SFNew
  BY DEF CleanIndex
<1>3. 1 \in Levels /\ 2 \in Levels /\ 3 \in Levels
  BY DEF Levels
<1>4. Cardinality(Expired(1)) = 0
  <2>1. Expired(1) = {}
    BY DEF Expired
  <2> QED BY <2>1, FS_EmptySet
<1>5. /\ SFNew \in Int /\ SFDelete \in Int
      /\ SFNew - SFDelete = Cardinality(Live(1)) + Cardinality(Live(2)) + Cardinality(Live(3))
  BY DEF AccountInv, LayeredAccounting
<1>6. /\ SFNew' \in Int /\ SFDelete' \in Int
      /\ SFNew' - SFDelete' =
             Cardinality(Live(1)') + Cardinality(Live(2)') + Cardinality(Live(3)')
  BY <1>1, <1>2, <1>3, <1>4, <1>5
<1> QED BY <1>1, <1>6 DEF AccountInv, LayeredAccounting

\* The reported size of Palantir's index is the number of entries in it.
THEOREM MethodsAccounting == MethodsSpec => []LayeredAccounting
<1>1. MethodsInit => AccountInv
  <2> SUFFICES ASSUME MethodsInit PROVE AccountInv
    OBVIOUS
  <2>1. DOMAIN << >> = {}
    BY SMT
  <2>2. \A l \in Levels : Live(l) = {}
    BY <2>1 DEF MethodsInit, Live
  <2>3. 1 \in Levels /\ 2 \in Levels /\ 3 \in Levels
    BY DEF Levels
  <2>4. /\ \A l \in Levels : IsFiniteSet(Live(l))
        /\ Cardinality(Live(1)) = 0 /\ Cardinality(Live(2)) = 0 /\ Cardinality(Live(3)) = 0
    BY <2>2, <2>3, FS_EmptySet
  <2>5. SFNew = 0 /\ SFDelete = 0
    BY DEF MethodsInit
  <2> QED BY <2>4, <2>5 DEF AccountInv, LayeredAccounting
<1>2. AccountInv /\ [MethodsNext]_allVars => AccountInv'
  <2> SUFFICES ASSUME AccountInv, [MethodsNext]_allVars PROVE AccountInv'
    OBVIOUS
  <2>1. CASE UNCHANGED layered
    BY <2>1 DEF layered, AccountInv, LayeredAccounting, Live
  <2> QED BY <2>1, LayeredMoves, AccountInserted, AccountCleaned DEF LayeredMove
<1>3. AccountInv => LayeredAccounting
  BY DEF AccountInv
<1> QED BY <1>1, <1>2, <1>3, PTL DEF MethodsSpec

-----------------------------------------------------------------------------
(* What Palantir keeps *)

\* the chunks that a backup is restored from
RecipeIds(data, header, b) ==
    {data[b][i] : i \in DOMAIN data[b]} \cup {header[b][i] : i \in DOMAIN header[b]}

\* one of them is a base with the super feature s
Uses(list, ids, l, s) ==
    \E id \in ids : /\ list[id].deltaFlag \notin {"FINESSE_DELTA", "LOCAL_DELTA"}
                    /\ s \in AtLevel(list[id].content, l)

Ids(b)            == RecipeIds(RecipeMap, RecipeMap_header, b)
IdsNext(b)        == RecipeIds(RecipeMap', RecipeMap_header', b)
Used(b, l, s)     == Uses(chunklist, Ids(b), l, s)
UsedNext(b, l, s) == Uses(chunklist', IdsNext(b), l, s)

Keep(l) == IF l = 2 THEN KeepLevel2 ELSE KeepLevel3

\* An entry has the version of a backup that used it, one of the last ones.
EntriesUsed(l) ==
    \A s \in Live(l) : \E b \in Backup :
        /\ SFlevels[l][s].version = b - 1
        /\ Version - Keep(l) <= b /\ b <= Version + 1
        /\ Used(b, l, s)

\* What the last backups used is there, and no older than that use.
UsesEntered(l) ==
    \A b \in Backup : \A s : Version - Keep(l) <= b /\ Used(b, l, s) =>
        s \in Live(l) /\ b - 1 <= SFlevels[l][s].version

\* No recipe is ahead of the current backup.
NoneAhead == \A b \in Backup : Ids(b) # {} => b <= Version + 1

KeptInv ==
    /\ \A l \in {2, 3} : EntriesUsed(l) /\ UsesEntered(l)
    /\ NoneAhead

\* A sequence that is one longer has one more element.
LEMMA AppendRange ==
    ASSUME NEW S, NEW q \in Seq(S), NEW e \in S
    PROVE  {Append(q, e)[i] : i \in DOMAIN Append(q, e)} = {q[i] : i \in DOMAIN q} \cup {e}
<1> DEFINE r == Append(q, e)
<1>1. /\ Len(q) \in Nat /\ DOMAIN q = 1 .. Len(q) /\ DOMAIN r = 1 .. Len(q) + 1
      /\ \A i \in 1 .. Len(q) : r[i] = q[i]
      /\ r[Len(q) + 1] = e
  BY AppendFacts
<1> HIDE DEF r
<1>2. /\ \A i \in DOMAIN r : i \in DOMAIN q \/ i = Len(q) + 1
      /\ \A i \in DOMAIN q : i \in DOMAIN r
      /\ Len(q) + 1 \in DOMAIN r
  BY <1>1
<1>3. {r[i] : i \in DOMAIN r} = {q[i] : i \in DOMAIN q} \cup {e}
  BY <1>1, <1>2
<1> QED BY <1>3 DEF r

\* One chunk enters one recipe of the current backup.
LEMMA IdsAfter ==
    ASSUME TypeOK, backup \in Backup, NEW id \in ChunkID, NEW flag,
           RecipeInsert(id, flag), NEW b \in Backup
    PROVE  IdsNext(b) = IF b = backup THEN Ids(b) \cup {id} ELSE Ids(b)
<1>1. /\ RecipeMap \in [Backup -> Seq(ChunkID)]
      /\ RecipeMap_header \in [Backup -> Seq(ChunkID)]
  BY DEF TypeOK
<1>2. CASE b # backup
  <2>1. RecipeMap'[b] = RecipeMap[b] /\ RecipeMap_header'[b] = RecipeMap_header[b]
    BY <1>1, <1>2 DEF RecipeInsert
  <2> QED BY <1>2, <2>1 DEF IdsNext, Ids, RecipeIds
<1>3. CASE b = backup /\ flag
  <2>1. /\ RecipeMap' = RecipeMap
        /\ RecipeMap_header'[b] = Append(RecipeMap_header[b], id)
        /\ RecipeMap_header[b] \in Seq(ChunkID)
    BY <1>1, <1>3 DEF RecipeInsert
  <2>2. {RecipeMap_header'[b][i] : i \in DOMAIN RecipeMap_header'[b]} =
            {RecipeMap_header[b][i] : i \in DOMAIN RecipeMap_header[b]} \cup {id}
    BY <2>1, AppendRange
  <2> QED BY <1>3, <2>1, <2>2 DEF IdsNext, Ids, RecipeIds
<1>4. CASE b = backup /\ ~flag
  <2>1. /\ RecipeMap_header' = RecipeMap_header
        /\ RecipeMap'[b] = Append(RecipeMap[b], id)
        /\ RecipeMap[b] \in Seq(ChunkID)
    BY <1>1, <1>4 DEF RecipeInsert
  <2>2. {RecipeMap'[b][i] : i \in DOMAIN RecipeMap'[b]} =
            {RecipeMap[b][i] : i \in DOMAIN RecipeMap[b]} \cup {id}
    BY <2>1, AppendRange
  <2> QED BY <1>4, <2>1, <2>2 DEF IdsNext, Ids, RecipeIds
<1> QED BY <1>2, <1>3, <1>4

\* Recipes lead into the chunk list.
LEMMA IdsStored ==
    ASSUME RestoreInv, NEW b \in Backup, NEW id \in Ids(b), TypeOK
    PROVE  id \in DOMAIN chunklist
<1>1. RecipeMap[b] \in Seq(ChunkID) /\ RecipeMap_header[b] \in Seq(ChunkID)
  BY DEF TypeOK
<1>2. /\ DOMAIN RecipeMap[b] = 1 .. Len(RecipeMap[b])
      /\ DOMAIN RecipeMap_header[b] = 1 .. Len(RecipeMap_header[b])
  BY <1>1, LenFacts
<1> QED BY <1>2 DEF RestoreInv, RecipesCover, Covers, Ids, RecipeIds

\* Only the chunk that enters a recipe changes what is used.
LEMMA UsedAfter ==
    ASSUME TypeOK, RestoreInv, backup \in Backup, NEW id \in ChunkID, NEW flag,
           RecipeInsert(id, flag),
           \A i \in DOMAIN chunklist : chunklist'[i] = chunklist[i],
           NEW b \in Backup, NEW l, NEW s
    PROVE  UsedNext(b, l, s) <=> \/ Used(b, l, s)
                                 \/ b = backup /\ Uses(chunklist', {id}, l, s)
<1>1. \A i \in Ids(b) : chunklist'[i] = chunklist[i]
  BY IdsStored
<1>2. IdsNext(b) = IF b = backup THEN Ids(b) \cup {id} ELSE Ids(b)
  BY IdsAfter
<1>3. Uses(chunklist', Ids(b), l, s) <=> Used(b, l, s)
  BY <1>1 DEF Used, Uses
<1>4. b = backup => (UsedNext(b, l, s) <=> \/ Uses(chunklist', Ids(b), l, s)
                                           \/ Uses(chunklist', {id}, l, s))
  BY <1>2 DEF UsedNext, Uses
<1>5. b # backup => (UsedNext(b, l, s) <=> Uses(chunklist', Ids(b), l, s))
  BY <1>2 DEF UsedNext
<1> QED BY <1>3, <1>4, <1>5

\* The entries that an insertion writes, and those it leaves alone.
LEMMA InsertedVersions ==
    ASSUME NEW content, NEW key, LayeredInsert(content, key), NEW l \in Levels
    PROVE  /\ \A s \in AtLevel(content, l) : SFlevels'[l][s].version = Version
           /\ \A s \in Live(l) \ AtLevel(content, l) : SFlevels'[l][s] = SFlevels[l][s]
<1> DEFINE v == [id |-> key, version |-> Version, live |-> TRUE]
<1>1. SFlevels'[l] = Put(SFlevels[l], AtLevel(content, l), v)
  BY DEF LayeredInsert
<1>2. v.version = Version
  OBVIOUS
<1> HIDE DEF v
<1> QED BY <1>1, <1>2 DEF Put, Live

\* A chunk enters the recipe of the current backup.
RecipeGrows(id) ==
    /\ \E flag : RecipeInsert(id, flag)
    /\ \A i \in DOMAIN chunklist : chunklist'[i] = chunklist[i]
    /\ Version' = Version

\* what the current state has to be
Current ==
    /\ TypeOK /\ RestoreInv
    /\ backup \in Backup /\ Version \in Nat /\ backup = Version + 1

LEMMA NoneAheadStep ==
    ASSUME NoneAhead, Current, NEW id \in ChunkID, RecipeGrows(id)
    PROVE  NoneAhead'
<1>1. ASSUME NEW b \in Backup, IdsNext(b) # {}
      PROVE  b <= Version' + 1
  <2>1. IdsNext(b) = IF b = backup THEN Ids(b) \cup {id} ELSE Ids(b)
    BY IdsAfter DEF Current, RecipeGrows
  <2>2. CASE b = backup
    BY <2>2 DEF Current, RecipeGrows
  <2>3. CASE b # backup
    BY <1>1, <2>1, <2>3 DEF NoneAhead, RecipeGrows
  <2> QED BY <2>2, <2>3
<1> QED BY <1>1 DEF NoneAhead, Ids, IdsNext

\* A base that enters a recipe has its super features entered, or refreshed.
LEMMA KeptEntered ==
    ASSUME KeptInv, Current, NEW id \in ChunkID, RecipeGrows(id),
           NEW content, NEW key, LayeredInsert(content, key),
           BaseNext(id), chunklist'[id].content = content
    PROVE  KeptInv'
<1>1. ASSUME NEW b \in Backup, NEW l, NEW s
      PROVE  UsedNext(b, l, s) <=> \/ Used(b, l, s)
                                   \/ b = backup /\ s \in AtLevel(content, l)
  <2>1. Uses(chunklist', {id}, l, s) <=> s \in AtLevel(content, l)
    BY DEF Uses, BaseNext
  <2>2. UsedNext(b, l, s) <=> \/ Used(b, l, s)
                              \/ b = backup /\ Uses(chunklist', {id}, l, s)
    BY UsedAfter DEF Current, RecipeGrows
  <2> QED BY <2>1, <2>2
<1>2. backup \in Backup /\ Version \in Nat /\ backup = Version + 1 /\ Version' = Version
  BY DEF Current, RecipeGrows
<1>3. \A l \in {2, 3} : Keep(l) \in Nat
  BY MethodsAssumption DEF Keep
<1>4. ASSUME NEW l \in {2, 3}, NEW s \in Live(l)'
      PROVE  \E b \in Backup : /\ SFlevels'[l][s].version = b - 1
                               /\ Version' - Keep(l) <= b /\ b <= Version' + 1
                               /\ UsedNext(b, l, s)
  <2>1. l \in Levels
    BY DEF Levels
  <2>2. CASE s \in AtLevel(content, l)
    <3>1. SFlevels'[l][s].version = backup - 1 /\ UsedNext(backup, l, s)
      BY <1>1, <1>2, <2>1, <2>2, InsertedVersions
    <3> QED BY <1>2, <1>3, <3>1
  <2>3. CASE s \notin AtLevel(content, l)
    <3>1. s \in Live(l)
      BY <1>4, <2>1, <2>3, LiveInserted
    <3>2. SFlevels'[l][s] = SFlevels[l][s]
      BY <2>1, <2>3, <3>1, InsertedVersions
    <3>3. PICK b \in Backup : /\ SFlevels[l][s].version = b - 1
                              /\ Version - Keep(l) <= b /\ b <= Version + 1
                              /\ Used(b, l, s)
      BY <3>1 DEF KeptInv, EntriesUsed
    <3> QED BY <1>1, <1>2, <3>2, <3>3
  <2> QED BY <2>2, <2>3
<1>5. ASSUME NEW l \in {2, 3}, NEW b \in Backup, NEW s,
             Version' - Keep(l) <= b, UsedNext(b, l, s)
      PROVE  s \in Live(l)' /\ b - 1 <= SFlevels'[l][s].version
  <2>1. l \in Levels /\ b \in Int
    BY DEF Levels, Backup
  <2>2. CASE s \in AtLevel(content, l)
    <3>1. s \in Live(l)' /\ SFlevels'[l][s].version = Version
      BY <2>1, <2>2, LiveInserted, InsertedVersions
    <3>2. b <= Version + 1
      <4>1. Used(b, l, s) => Ids(b) # {}
        BY DEF Used, Uses
      <4> QED BY <1>1, <1>2, <1>5, <4>1 DEF KeptInv, NoneAhead
    <3> QED BY <1>2, <2>1, <3>1, <3>2
  <2>3. CASE s \notin AtLevel(content, l)
    <3>1. Used(b, l, s)
      BY <1>1, <1>5, <2>3
    <3>2. s \in Live(l) /\ b - 1 <= SFlevels[l][s].version
      BY <1>2, <1>5, <3>1 DEF KeptInv, UsesEntered
    <3>3. s \in Live(l)' /\ SFlevels'[l][s] = SFlevels[l][s]
      BY <2>1, <2>3, <3>2, LiveInserted, InsertedVersions
    <3> QED BY <3>2, <3>3
  <2> QED BY <2>2, <2>3
<1>6. NoneAhead'
  BY NoneAheadStep DEF KeptInv
<1>7. ASSUME NEW l \in {2, 3} PROVE EntriesUsed(l)' /\ UsesEntered(l)'
  BY <1>4, <1>5 DEF EntriesUsed, UsesEntered, Keep, Used, UsedNext, Ids, IdsNext
<1> QED BY <1>6, <1>7 DEF KeptInv

\* A delta that enters a recipe counts for nothing.
LEMMA KeptDelta ==
    ASSUME KeptInv, Current, NEW id \in ChunkID, RecipeGrows(id),
           UNCHANGED layered,
           chunklist'[id].deltaFlag \in {"FINESSE_DELTA", "LOCAL_DELTA"}
    PROVE  KeptInv'
<1>1. ASSUME NEW b \in Backup, NEW l, NEW s
      PROVE  UsedNext(b, l, s) <=> Used(b, l, s)
  <2>1. ~Uses(chunklist', {id}, l, s)
    BY DEF Uses
  <2> QED BY <2>1, UsedAfter DEF Current, RecipeGrows
<1>2. Version' = Version /\ SFlevels' = SFlevels
  BY DEF RecipeGrows, layered
<1>3. NoneAhead'
  BY NoneAheadStep DEF KeptInv
<1>4. ASSUME NEW l \in {2, 3} PROVE EntriesUsed(l)' /\ UsesEntered(l)'
  <2>1. EntriesUsed(l) /\ UsesEntered(l) /\ Live(l)' = Live(l)
    BY <1>2 DEF KeptInv, Live
  <2>2. EntriesUsed(l)'
    BY <1>1, <1>2, <2>1 DEF EntriesUsed, Keep, Used, UsedNext, Ids, IdsNext
  <2>3. UsesEntered(l)'
    BY <1>1, <1>2, <2>1 DEF UsesEntered, Keep, Used, UsedNext, Ids, IdsNext
  <2> QED BY <2>2, <2>3
<1> QED BY <1>3, <1>4 DEF KeptInv

\* At the end of a backup the entries go whose last use has become too old.
LEMMA KeptCleaned ==
    ASSUME KeptInv, Version \in Nat, EndOfBackup, CleanIndex
    PROVE  KeptInv'
<1>1. /\ Version' = Version + 1
      /\ \A b, l, s : UsedNext(b, l, s) <=> Used(b, l, s)
      /\ \A b : IdsNext(b) = Ids(b)
  BY DEF EndOfBackup, recipes, Used, UsedNext, Ids, IdsNext
<1>2. \A l \in {2, 3} : Keep(l) \in Nat
  BY MethodsAssumption DEF Keep
<1>3. ASSUME NEW l \in {2, 3}, NEW s \in Live(l), s \notin Expired(l)
      PROVE  s \in Live(l)' /\ SFlevels'[l][s] = SFlevels[l][s]
  <2>1. l \in Levels /\ s \in DOMAIN SFlevels[l]
    BY DEF Levels, Live
  <2> QED BY <1>3, <2>1, LiveCleaned DEF CleanIndex
<1>4. ASSUME NEW l \in {2, 3}, NEW s
      PROVE  s \in Expired(l) <=> /\ s \in Live(l)
                                  /\ SFlevels[l][s].version < Version - Keep(l)
  BY DEF Expired, Keep
<1>5. ASSUME NEW l \in {2, 3}, NEW s \in Live(l)'
      PROVE  \E b \in Backup : /\ SFlevels'[l][s].version = b - 1
                               /\ Version' - Keep(l) <= b /\ b <= Version' + 1
                               /\ UsedNext(b, l, s)
  <2>1. s \in Live(l) /\ s \notin Expired(l)
    BY <1>5, LiveCleaned DEF Levels
  <2>2. SFlevels'[l][s] = SFlevels[l][s]
    BY <1>3, <2>1
  <2>3. PICK b \in Backup : /\ SFlevels[l][s].version = b - 1
                            /\ b <= Version + 1
                            /\ Used(b, l, s)
    BY <2>1 DEF KeptInv, EntriesUsed
  <2>4. b \in Int /\ ~(b - 1 < Version - Keep(l))
    BY <1>4, <2>1, <2>3 DEF Backup
  <2> QED BY <1>1, <1>2, <2>2, <2>3, <2>4
<1>6. ASSUME NEW l \in {2, 3}, NEW b \in Backup, NEW s,
             Version' - Keep(l) <= b, UsedNext(b, l, s)
      PROVE  s \in Live(l)' /\ b - 1 <= SFlevels'[l][s].version
  <2>1. b \in Int /\ Version - Keep(l) <= b /\ Version - Keep(l) <= b - 1
    BY <1>1, <1>2, <1>6 DEF Backup
  <2>2. s \in Live(l) /\ b - 1 <= SFlevels[l][s].version
    BY <1>1, <1>6, <2>1 DEF KeptInv, UsesEntered
  <2>3. SFlevels[l][s].version \in Int
    BY <2>2 DEF KeptInv, EntriesUsed, Backup
  <2>4. s \notin Expired(l)
    BY <1>2, <1>4, <2>1, <2>2, <2>3
  <2> QED BY <1>3, <2>2, <2>4
<1>7. NoneAhead'
  <2>1. ASSUME NEW b \in Backup, IdsNext(b) # {} PROVE b <= Version' + 1
    BY <1>1, <2>1 DEF KeptInv, NoneAhead, Backup
  <2> QED BY <2>1 DEF NoneAhead, Ids, IdsNext
<1>8. ASSUME NEW l \in {2, 3} PROVE EntriesUsed(l)' /\ UsesEntered(l)'
  BY <1>5, <1>6 DEF EntriesUsed, UsesEntered, Keep, Used, UsedNext, Ids, IdsNext
<1> QED BY <1>7, <1>8 DEF KeptInv

\* The chunk that is stored next gets the next number.
LEMMA StoredGrows ==
    ASSUME StoreInv, NEW c \in Chunk, Stored(c)
    PROVE  /\ uniquechunkNum + 1 \in ChunkID
           /\ RecipeGrows(uniquechunkNum + 1)
           /\ chunklist'[uniquechunkNum + 1].content = c.content
<1>1. PICK flag, base : Extended(c, flag, base)
  BY DEF Stored
<1>2. StoreUnique(c) /\ uniquechunkNum + 1 \in ChunkID
  BY NextIdFacts DEF Stored, StoreUnique
<1>3. \A i \in DOMAIN chunklist : chunklist'[i] = chunklist[i]
  BY <1>1 DEF Extended
<1>4. RecipeGrows(uniquechunkNum + 1)
  BY <1>2, <1>3 DEF RecipeGrows, StoreUnique, Finish
<1> QED BY <1>1, <1>2, <1>4 DEF Extended

\* A chunk of Palantir's, to its end.
LEMMA PalantirKept ==
    ASSUME StoreInv, LayerInv, Completed, RestoreInv, KeptInv,
           NEW c \in Chunk, Palantir(c), Completed'
    PROVE  KeptInv'
<1>1. backup \in Backup => Current
  BY DEF StoreInv, TypeOK, Completed, Current
<1>2. CASE PalantirDuplicate(c)
  <2>1. PICK stored : stored = FPindex[c.content]
    OBVIOUS
  <2>2. Duplicate(c) /\ Current /\ c.content \in Content
    BY <1>1, <1>2 DEF PalantirDuplicate, Duplicate, Pop, Chunk, Content
  <2>3. /\ stored \in ChunkID /\ stored \in DOMAIN chunklist
        /\ chunklist[stored].chunkID = stored /\ stored # NoChunk
    BY <2>1, <2>2, DuplicateFound DEF Duplicate, Unique
  <2>4. chunklist' = chunklist /\ chunklist[stored].content = c.content
    BY <2>1, <2>2, <2>3 DEF Duplicate, RestoreInv, FPLeads
  <2>5. RecipeInsert(stored, chunklist[stored].HeaderFlag) /\ Version' = Version
    BY <2>1, <2>2, <2>3 DEF Duplicate, Finish
  <2>6. RecipeGrows(stored)
    BY <2>4, <2>5 DEF RecipeGrows
  <2>7. CASE IsDelta(stored)
    <3>1. UNCHANGED layered
      BY <1>2, <2>1, <2>7 DEF PalantirDuplicate
    <3>2. chunklist'[stored].deltaFlag \in {"FINESSE_DELTA", "LOCAL_DELTA"}
      BY <2>4, <2>7 DEF IsDelta
    <3> QED BY <2>2, <2>3, <2>6, <3>1, <3>2, KeptDelta
  <2>8. CASE ~IsDelta(stored)
    <3>1. LayeredInsert(c.content, stored)
      BY <1>2, <2>1, <2>3, <2>8 DEF PalantirDuplicate
    <3>2. BaseNext(stored) /\ chunklist'[stored].content = c.content
      BY <2>3, <2>4, <2>8 DEF IsDelta, BaseNext
    <3> QED BY <2>2, <2>3, <2>6, <3>1, <3>2, KeptEntered
  <2> QED BY <2>7, <2>8
<1>3. CASE PalantirBase(c)
  <2>1. PICK new : new = uniquechunkNum + 1
    OBVIOUS
  <2>2. Stored(c) /\ BaseNext(new) /\ Current
    BY <1>1, <1>3, <2>1, PlainStep DEF PalantirBase, StoreUnique, Pop
  <2>3. new \in ChunkID /\ RecipeGrows(new) /\ chunklist'[new].content = c.content
    BY <2>1, <2>2, StoredGrows
  <2>4. LayeredInsert(c.content, new)
    BY <1>3, <2>1 DEF PalantirBase
  <2> QED BY <2>2, <2>3, <2>4, KeptEntered
<1>4. CASE PalantirDelta(c)
  <2>1. PICK new : new = uniquechunkNum + 1
    OBVIOUS
  <2>2. PICK base : base = FindLayered(c) /\ IsBase(base)
    BY <1>4, FindLayeredIsBase DEF PalantirDelta
  <2>3. Stored(c) /\ Current /\ Pop(c)
    BY <1>1, <1>4, <2>2, DeltaStep DEF PalantirDelta, StoreUnique, Pop
  <2>4. new \in ChunkID /\ RecipeGrows(new)
    BY <2>1, <2>3, StoredGrows
  <2>5. base \in ChunkID \cup {NoChunk}
    <3>1. DOMAIN chunklist = 1 .. uniquechunkNum /\ uniquechunkNum \in Nat
      BY LenFacts DEF StoreInv, TypeOK, AccountingAgrees
    <3> QED BY <2>1, <2>2, <2>4, <3>1, OptionsAssumption DEF IsBase, ChunkID
  <2>6. ChunkInsert(c, "FINESSE_DELTA", "raw", base)
    BY <1>4, <2>2 DEF PalantirDelta, StoreDelta
  <2>7. Extended(c, "FINESSE_DELTA", base)
    BY <2>1, <2>2, <2>4, <2>5, <2>6, ChunkInsertFacts, FormsFacts DEF DeltaFlag
  <2>8. chunklist'[new].deltaFlag = "FINESSE_DELTA"
    BY <2>1, <2>7 DEF Extended
  <2> QED BY <1>4, <2>3, <2>4, <2>8, KeptDelta DEF PalantirDelta
<1>5. CASE ReturnsOnError(c, FindLayered(c))
  <2>1. backup \in Nat /\ Version = backup - 1
    BY DEF StoreInv, TypeOK, Completed
  <2>2. backup' = backup + 1 /\ Version' = Version /\ Version' = backup' - 1
    BY <1>5 DEF ReturnsOnError, Completed
  <2> QED BY <2>1, <2>2
<1> QED BY <1>2, <1>3, <1>4, <1>5 DEF Palantir

\* While a ProcessTrace may still be cut short, nothing is claimed of what
\* follows, as for the backups themselves.
PalantirInv == method = "PALANTIR" /\ Completed => KeptInv

\* The finer levels of Palantir hold the super features of exactly the bases
\* that the last backups used.
THEOREM PalantirKeepsUsed ==
    ASSUME NoOverlap
    PROVE  MethodsSpec => []KeptWhileUsed
<1>1. MethodsInit => PalantirInv
  <2> SUFFICES ASSUME MethodsInit PROVE KeptInv
    BY DEF PalantirInv
  <2>1. DOMAIN << >> = {}
    BY SMT
  <2>2. \A l \in Levels : Live(l) = {}
    BY <2>1 DEF MethodsInit, Live
  <2>3. \A b \in Backup : Ids(b) = {}
    BY <2>1 DEF MethodsInit, Init, Ids, RecipeIds
  <2>4. \A b \in Backup : \A l, s : ~Used(b, l, s)
    BY <2>3 DEF Used, Uses
  <2>5. 2 \in Levels /\ 3 \in Levels
    BY DEF Levels
  <2> QED BY <2>2, <2>3, <2>4, <2>5 DEF KeptInv, EntriesUsed, UsesEntered, NoneAhead
<1>2. MethodsInv /\ PalantirInv /\ [MethodsNext]_allVars => PalantirInv'
  <2> SUFFICES ASSUME MethodsInv, PalantirInv, [MethodsNext]_allVars,
                      method' = "PALANTIR", Completed'
               PROVE  KeptInv'
    BY DEF PalantirInv
  <2>1. method = "PALANTIR"
    BY DEF MethodsNext, allVars
  <2>2. StoreInv /\ PlaceInv /\ LayerInv /\ CompletedInv
    BY <2>1 DEF MethodsInv, IndexInv
  <2>3. backup \in Nat /\ Version \in Nat /\ Version <= backup - 1
    BY <2>2 DEF StoreInv, TypeOK, CompletedInv
  <2>4. CASE MethodEndOfBackup
    <3>1. EndOfBackup /\ CleanIndex /\ Completed
      BY <2>1, <2>3, <2>4 DEF MethodEndOfBackup, EndOfBackup, Completed
    <3> QED BY <2>1, <2>3, <3>1, KeptCleaned DEF PalantirInv
  <2>5. ASSUME NEW c \in Chunk, Palantir(c) PROVE KeptInv'
    <3>1. ChunkStep(c)
      BY <2>2, <2>5, PalantirStep
    <3>2. Completed
      <4>1. CASE Duplicate(c) \/ Stored(c)
        <5>1. UNCHANGED <<backup, Version, undefined>>
          BY <4>1 DEF Duplicate, Stored, StoreUnique, Finish
        <5> QED BY <5>1 DEF Completed
      <4>2. CASE Lost(c)
        BY <2>3, <4>2 DEF Lost, Completed
      <4> QED BY <3>1, <4>1, <4>2 DEF ChunkStep
    <3> QED BY <2>1, <2>2, <2>5, <3>2, PalantirKept DEF PalantirInv, CompletedInv
  <2>6. CASE UNCHANGED allVars
    <3>1. /\ UNCHANGED <<SFlevels, Version, chunklist, RecipeMap, RecipeMap_header>>
          /\ UNCHANGED <<undefined, backup>>
      BY <2>6 DEF allVars, vars, layered, recipes
    <3>2. Completed /\ KeptInv
      BY <2>1, <3>1 DEF Completed, PalantirInv
    <3> QED BY <3>1, <3>2 DEF KeptInv, EntriesUsed, UsesEntered, NoneAhead, Live, Used, Ids
  <2> QED BY <2>1, <2>4, <2>5, <2>6 DEF MethodsNext, BiSearchChunk, Dedup, NTransForm,
             Finesse, Odess, LocalDedup
<1>3. PalantirInv => KeptWhileUsed
  <2> SUFFICES ASSUME KeptInv, NEW l \in {2, 3}
               PROVE  Live(l) = UNION {AtLevel(chunklist[id].content, l) :
                                       id \in RecentBases(l)}
    BY DEF PalantirInv, KeptWhileUsed
  <2>1. RecentBases(l) = {id \in UNION {Ids(b) : b \in {k \in Backup : k >= Version - Keep(l)}} :
                              ~IsDelta(id)}
    BY DEF RecentBases, Ids, RecipeIds, Keep
  <2>2. ASSUME NEW s \in Live(l)
        PROVE  \E id \in RecentBases(l) : s \in AtLevel(chunklist[id].content, l)
    <3>1. PICK b \in Backup : Version - Keep(l) <= b /\ Used(b, l, s)
      BY DEF KeptInv, EntriesUsed
    <3>2. PICK id \in Ids(b) : ~IsDelta(id) /\ s \in AtLevel(chunklist[id].content, l)
      BY <3>1 DEF Used, Uses, IsDelta
    <3>3. b >= Version - Keep(l)
      BY <3>1
    <3> QED BY <2>1, <3>2, <3>3
  <2>3. ASSUME NEW id \in RecentBases(l), NEW s \in AtLevel(chunklist[id].content, l)
        PROVE  s \in Live(l)
    <3>1. PICK b \in Backup : b >= Version - Keep(l) /\ id \in Ids(b) /\ ~IsDelta(id)
      BY <2>1
    <3>2. Version - Keep(l) <= b /\ Used(b, l, s)
      BY <3>1, <2>3 DEF Used, Uses, IsDelta
    <3> QED BY <3>2 DEF KeptInv, UsesEntered
  <2> QED BY <2>2, <2>3
<1> QED BY <1>1, <1>2, <1>3, MethodsInvariant, PTL DEF MethodsSpec

=============================================================================
