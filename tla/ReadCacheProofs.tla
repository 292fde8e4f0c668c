--------------------------- MODULE ReadCacheProofs ---------------------------
(***************************************************************************)
(* Proofs about the container cache, for every set of containers, every    *)
(* set of contents and every cache size.                                   *)
(***************************************************************************)
EXTENDS ReadCache, TLAPS

\* The inductive invariant: the three invariants of the runs need each other.
\* A fresh slot is free because the used slots lie below currentIndex_; an
\* evicted slot is owned by the back alone because slots are disjoint.
CacheInv == CacheTypeOK /\ SlotsDisjoint /\ FreshSlotFree

\* What splicing node i to the front does: a permutation of the nodes.
LEMMA SpliceFrontFacts ==
    ASSUME NEW S, NEW s \in Seq(S), NEW i \in 1 .. Len(s)
    PROVE  /\ SpliceFront(s, i) \in Seq(S)
           /\ Len(SpliceFront(s, i)) = Len(s)
           /\ DOMAIN SpliceFront(s, i) = 1 .. Len(s)
           /\ \A j \in 1 .. Len(s) :
                 SpliceFront(s, i)[j] =
                    s[IF j = 1 THEN i ELSE IF j <= i THEN j - 1 ELSE j]
  BY DEF SpliceFront

\* What putting a node in front does: the others move back by one and the
\* last one falls off a full list.
LEMMA EmplaceFrontFacts ==
    ASSUME NEW s \in Seq(Node), NEW e \in Node, NEW n \in Nat,
           Len(s) <= CacheSize,
           n = IF Len(s) < CacheSize THEN Len(s) + 1 ELSE CacheSize
    PROVE  /\ EmplaceFront(s, e) \in Seq(Node)
           /\ Len(EmplaceFront(s, e)) = n
           /\ DOMAIN EmplaceFront(s, e) = 1 .. n
           /\ EmplaceFront(s, e)[1] = e
           /\ \A j \in 2 .. n : EmplaceFront(s, e)[j] = s[j - 1]
  BY CacheSizeAssumption DEF EmplaceFront

\* Find returns the place of a key that is present.
LEMMA FindFacts ==
    ASSUME NEW k, ExistsInCache(k)
    PROVE  Find(k) \in DOMAIN keys_ /\ keys_[Find(k)].key = k
  BY DEF ExistsInCache, Find

\* An empty cache with every slot free satisfies the invariant.
LEMMA CacheInitInv == CacheInit => CacheInv
  BY CacheSizeAssumption
  DEF CacheInit, CacheInv, CacheTypeOK, SlotsDisjoint, FreshSlotFree, Node, Slot

\* The invariant, as facts about the list that the steps below use.
LEMMA CacheInvFacts ==
    ASSUME CacheInv
    PROVE  /\ CacheSize \in Nat /\ CacheSize > 0
           /\ keys_ \in Seq(Node) /\ Len(keys_) \in 0 .. CacheSize
           /\ DOMAIN keys_ = 1 .. Len(keys_)
           /\ currentIndex_ = Len(keys_)
           /\ \A i \in 1 .. Len(keys_) :
                 /\ keys_[i] \in Node
                 /\ keys_[i].key \in Key
                 /\ keys_[i].value \in 0 .. Len(keys_) - 1
<1>1. /\ CacheSize \in Nat /\ CacheSize > 0
      /\ keys_ \in Seq(Node) /\ Len(keys_) \in 0 .. CacheSize
      /\ DOMAIN keys_ = 1 .. Len(keys_)
      /\ currentIndex_ = Len(keys_)
  BY CacheSizeAssumption DEF CacheInv, CacheTypeOK, FreshSlotFree
<1>2. ASSUME NEW i \in 1 .. Len(keys_)
      PROVE  /\ keys_[i] \in Node
             /\ keys_[i].key \in Key
             /\ keys_[i].value \in 0 .. Len(keys_) - 1
  <2>1. keys_[i] \in Node
    BY <1>1
  <2>2. keys_[i].key \in Key /\ keys_[i].value \in 0 .. CacheSize - 1
    BY <2>1 DEF Node, Slot
  <2>3. keys_[i].value < Len(keys_)
    BY <1>1 DEF CacheInv, FreshSlotFree
  <2> QED BY <1>1, <2>1, <2>2, <2>3
<1> QED BY <1>1, <1>2

\* A list made of a new node in front of a part of the old one: nodes stay
\* disjoint when the new one differs from each it is put in front of.
LEMMA PrependDisjoint ==
    ASSUME CacheInv, NEW e \in Node, NEW n \in Nat, n <= Len(keys_) + 1,
           DOMAIN keys_' = 1 .. n,
           keys_'[1] = e,
           \A j \in 2 .. n : keys_'[j] = keys_[j - 1],
           \A m \in 1 .. n - 1 :
               keys_[m].key # e.key /\ keys_[m].value # e.value
    PROVE  SlotsDisjoint'
<1> SUFFICES ASSUME NEW i \in 1 .. n, NEW j \in 1 .. n,
                    keys_'[i].key = keys_'[j].key
                      \/ keys_'[i].value = keys_'[j].value
             PROVE  i = j
  BY DEF SlotsDisjoint
<1>0. Len(keys_) \in Nat /\ DOMAIN keys_ = 1 .. Len(keys_)
  BY CacheInvFacts
<1>1. CASE i = 1 /\ j # 1
  <2>1. j - 1 \in 1 .. n - 1 /\ keys_'[j] = keys_[j - 1]
    BY <1>1
  <2> QED BY <1>1, <2>1
<1>2. CASE i # 1 /\ j = 1
  <2>1. i - 1 \in 1 .. n - 1 /\ keys_'[i] = keys_[i - 1]
    BY <1>2
  <2> QED BY <1>2, <2>1
<1>3. CASE i # 1 /\ j # 1
  <2>1. /\ i - 1 \in DOMAIN keys_ /\ keys_'[i] = keys_[i - 1]
        /\ j - 1 \in DOMAIN keys_ /\ keys_'[j] = keys_[j - 1]
    BY <1>0, <1>3
  <2>2. i - 1 = j - 1
    BY <2>1 DEF CacheInv, SlotsDisjoint
  <2> QED BY <2>2
<1> QED BY <1>1, <1>2, <1>3

\* A full cache hands the slot of the last node to the new one and drops that
\* node: the slots stay distinct.
LEMMA InsertEvictingInv ==
    ASSUME NEW k \in Key, NEW d \in Data,
           CacheInv, ~ExistsInCache(k), InsertEvicting(k, d)
    PROVE  CacheInv'
<1> DEFINE n == Len(keys_)
           e == [key |-> k, value |-> keys_[n].value]
<1>1. n = CacheSize /\ n \in DOMAIN keys_ /\ n \in Nat
  BY CacheInvFacts DEF InsertEvicting, CacheFull
<1>2. e \in Node /\ e.key = k /\ e.value = keys_[n].value
  BY <1>1, CacheInvFacts DEF Node, Slot
<1>3. keys_' = EmplaceFront(keys_, e)
  BY DEF InsertEvicting, LruInsert
<1> HIDE DEF e
<1>4. /\ keys_' \in Seq(Node) /\ Len(keys_') = n /\ DOMAIN keys_' = 1 .. n
      /\ keys_'[1] = e
      /\ \A j \in 2 .. n : keys_'[j] = keys_[j - 1]
  <2>1. /\ keys_ \in Seq(Node) /\ n \in Nat /\ n <= CacheSize
        /\ n = IF n < CacheSize THEN n + 1 ELSE CacheSize
    BY <1>1, CacheInvFacts
  <2> QED BY <1>2, <1>3, <2>1, EmplaceFrontFacts
<1>5. CacheTypeOK'
  <2>1. keys_[n].value \in Slot
    BY <1>1, CacheInvFacts DEF Slot
  <2> QED BY <1>1, <1>4, <2>1 DEF CacheInv, CacheTypeOK, InsertEvicting
<1>6. SlotsDisjoint'
  <2>1. ASSUME NEW m \in 1 .. n - 1
        PROVE  keys_[m].key # e.key /\ keys_[m].value # e.value
    <3>1. m \in DOMAIN keys_ /\ n \in DOMAIN keys_ /\ m # n
      BY <1>1, CacheInvFacts
    <3>2. keys_[m].value # keys_[n].value
      BY <3>1 DEF CacheInv, SlotsDisjoint
    <3> QED BY <1>2, <3>1, <3>2 DEF ExistsInCache
  <2> QED BY <1>1, <1>2, <1>4, <2>1, PrependDisjoint
<1>7. FreshSlotFree'
  <2>1. ASSUME NEW i \in 1 .. n PROVE keys_'[i].value < n
    <3>1. PICK m \in 1 .. n : keys_'[i].value = keys_[m].value
      <4>1. CASE i = 1
        BY <4>1, <1>1, <1>2, <1>4
      <4>2. CASE i # 1
        BY <4>2, <1>1, <1>4
      <4> QED BY <4>1, <4>2
    <3> QED BY <3>1, <1>1, CacheInvFacts
  <2> QED BY <1>4, <2>1, CacheInvFacts DEF FreshSlotFree, InsertEvicting
<1> QED BY <1>5, <1>6, <1>7 DEF CacheInv

\* A cache with room hands out the slot currentIndex_, which no node uses.
LEMMA InsertFreshInv ==
    ASSUME NEW k \in Key, NEW d \in Data,
           CacheInv, ~ExistsInCache(k), InsertFresh(k, d)
    PROVE  CacheInv'
<1> DEFINE n == Len(keys_)
           e == [key |-> k, value |-> currentIndex_]
<1>1. n < CacheSize /\ n \in Nat /\ currentIndex_ = n
  BY CacheInvFacts DEF InsertFresh, CacheFull
<1>2. e \in Node /\ e.key = k /\ e.value = n
  BY <1>1, CacheSizeAssumption DEF Node, Slot
<1>3. keys_' = EmplaceFront(keys_, e)
  BY DEF InsertFresh, LruInsert
<1> HIDE DEF e
<1>4. /\ keys_' \in Seq(Node) /\ Len(keys_') = n + 1
      /\ DOMAIN keys_' = 1 .. n + 1
      /\ keys_'[1] = e
      /\ \A j \in 2 .. n + 1 : keys_'[j] = keys_[j - 1]
  <2>1. /\ keys_ \in Seq(Node) /\ n + 1 \in Nat /\ n <= CacheSize
        /\ n + 1 = IF n < CacheSize THEN n + 1 ELSE CacheSize
    BY <1>1, CacheInvFacts
  <2> QED BY <1>2, <1>3, <2>1, EmplaceFrontFacts
<1>5. CacheTypeOK'
  <2>1. currentIndex_ \in Slot /\ currentIndex_' = n + 1
    BY <1>1, CacheInvFacts DEF Slot, InsertFresh
  <2>2. containerPool_' \in [Slot -> Data \cup {Unset}]
    BY <2>1 DEF CacheInv, CacheTypeOK, InsertFresh
  <2> QED BY <1>1, <1>4, <2>1, <2>2, CacheInvFacts DEF CacheTypeOK
<1>6. SlotsDisjoint'
  <2>1. ASSUME NEW m \in 1 .. n
        PROVE  keys_[m].key # e.key /\ keys_[m].value # e.value
    BY <1>2, CacheInvFacts DEF ExistsInCache
  <2> QED BY <1>1, <1>2, <1>4, <2>1, PrependDisjoint
<1>7. FreshSlotFree'
  <2>1. currentIndex_' = n + 1
    BY <1>1 DEF InsertFresh
  <2>2. ASSUME NEW i \in 1 .. n + 1
        PROVE  keys_'[i].value < n + 1
    <3>1. CASE i = 1
      BY <3>1, <1>1, <1>2, <1>4
    <3>2. CASE i # 1
      <4>1. i - 1 \in 1 .. n /\ keys_'[i] = keys_[i - 1]
        BY <3>2, <1>1, <1>4
      <4> QED BY <4>1, <1>1, CacheInvFacts
    <3> QED BY <3>1, <3>2
  <2> QED BY <2>1, <2>2, <1>4 DEF FreshSlotFree
<1> QED BY <1>5, <1>6, <1>7 DEF CacheInv

\* A read only moves a node to the front.
LEMMA ReadInv ==
    ASSUME NEW k, CacheInv, ReadFromCache(k)
    PROVE  CacheInv'
<1> DEFINE n == Len(keys_)
           from(j) == IF j = 1 THEN Find(k) ELSE IF j <= Find(k) THEN j - 1 ELSE j
<1>1. keys_ \in Seq(Node) /\ n \in Nat /\ Find(k) \in 1 .. n
  BY FindFacts, CacheInvFacts DEF ReadFromCache
<1>2. /\ keys_' \in Seq(Node) /\ Len(keys_') = n
      /\ DOMAIN keys_' = 1 .. n
      /\ \A j \in 1 .. n : keys_'[j] = keys_[from(j)]
  BY <1>1, SpliceFrontFacts DEF ReadFromCache
<1>3. \A j \in 1 .. n : from(j) \in 1 .. n
  BY <1>1
<1>4. \A i, j \in 1 .. n : from(i) = from(j) => i = j
  BY <1>1
<1> HIDE DEF from
<1>5. CacheTypeOK'
  BY <1>2 DEF CacheInv, CacheTypeOK, ReadFromCache
<1>6. SlotsDisjoint'
  <2> SUFFICES ASSUME NEW i \in 1 .. n, NEW j \in 1 .. n,
                      keys_'[i].key = keys_'[j].key
                        \/ keys_'[i].value = keys_'[j].value
               PROVE  i = j
    BY <1>2 DEF SlotsDisjoint
  <2>1. /\ from(i) \in DOMAIN keys_ /\ keys_'[i] = keys_[from(i)]
        /\ from(j) \in DOMAIN keys_ /\ keys_'[j] = keys_[from(j)]
    BY <1>2, <1>3, CacheInvFacts
  <2>2. from(i) = from(j)
    BY <2>1 DEF CacheInv, SlotsDisjoint
  <2> QED BY <2>2, <1>4
<1>7. FreshSlotFree'
  <2>1. ASSUME NEW i \in 1 .. n PROVE keys_'[i].value < n
    BY <1>1, <1>2, <1>3, CacheInvFacts
  <2> QED BY <2>1, <1>2, CacheInvFacts DEF FreshSlotFree, ReadFromCache
<1> QED BY <1>5, <1>6, <1>7 DEF CacheInv

\* How many nodes a list has after an insertion.
AfterInsert == IF Len(keys_) < CacheSize THEN Len(keys_) + 1 ELSE CacheSize

\* What an insertion does, place by place: the new node is in front with the
\* new contents, the ones behind it move back by one, and their slots keep
\* their contents.
LEMMA InsertMoves ==
    ASSUME NEW k \in Key, NEW d \in Data, CacheInv, InsertMissing(k, d)
    PROVE  /\ AfterInsert \in Nat /\ AfterInsert <= Len(keys_) + 1
           /\ Len(keys_') = AfterInsert /\ DOMAIN keys_' = 1 .. AfterInsert
           /\ keys_'[1].key = k /\ containerPool_'[keys_'[1].value] = d
           /\ \A j \in 2 .. AfterInsert :
                 /\ keys_'[j] = keys_[j - 1]
                 /\ containerPool_'[keys_[j - 1].value] = containerPool_[keys_[j - 1].value]
<1> DEFINE n == Len(keys_)
           slot == IF CacheFull THEN keys_[n].value ELSE currentIndex_
           m == AfterInsert
           e == [key |-> k, value |-> slot]
<1>1. /\ n \in Nat /\ CacheSize \in Nat /\ CacheSize > 0 /\ n <= CacheSize
      /\ keys_ \in Seq(Node) /\ currentIndex_ = n
      /\ CacheFull <=> n = CacheSize
  BY CacheInvFacts DEF CacheFull
<1>2. slot \in Slot
  BY <1>1, CacheInvFacts DEF Slot
<1>3. e \in Node /\ e.key = k /\ e.value = slot
  BY <1>2 DEF Node
<1>4. /\ keys_' = EmplaceFront(keys_, e)
      /\ containerPool_' = [containerPool_ EXCEPT ![slot] = d]
  BY DEF InsertMissing, InsertToCache, InsertEvicting, InsertFresh, LruInsert
<1>5. containerPool_'[slot] = d
  BY <1>2, <1>4 DEF CacheInv, CacheTypeOK
<1>6. ASSUME NEW i \in 1 .. n, CacheFull => i # n
      PROVE  containerPool_'[keys_[i].value] = containerPool_[keys_[i].value]
  <2>1. keys_[i].value # slot
    <3>1. CASE CacheFull
      <4>1. n \in DOMAIN keys_ /\ i \in DOMAIN keys_ /\ i # n
        BY <1>1, <1>6, <3>1
      <4> QED BY <3>1, <4>1 DEF CacheInv, SlotsDisjoint
    <3>2. CASE ~CacheFull
      BY <1>1, <3>2, CacheInvFacts
    <3> QED BY <3>1, <3>2
  <2> QED BY <1>4, <2>1, CacheInvFacts DEF CacheInv, CacheTypeOK, Slot
<1>7. m \in Nat /\ m = IF n < CacheSize THEN n + 1 ELSE CacheSize
  BY <1>1 DEF AfterInsert
<1>8. m <= n + 1 /\ (CacheFull => m = n)
  BY <1>1, <1>7
<1> HIDE DEF e, slot, m
<1>9. /\ Len(keys_') = m /\ DOMAIN keys_' = 1 .. m /\ keys_'[1] = e
      /\ \A j \in 2 .. m : keys_'[j] = keys_[j - 1]
  <2>1. keys_ \in Seq(Node) /\ n <= CacheSize
    BY <1>1
  <2>2. /\ Len(EmplaceFront(keys_, e)) = m
        /\ DOMAIN EmplaceFront(keys_, e) = 1 .. m
        /\ EmplaceFront(keys_, e)[1] = e
        /\ \A j \in 2 .. m : EmplaceFront(keys_, e)[j] = keys_[j - 1]
    BY <1>3, <1>7, <2>1, EmplaceFrontFacts
  <2> QED BY <1>4, <2>2
<1>10. ASSUME NEW j \in 2 .. m
       PROVE  containerPool_'[keys_[j - 1].value] = containerPool_[keys_[j - 1].value]
  <2>1. j - 1 \in 1 .. n /\ (CacheFull => j - 1 # n)
    BY <1>1, <1>7, <1>8
  <2> QED BY <2>1, <1>6
<1> QED BY <1>3, <1>5, <1>7, <1>8, <1>9, <1>10 DEF m

\* The same for a reader that does not care for places: a node is the new one
\* or an old one with its contents, and with two slots or more the one that
\* was in front stays.
LEMMA InsertKeeps ==
    ASSUME NEW k \in Key, NEW d \in Data, CacheInv, InsertMissing(k, d)
    PROVE  /\ \A j \in DOMAIN keys_' :
                 \/ /\ keys_'[j].key = k
                    /\ containerPool_'[keys_'[j].value] = d
                 \/ \E i \in DOMAIN keys_ :
                       /\ keys_'[j] = keys_[i]
                       /\ containerPool_'[keys_[i].value] = containerPool_[keys_[i].value]
           /\ CacheSize >= 2 /\ keys_ # << >> =>
                 containerPool_'[keys_[1].value] = containerPool_[keys_[1].value]
<1> DEFINE m == AfterInsert
<1>1. m \in Nat /\ m <= Len(keys_) + 1 /\ DOMAIN keys_' = 1 .. m
  BY InsertMoves
<1>2. keys_'[1].key = k /\ containerPool_'[keys_'[1].value] = d
  BY InsertMoves
<1>3. \A j \in 2 .. m :
         /\ keys_'[j] = keys_[j - 1]
         /\ containerPool_'[keys_[j - 1].value] = containerPool_[keys_[j - 1].value]
  BY InsertMoves
<1>4. DOMAIN keys_ = 1 .. Len(keys_) /\ Len(keys_) \in Nat /\ keys_ \in Seq(Node)
  BY CacheInvFacts
<1>5. ASSUME NEW j \in 2 .. m
      PROVE  \E i \in DOMAIN keys_ :
                /\ keys_'[j] = keys_[i]
                /\ containerPool_'[keys_[i].value] = containerPool_[keys_[i].value]
  <2>1. j - 1 \in DOMAIN keys_
    BY <1>1, <1>4
  <2> QED BY <1>3, <2>1
<1>6. ASSUME CacheSize >= 2, keys_ # << >>
      PROVE  containerPool_'[keys_[1].value] = containerPool_[keys_[1].value]
  <2>1. Len(keys_) > 0
    BY <1>4, <1>6
  <2>2. 2 \in 2 .. m
    BY <1>4, <1>6, <2>1, CacheSizeAssumption DEF AfterInsert
  <2> QED BY <1>3, <2>2
<1>7. \A j \in DOMAIN keys_' : j = 1 \/ j \in 2 .. m
  BY <1>1
<1> QED BY <1>2, <1>5, <1>6, <1>7

\* What a read does to the nodes: it puts the one it reads in front.
LEMMA ReadKeeps ==
    ASSUME NEW k, CacheInv, ReadFromCache(k)
    PROVE  /\ \A j \in DOMAIN keys_' : \E i \in DOMAIN keys_ : keys_'[j] = keys_[i]
           /\ keys_' # << >> /\ keys_'[1].value = SlotOf(k)
           /\ UNCHANGED containerPool_
<1> DEFINE n == Len(keys_)
<1>1. keys_ \in Seq(Node) /\ n \in Nat /\ Find(k) \in 1 .. n
  BY FindFacts, CacheInvFacts DEF ReadFromCache
<1>2. /\ Len(keys_') = n /\ DOMAIN keys_' = 1 .. n
      /\ \A j \in 1 .. n :
            keys_'[j] = keys_[IF j = 1 THEN Find(k) ELSE IF j <= Find(k) THEN j - 1 ELSE j]
  BY <1>1, SpliceFrontFacts DEF ReadFromCache
<1>3. ASSUME NEW j \in 1 .. n PROVE \E i \in DOMAIN keys_ : keys_'[j] = keys_[i]
  BY <1>1, <1>2
<1>4. keys_' # << >> /\ keys_'[1] = keys_[Find(k)]
  BY <1>1, <1>2
<1> QED BY <1>2, <1>3, <1>4 DEF ReadFromCache, SlotOf

\* A clear empties the list and frees every slot.
LEMMA ClearInv == CacheInv /\ ClearAllCache => CacheInv'
  BY CacheSizeAssumption
  DEF CacheInv, CacheTypeOK, SlotsDisjoint, FreshSlotFree, ClearAllCache

\* Every operation preserves the cache invariant.
THEOREM CacheStepInv == CacheInv /\ [CacheNext]_cacheVars => CacheInv'
<1> SUFFICES ASSUME CacheInv, [CacheNext]_cacheVars PROVE CacheInv'
  OBVIOUS
<1>1. ASSUME NEW k \in Key, NEW d \in Data, InsertMissing(k, d)
      PROVE  CacheInv'
  BY <1>1, InsertEvictingInv, InsertFreshInv DEF InsertMissing, InsertToCache
<1>2. ASSUME NEW k \in Key, ReadFromCache(k) PROVE CacheInv'
  BY <1>2, ReadInv
<1>3. CASE ClearAllCache
  BY <1>3, ClearInv
<1>4. CASE UNCHANGED cacheVars
  BY <1>4
  DEF cacheVars, CacheInv, CacheTypeOK, SlotsDisjoint, FreshSlotFree
<1> QED BY <1>1, <1>2, <1>3, <1>4 DEF CacheNext

\* No two cached containers ever share a slot, for every number of slots.
THEOREM CacheSlotsDisjoint == CacheSpec => [](SlotsDisjoint /\ FreshSlotFree)
<1>1. CacheInv => SlotsDisjoint /\ FreshSlotFree
  BY DEF CacheInv
<1> QED BY CacheInitInv, CacheStepInv, <1>1, PTL DEF CacheSpec

\* Type correctness of the cache.
THEOREM CacheTypeCorrect == CacheSpec => []CacheTypeOK
<1>1. CacheInv => CacheTypeOK
  BY DEF CacheInv
<1> QED BY CacheInitInv, CacheStepInv, <1>1, PTL DEF CacheSpec

-----------------------------------------------------------------------------
(* The cache implements LRUCache: recent, as the refinement maps it. *)

Recent == [i \in 1 .. Len(keys_) |->
             [name |-> keys_[i].key, contents |-> containerPool_[keys_[i].value]]]

\* The list of the abstract cache, place by place.
LEMMA RecentFacts ==
    ASSUME CacheInv
    PROVE  /\ Len(Recent) = Len(keys_) /\ DOMAIN Recent = 1 .. Len(keys_)
           /\ \A i \in 1 .. Len(keys_) :
                 /\ Recent[i].name = keys_[i].key
                 /\ Recent[i].contents = containerPool_[keys_[i].value]
                 /\ Recent[i] = [name     |-> keys_[i].key,
                                 contents |-> containerPool_[keys_[i].value]]
  BY CacheInvFacts DEF Recent

\* Taking a slot, fresh or evicted, is a plain insertion of the contents.
LEMMA InsertSimulates ==
    ASSUME NEW k \in Key, NEW d \in Data, CacheInv, InsertMissing(k, d)
    PROVE  LRU!Insert(k, d)
<1> DEFINE m == AfterInsert
           e == [name |-> k, contents |-> d]
<1>1. /\ m \in Nat /\ m <= Len(keys_) + 1
      /\ Len(keys_') = m
      /\ keys_'[1].key = k /\ containerPool_'[keys_'[1].value] = d
  BY InsertMoves
<1>2. \A j \in 2 .. m :
         /\ keys_'[j] = keys_[j - 1]
         /\ containerPool_'[keys_[j - 1].value] = containerPool_[keys_[j - 1].value]
  BY InsertMoves
<1>3. \A i \in DOMAIN Recent : Recent[i].name # k
  BY RecentFacts, CacheInvFacts DEF InsertMissing, ExistsInCache
<1>4. m = IF Len(Recent) < CacheSize THEN Len(Recent) + 1 ELSE CacheSize
  BY RecentFacts DEF AfterInsert
<1> HIDE DEF m
<1>5. Recent' = [i \in 1 .. m |-> [name     |-> keys_'[i].key,
                                   contents |-> containerPool_'[keys_'[i].value]]]
  BY <1>1 DEF Recent
<1>6. ASSUME NEW i \in 1 .. m
      PROVE  [name |-> keys_'[i].key, contents |-> containerPool_'[keys_'[i].value]]
               = IF i = 1 THEN e ELSE Recent[i - 1]
  <2>1. CASE i = 1
    BY <1>1, <2>1
  <2>2. CASE i # 1
    <3>1. i \in 2 .. m /\ i - 1 \in 1 .. Len(keys_)
      BY <1>1, <2>2, CacheInvFacts
    <3> QED BY <1>2, <2>2, <3>1, RecentFacts
  <2> QED BY <2>1, <2>2
<1>7. Recent' = [i \in 1 .. m |-> IF i = 1 THEN e ELSE Recent[i - 1]]
  BY <1>5, <1>6, Zenon
<1> QED BY <1>3, <1>4, <1>7 DEF LRU!Insert, LRU!Newest, Recent

\* A read moves the container to the front and changes nothing else.
LEMMA ReadSimulates ==
    ASSUME NEW k \in Key, CacheInv, ReadFromCache(k)
    PROVE  LRU!Read(k)
<1> DEFINE n == Len(keys_)
           p == Find(k)
           from(j) == IF j = 1 THEN p ELSE IF j <= p THEN j - 1 ELSE j
<1>1. /\ keys_ \in Seq(Node) /\ n \in Nat /\ p \in 1 .. n
      /\ keys_[p].key = k
  BY FindFacts, CacheInvFacts DEF ReadFromCache
<1>2. /\ Len(keys_') = n /\ \A j \in 1 .. n : keys_'[j] = keys_[from(j)]
  BY <1>1, SpliceFrontFacts DEF ReadFromCache
<1>3. \A j \in 1 .. n : from(j) \in 1 .. n
  BY <1>1
<1>4. containerPool_' = containerPool_
  BY DEF ReadFromCache
<1> HIDE DEF p
<1>5. p \in DOMAIN Recent /\ Recent[p].name = k
  BY <1>1, RecentFacts
<1>6. Recent' = [j \in 1 .. n |-> [name     |-> keys_'[j].key,
                                   contents |-> containerPool_'[keys_'[j].value]]]
  BY <1>2 DEF Recent
<1>7. ASSUME NEW j \in 1 .. n
      PROVE  [name |-> keys_'[j].key, contents |-> containerPool_'[keys_'[j].value]]
               = IF j = 1 THEN Recent[p] ELSE IF j <= p THEN Recent[j - 1] ELSE Recent[j]
  <2>1. from(j) \in 1 .. n /\ keys_'[j] = keys_[from(j)]
    BY <1>2, <1>3
  <2>2. Recent[from(j)] = [name     |-> keys_'[j].key,
                           contents |-> containerPool_'[keys_'[j].value]]
    BY <2>1, <1>4, RecentFacts
  <2> QED BY <2>2
<1>8. Recent' = [j \in 1 .. n |->
                    IF j = 1 THEN Recent[p]
                    ELSE IF j <= p THEN Recent[j - 1] ELSE Recent[j]]
  BY <1>6, <1>7, Zenon
<1>9. Len(Recent) = n
  BY RecentFacts
<1> QED BY <1>5, <1>8, <1>9 DEF LRU!Read, LRU!Refresh, Recent

\* ImplementsLRU for every number of slots: choosing, evicting and reusing
\* slots never shows to who reads a container by its name.
THEOREM CacheImplementsLRU == CacheSpec => ImplementsLRU
<1>1. CacheInit => LRU!Init
  BY DEF CacheInit, LRU!Init
<1>2. CacheInv /\ [CacheNext]_cacheVars => [LRU!Next]_Recent
  <2> SUFFICES ASSUME CacheInv, [CacheNext]_cacheVars
               PROVE  LRU!Next \/ UNCHANGED Recent
    OBVIOUS
  <2>1. ASSUME NEW k \in Key, NEW d \in Data, InsertMissing(k, d)
        PROVE  LRU!Next
    BY <2>1, InsertSimulates DEF LRU!Next
  <2>2. ASSUME NEW k \in Key, ReadFromCache(k) PROVE LRU!Next
    BY <2>2, ReadSimulates DEF LRU!Next
  <2>3. CASE ClearAllCache
    BY <2>3 DEF ClearAllCache, LRU!Next, LRU!Clear
  <2>4. CASE UNCHANGED cacheVars
    BY <2>4 DEF cacheVars, Recent
  <2> QED BY <2>1, <2>2, <2>3, <2>4 DEF CacheNext
<1> QED BY <1>1, <1>2, CacheInitInv, CacheStepInv, PTL
        DEF CacheSpec, ImplementsLRU, LRU!Spec, Recent
=============================================================================
