------------------------------ MODULE ReadCache ------------------------------
(***************************************************************************)
(* The container read cache (src/src/util/readCache.cc) over the LRU list  *)
(* of src/include/lruCache.h: containerPool_ holds container data in       *)
(* CacheSize slots, keys_ maps a container's name to its slot and orders   *)
(* the names from the most to the least recently used.                     *)
(*                                                                         *)
(* The hash map cache_ of lruCache.h indexes keys_ and holds nothing else, *)
(* so it is the search in keys_ here.  A slot never written holds what     *)
(* malloc returned: Unset.  memcpy replaces the bytes of one container; the *)
(* rest of the slot is never read (DataWrite!HandlesValid).                *)
(***************************************************************************)
EXTENDS Integers, Sequences

CONSTANTS
    Key,        \* container names
    Data,       \* container contents
    CacheSize,  \* CONTAINER_CACHE_SIZE, both maxSize_ and cacheSize_
    Unset       \* the contents of a slot nothing was copied to

ASSUME CacheSizeAssumption == CacheSize \in Nat \ {0}

VARIABLES
    keys_,           \* list_type of lru11::Cache: [key, value], front first
    containerPool_,  \* slot -> contents
    currentIndex_    \* next slot never used since the last clear

cacheVars == <<keys_, containerPool_, currentIndex_>>

Slot == 0 .. CacheSize - 1
Node == [key : Key, value : Slot]

-----------------------------------------------------------------------------
(* lru11::Cache *)

\* contains()
ExistsInCache(k) == \E i \in DOMAIN keys_ : keys_[i].key = k

\* cache_.find(k)
Find(k) == CHOOSE i \in DOMAIN keys_ : keys_[i].key = k

\* keys_.splice(keys_.begin(), keys_, i)
SpliceFront(s, i) ==
    [j \in 1 .. Len(s) |->
        IF j = 1 THEN s[i] ELSE IF j <= i THEN s[j - 1] ELSE s[j]]

\* emplace_front followed by prune(): with elasticity 0 the list is cut
\* back to CacheSize nodes, dropping the back
EmplaceFront(s, e) ==
    [j \in 1 .. (IF Len(s) < CacheSize THEN Len(s) + 1 ELSE CacheSize) |->
        IF j = 1 THEN e ELSE s[j - 1]]

\* Cache::insert: a key already present gets the new value and moves to the
\* front, a new one is put in front
LruInsert(k, v) ==
    keys_' = IF ExistsInCache(k)
             THEN SpliceFront([keys_ EXCEPT ![Find(k)].value = v], Find(k))
             ELSE EmplaceFront(keys_, [key |-> k, value |-> v])

-----------------------------------------------------------------------------
(* ReadCache *)

CacheFull == Len(keys_) + 1 > CacheSize

\* (mutant: the most recent slot is replaced and the back dropped)
InsertEvicting_FrontSlot(k, d) ==
    /\ CacheFull
    /\ containerPool_' = [containerPool_ EXCEPT ![keys_[1].value] = d]
    /\ LruInsert(k, keys_[1].value)
    /\ UNCHANGED currentIndex_

\* the back's slot (pruneValue) is reused; insert drops the back afterwards
InsertEvicting(k, d) ==
    /\ CacheFull
    /\ LET replaceIndex == keys_[Len(keys_)].value IN
         /\ containerPool_' = [containerPool_ EXCEPT ![replaceIndex] = d]
         /\ LruInsert(k, replaceIndex)
    /\ UNCHANGED currentIndex_

InsertFresh(k, d) ==
    /\ ~CacheFull
    /\ containerPool_' = [containerPool_ EXCEPT ![currentIndex_] = d]
    /\ LruInsert(k, currentIndex_)
    /\ currentIndex_' = currentIndex_ + 1

InsertToCache(k, d) == InsertEvicting(k, d) \/ InsertFresh(k, d)

\* get() throws for an absent key; the caller asked ExistsInCache before
SlotOf(k) == keys_[Find(k)].value

\* (mutant: a read that does not count as a use)
ReadFromCache_NoTouch(k) ==
    /\ ExistsInCache(k)
    /\ UNCHANGED cacheVars

ReadFromCache(k) ==
    /\ ExistsInCache(k)
    /\ keys_' = SpliceFront(keys_, Find(k))
    /\ UNCHANGED <<containerPool_, currentIndex_>>

ClearAllCache ==
    /\ keys_' = << >>
    /\ currentIndex_' = 0
    /\ UNCHANGED containerPool_

CacheInit ==
    /\ keys_ = << >>
    /\ containerPool_ = [s \in Slot |-> Unset]
    /\ currentIndex_ = 0

\* the only caller inserts in the branch where ExistsInCache was false
\* (Get_Chunk_Info, src/src/datawrite/datawrite.cc:666-734)
InsertMissing(k, d) == ~ExistsInCache(k) /\ InsertToCache(k, d)

CacheNext ==
    \/ \E k \in Key, d \in Data : InsertMissing(k, d)
    \/ \E k \in Key : ReadFromCache(k)
    \/ ClearAllCache

CacheSpec == CacheInit /\ [][CacheNext]_cacheVars

-----------------------------------------------------------------------------
(* Properties *)

CacheTypeOK ==
    /\ keys_ \in Seq(Node)
    /\ Len(keys_) <= CacheSize
    /\ containerPool_ \in [Slot -> Data \cup {Unset}]
    /\ currentIndex_ \in 0 .. CacheSize

\* No two cached containers share a slot, and no container is cached twice:
\* otherwise one container would be read with the bytes of another one
\* (readCache.cc picks slots by pruneValue and currentIndex_ separately from
\* the list that maps names to them).
SlotsDisjoint ==
    \A i, j \in DOMAIN keys_ :
        (keys_[i].key = keys_[j].key \/ keys_[i].value = keys_[j].value) => i = j

\* The slots in use are exactly those below currentIndex_, so the next fresh
\* slot is free, and inside the pool whenever the list still has room.
FreshSlotFree ==
    /\ currentIndex_ = Len(keys_)
    /\ \A i \in DOMAIN keys_ : keys_[i].value < currentIndex_

\* The cache is an LRU map of the containers' data: choosing, evicting and
\* reusing slots never shows.
LRU == INSTANCE LRUCache
         WITH Name <- Key, Contents <- Data, Capacity <- CacheSize,
              recent <- [i \in 1 .. Len(keys_) |->
                          [name     |-> keys_[i].key,
                           contents |-> containerPool_[keys_[i].value]]]
ImplementsLRU == LRU!Spec
=============================================================================
