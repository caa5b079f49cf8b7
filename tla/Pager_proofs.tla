---------------------------- MODULE Pager_proofs ----------------------------
(***************************************************************************)
(* Pager for every number of pages, every size of the pool and everything  *)
(* that can be written to a page: the types, what the pool promises its    *)
(* callers, the confinement of what pages that share a frame lose, and     *)
(* that for the pages that have a frame to themselves the pager implements *)
(* PageStore.                                                              *)
(***************************************************************************)
EXTENDS Pager, LRUCacheOps_proofs

Pools == [Frames -> [pageId : PageIds \union {0}, isDirty : BOOLEAN, content : Contents]]

\* A page that is alone in its frame has its latest content there while it is
\* cached, and on disk while it is not, or is clean; a slot never written has
\* an empty page's content, and so has the frame; a flush leaves no page behind
\* it dirty.  The handler may find the contents of an operation that never ended,
\* but only in clean frames.
Safe ==
  \A p \in PageIds : Alone(p) =>
    /\ p \in Cached(cache) /\ (frames[FrameOf(p)].isDirty \/ exiting # "handler")
         => frames[FrameOf(p)].content = latest[p]
    /\ p \notin Cached(cache) \/ ~ frames[FrameOf(p)].isDirty => OnDisk(p) = latest[p]
    /\ p \notin Cached(cache) /\ disk[p] = Unwritten /\ exiting # "handler"
         => frames[FrameOf(p)].content = Blank
    /\ pc = "flushing" /\ p < flushNext /\ p \in Cached(cache) => ~ frames[FrameOf(p)].isDirty

\* The count on disk is that of a running process, or one less if the handler cut
\* into an allocation; a page being allocated is the one behind the last and stays
\* cached; who exits is flushing.
Counted ==
  /\ pc \in {"idle", "allocating"} => superblock = totalPages
  /\ pc = "flushing" => \/ superblock = totalPages
                        \/ exiting = "handler" /\ totalPages = superblock + 1
  /\ pc = "allocating" => totalPages + 1 < MaxPages /\ totalPages + 1 \in Cached(cache)
  /\ exiting # "none" => pc = "flushing"

\* No page has two nodes, and a cached page is one whose frame was filled for it.
Listed == NoRepeats(cache.lruList) /\ Cached(cache) \subseteq used

IInv == TypeOK /\ PoolIsSound /\ Confined /\ Safe /\ Counted /\ Listed

(***************************************************************************)
(* Frames and contents.                                                    *)
(***************************************************************************)
\* Every page has a frame of the pool.
LEMMA FrameOfInFrames == \A p \in PageIds : FrameOf(p) \in Frames
<1> SUFFICES ASSUME NEW p \in PageIds PROVE FrameOf(p) \in Frames
  OBVIOUS
<1>1. p \in Nat /\ Capacity \in Nat \ {0} /\ Frames = 0 .. Capacity - 1
  BY CapacityAssumption, PagerAssumption
<1>2. p % Capacity \in 0 .. Capacity - 1
  BY <1>1
<1> QED
  BY <1>1, <1>2 DEF FrameOf

\* A cached page is in its own frame and not pinned.
LEMMA CachedEntry ==
  ASSUME PoolIsSound, NEW q \in Cached(cache)
  PROVE  /\ q \in PageIds
         /\ FrameIn(cache, q) = FrameOf(q)
         /\ ~ cache.hashTable[q].pinned
<1>1. q \in PageIds
  BY DEF Cached
<1>2. cache.hashTable[q] = [page |-> FrameOf(q), pinned |-> FALSE]
  BY DEF PoolIsSound
<1>3. cache.hashTable[q].page = FrameOf(q) /\ cache.hashTable[q].pinned = FALSE
  BY <1>2
<1> QED
  BY <1>1, <1>3 DEF FrameIn

\* What is on disk for a page is a content.
LEMMA OnDiskIsContent ==
  ASSUME TypeOK, NEW p \in PageIds
  PROVE  /\ OnDisk(p) \in Contents
         /\ disk[p] # Unwritten => disk[p] \in Contents
  BY SlotAssumption DEF TypeOK, OnDisk, Contents

\* A fetch gets a content of the pages of the frame, and of a page that is alone
\* in it the latest.
LEMMA LoadedFacts ==
  ASSUME TypeOK, Confined, Safe, NEW p \in PageIds
  PROVE  /\ Loaded(p) \in Contents
         /\ Loaded(p) # Blank => FrameOf(Loaded(p)[1]) = FrameOf(p)
         /\ LoadedDirty(p) \in BOOLEAN
         /\ Alone(p) /\ p \notin Cached(cache) /\ exiting # "handler" => Loaded(p) = latest[p]
<1>1. FrameOf(p) \in Frames
  BY FrameOfInFrames
<1>2. /\ OnDisk(p) \in Contents
      /\ frames[FrameOf(p)].content \in Contents
      /\ frames[FrameOf(p)].isDirty \in BOOLEAN
  BY <1>1, OnDiskIsContent DEF TypeOK
<1>3. Loaded(p) \in Contents /\ LoadedDirty(p) \in BOOLEAN
  BY <1>2 DEF Loaded, LoadedDirty
<1>4. Loaded(p) # Blank => FrameOf(Loaded(p)[1]) = FrameOf(p)
  BY <1>1 DEF Loaded, Confined
<1>5. ASSUME Alone(p), p \notin Cached(cache), exiting # "handler"
      PROVE  Loaded(p) = latest[p]
  <2>1. CASE PastTheEnd(p)
    <3>1. p >= p
      BY PagerAssumption
    <3>2. disk[p] = Unwritten
      BY <2>1, <3>1 DEF PastTheEnd
    <3> QED
      BY <1>5, <2>1, <3>2 DEF Loaded, Safe, OnDisk
  <2>2. CASE ~ PastTheEnd(p)
    BY <1>5, <2>2 DEF Loaded, Safe
  <2> QED
    BY <2>1, <2>2
<1> QED
  BY <1>3, <1>4, <1>5

\* A reader of a page that is alone in its frame is given its latest content.
LEMMA ViewIsLatest ==
  ASSUME IInv, NEW p \in PageIds, Alone(p), exiting # "handler"
  PROVE  View(p) = latest[p]
<1>1. CASE p \in Cached(cache)
  <2>1. FrameIn(cache, p) = FrameOf(p)
    BY <1>1, CachedEntry DEF IInv
  <2> QED
    BY <1>1, <2>1 DEF View, IInv, Safe
<1>2. CASE p \notin Cached(cache)
  BY <1>2, LoadedFacts DEF View, IInv
<1> QED
  BY <1>1, <1>2

(***************************************************************************)
(* putPage, whole or cut.                                                  *)
(***************************************************************************)
\* Page p is in its frame of the pool pool, the pages out are written out, and
\* the cache has lost at most clean pages and some of these.
Fills(pool, p, out) ==
  /\ cache' \in CacheType /\ cache'.size <= Capacity /\ NoRepeats(cache'.lruList)
  /\ \A q \in Cached(cache') : cache'.hashTable[q] = [page |-> FrameOf(q), pinned |-> FALSE]
  /\ Cached(cache') \subseteq Cached(cache) \union {p}
  /\ out \subseteq Cached(cache) \ {p}
  /\ \A q \in Cached(cache) \ Cached(cache') : q \notin out => ~ pool[FrameOf(q)].isDirty
  /\ frames' = PoolAfter(pool, out)
  /\ disk' = DiskAfter(pool, out)

\* With nothing written out the pool and the file are what they were.
LEMMA NothingOut ==
  ASSUME TypeOK, NEW pool \in Pools
  PROVE  PoolAfter(pool, {}) = pool /\ DiskAfter(pool, {}) = disk
<1>1. PoolAfter(pool, {}) = [f \in Frames |-> pool[f]]
  BY DEF PoolAfter
<1>2. DiskAfter(pool, {}) = [q \in PageIds |-> disk[q]]
  BY DEF DiskAfter
<1> QED
  BY <1>1, <1>2 DEF TypeOK, Pools

\* What writePage does to the pool and to the file: a page that is written out goes
\* to its own slot, from its own frame, which is then clean.
LEMMA WritesOut ==
  ASSUME TypeOK, PoolIsSound, NEW pool \in Pools, NEW out, out \subseteq Cached(cache),
         frames' = PoolAfter(pool, out), disk' = DiskAfter(pool, out)
  PROVE  /\ frames' \in Pools
         /\ \A f \in Frames : /\ frames'[f].content = pool[f].content
                              /\ ~ pool[f].isDirty => ~ frames'[f].isDirty
                              /\ pool[f].isDirty /\ ~ frames'[f].isDirty
                                   => \E q \in out : FrameOf(q) = f
         /\ \A q \in PageIds \ out : disk'[q] = disk[q]
         /\ \A q \in out : disk'[q] = pool[FrameOf(q)].content
         /\ disk' \in [PageIds -> Contents \union {Unwritten}]
<1>1. \A q \in out : q \in PageIds /\ FrameIn(cache, q) = FrameOf(q) /\ FrameOf(q) \in Frames
  BY CachedEntry, FrameOfInFrames
<1>2. /\ frames' \in Pools
      /\ \A f \in Frames : /\ frames'[f].content = pool[f].content
                           /\ ~ pool[f].isDirty => ~ frames'[f].isDirty
                           /\ pool[f].isDirty /\ ~ frames'[f].isDirty
                                => \E q \in out : FrameOf(q) = f
  <2>1. frames' = [f \in Frames |-> IF \E v \in out : FrameIn(cache, v) = f
                                    THEN [pool[f] EXCEPT !.isDirty = FALSE] ELSE pool[f]]
    BY DEF PoolAfter
  <2>2. ASSUME NEW f \in Frames
        PROVE  /\ frames'[f] \in [pageId : PageIds \union {0}, isDirty : BOOLEAN, content : Contents]
               /\ frames'[f].content = pool[f].content
               /\ ~ pool[f].isDirty => ~ frames'[f].isDirty
               /\ pool[f].isDirty /\ ~ frames'[f].isDirty => \E q \in out : FrameOf(q) = f
    <3>1. pool[f] \in [pageId : PageIds \union {0}, isDirty : BOOLEAN, content : Contents]
      BY DEF Pools
    <3>2. CASE \E v \in out : FrameIn(cache, v) = f
      <4>1. frames'[f] = [pool[f] EXCEPT !.isDirty = FALSE]
        BY <2>1, <3>2
      <4> QED
        BY <1>1, <3>1, <3>2, <4>1
    <3>3. CASE ~ \E v \in out : FrameIn(cache, v) = f
      <4>1. frames'[f] = pool[f]
        BY <2>1, <3>3
      <4> QED
        BY <3>1, <4>1
    <3> QED
      BY <3>2, <3>3
  <2> QED
    BY <2>1, <2>2 DEF Pools
<1>3. /\ \A q \in PageIds \ out : disk'[q] = disk[q]
      /\ \A q \in out : disk'[q] = pool[FrameOf(q)].content
      /\ disk' \in [PageIds -> Contents \union {Unwritten}]
  <2>1. disk' = [q \in PageIds |-> IF q \in out THEN pool[FrameIn(cache, q)].content ELSE disk[q]]
    BY DEF DiskAfter
  <2>2. \A q \in out : pool[FrameOf(q)].content \in Contents
    BY <1>1 DEF Pools
  <2>3. \A q \in PageIds : disk[q] \in Contents \union {Unwritten}
    BY DEF TypeOK
  <2> QED
    BY <1>1, <2>1, <2>2, <2>3
<1> QED
  BY <1>2, <1>3

\* isDirty of the victim is a truth value, which evictLRU tests.
LEMMA VictimDirtyIsBoolean ==
  ASSUME PoolIsSound, NEW pool \in Pools
  PROVE  VictimDirty(cache, pool) \in BOOLEAN
<1>1. CASE CanEvict(cache)
  <2>1. Victim(cache) \in Cached(cache)
    BY <1>1 DEF CanEvict
  <2>2. pool[FrameIn(cache, Victim(cache))].isDirty \in BOOLEAN
    BY <2>1, CachedEntry, FrameOfInFrames DEF Pools
  <2> QED
    BY <1>1, <2>2 DEF VictimDirty
<1>2. CASE ~ CanEvict(cache)
  BY <1>2 DEF VictimDirty
<1> QED
  BY <1>1, <1>2

\* The victim is a cached page, and unless it is dirty it is not written out.
LEMMA WrittenBackFacts ==
  ASSUME TypeOK, PoolIsSound, Agree(cache), NEW pool \in Pools, NEW p \in PageIds
  PROVE  /\ Evicts(cache, p) \subseteq Cached(cache) \ {p}
         /\ WrittenBack(cache, pool, p) \subseteq Evicts(cache, p)
         /\ \A q \in Evicts(cache, p) \ WrittenBack(cache, pool, p) : ~ pool[FrameOf(q)].isDirty
<1>1. Evicts(cache, p) \subseteq Cached(cache) \ {p}
  BY DEF Evicts, CanEvict
<1> QED
  BY <1>1, CachedEntry DEF WrittenBack

\* putPage keeps the cache within the pool and puts page p in it.
LEMMA PutIntoFacts ==
  ASSUME TypeOK, PoolIsSound, Agree(cache), NEW pool \in Pools, NEW p \in PageIds,
         PutInto(pool, p)
  PROVE  /\ Fills(pool, p, WrittenBack(cache, pool, p))
         /\ Agree(cache')
         /\ p \in Cached(cache')
<1> DEFINE dirty == VictimDirty(cache, pool)
<1>1. /\ cache \in CacheType /\ cache.size <= Capacity /\ cache.size \in Nat
      /\ \A q \in Cached(cache) : cache.hashTable[q] = [page |-> FrameOf(q), pinned |-> FALSE]
      /\ \A q \in PageIds : FrameOf(q) \in Frames
      /\ \A q \in Cached(cache) : q \in PageIds
      /\ dirty \in BOOLEAN
  BY FrameOfInFrames, VictimDirtyIsBoolean DEF TypeOK, PoolIsSound, CacheType, Cached
<1>2. /\ cache' = PutPage(cache, p, FrameOf(p), dirty)
      /\ frames' = PoolAfter(pool, WrittenBack(cache, pool, p))
      /\ disk' = DiskAfter(pool, WrittenBack(cache, pool, p))
  BY DEF PutInto
<1> HIDE DEF dirty
<1>3. /\ cache' \in CacheType /\ Agree(cache') /\ cache'.size <= Capacity
      /\ \A q \in Cached(cache') : cache'.hashTable[q] = [page |-> FrameOf(q), pinned |-> FALSE]
      /\ p \in Cached(cache')
      /\ Cached(cache') \subseteq Cached(cache) \union {p}
      /\ Cached(cache) \ Cached(cache') \subseteq Evicts(cache, p)
  <2>1. CASE p \in Cached(cache)
    <3>1. cache' = GetPage(cache, p)
      BY <1>2, <2>1 DEF PutPage
    <3>2. /\ cache' \in CacheType /\ Agree(cache')
          /\ cache'.hashTable = cache.hashTable /\ cache'.size = cache.size
      BY <1>1, <2>1, <3>1, GetPageFacts
    <3>3. Cached(cache') = Cached(cache)
      BY <3>2 DEF Cached
    <3> QED
      BY <1>1, <2>1, <3>2, <3>3
  <2>2. CASE p \notin Cached(cache)
    <3>2. /\ cache' \in CacheType /\ Agree(cache')
          /\ cache'.hashTable = [Room(cache, dirty).hashTable
                                   EXCEPT ![p] = [page |-> FrameOf(p), pinned |-> FALSE]]
          /\ cache'.size = Room(cache, dirty).size + 1
          /\ Cached(cache') = (Cached(cache) \ Evicts(cache, p)) \union {p}
      BY <1>1, <1>2, <2>2, PutPageFacts
    <3>3. /\ Room(cache, dirty) \in CacheType
          /\ Evicts(cache, p) = {} => Room(cache, dirty) = cache
          /\ Evicts(cache, p) # {} =>
               /\ CanEvict(cache)
               /\ Evicts(cache, p) = {Victim(cache)}
               /\ Room(cache, dirty) = EvictLRU(cache, dirty)
      BY <1>1, <2>2, RoomFacts
    <3>4. CanEvict(cache) =>
            /\ Victim(cache) \in Cached(cache)
            /\ EvictLRU(cache, dirty).hashTable = [cache.hashTable EXCEPT ![Victim(cache)] = NoEntry]
            /\ EvictLRU(cache, dirty).size = cache.size - 1
      BY <1>1, EvictLRUFacts
    <3>5. cache'.size <= Capacity
      <4>1. CASE Evicts(cache, p) = {}
        <5>1. cache.size < Capacity
          <6> SUFFICES ASSUME cache.size >= Capacity
                       PROVE  CanEvict(cache)
            BY <1>1, <2>2, <4>1, CapacityAssumption DEF Evicts
          <6>1. Len(cache.lruList) >= 1 /\ cache.lruList \in Seq(PageIds)
            BY <1>1, CapacityAssumption DEF Agree, CacheType
          <6>2. Victim(cache) = cache.lruList[Len(cache.lruList)] /\ cache.lruList # << >>
            BY <6>1 DEF Victim, Last
          <6>3. Victim(cache) \in Cached(cache)
            BY <6>1, <6>2 DEF Agree
          <6>4. ~ cache.hashTable[Victim(cache)].pinned
            BY <6>3, CachedEntry
          <6> QED
            BY <6>2, <6>3, <6>4 DEF CanEvict
        <5> QED
          BY <1>1, <3>2, <3>3, <4>1, <5>1, CapacityAssumption
      <4>2. CASE Evicts(cache, p) # {}
        BY <1>1, <3>2, <3>3, <3>4, <4>2, CapacityAssumption
      <4> QED
        BY <4>1, <4>2
    <3>6. \A q \in Cached(cache') : cache'.hashTable[q] = [page |-> FrameOf(q), pinned |-> FALSE]
      <4> SUFFICES ASSUME NEW q \in Cached(cache')
                   PROVE  cache'.hashTable[q] = [page |-> FrameOf(q), pinned |-> FALSE]
        OBVIOUS
      <4>1. Room(cache, dirty).hashTable \in [PageIds -> CacheEntry \union {NoEntry}]
        BY <3>3 DEF CacheType
      <4>2. CASE q = p
        BY <3>2, <4>1, <4>2
      <4>3. CASE q # p
        <5>1. q \in Cached(cache) /\ q \notin Evicts(cache, p) /\ q \in PageIds
          BY <1>1, <3>2, <4>3
        <5>2. cache'.hashTable[q] = Room(cache, dirty).hashTable[q]
          BY <3>2, <4>1, <4>3, <5>1
        <5>3. Room(cache, dirty).hashTable[q] = cache.hashTable[q]
          BY <1>1, <3>3, <3>4, <5>1 DEF CacheType
        <5> QED
          BY <1>1, <5>1, <5>2, <5>3
      <4> QED
        BY <4>2, <4>3
    <3> QED
      BY <2>2, <3>2, <3>5, <3>6
  <2> QED
    BY <2>1, <2>2
<1>4. NoRepeats(cache'.lruList)
  BY <1>3 DEF Agree, NoRepeats
<1> QED
  BY <1>2, <1>3, <1>4, WrittenBackFacts DEF Fills

\* A putPage that is cut puts no page in the cache.
LEMMA CutPutFacts ==
  ASSUME TypeOK, PoolIsSound, Agree(cache), NEW pool \in Pools, NEW p \in PageIds,
         CutPut(pool, p)
  PROVE  /\ \E out : Fills(pool, p, out)
         /\ p \notin Cached(cache')
         /\ OnDisk(p)' = OnDisk(p)
<1> DEFINE dirty == VictimDirty(cache, pool)
           back == WrittenBack(cache, pool, p)
<1>1. PICK out \in {{}, back} :
        /\ p \notin Cached(cache)
        /\ cache' \in MidPut(cache, p, dirty)
        /\ cache' = cache \/ out = back
        /\ frames' = PoolAfter(pool, out)
        /\ disk' = DiskAfter(pool, out)
  BY DEF CutPut
<1>2. cache \in CacheType /\ cache.size \in Nat /\ cache.size <= Capacity /\ dirty \in BOOLEAN
  BY VictimDirtyIsBoolean DEF TypeOK, PoolIsSound, CacheType
<1> HIDE DEF dirty
<1>3. /\ cache' \in CacheType /\ NoRepeats(cache'.lruList) /\ cache'.size <= cache.size
      /\ Cached(cache') \subseteq Cached(cache)
      /\ Cached(cache) \ Cached(cache') \subseteq Evicts(cache, p)
      /\ \A q \in Cached(cache') : cache'.hashTable[q] = cache.hashTable[q]
  BY <1>1, <1>2, MidPutFacts
<1>4. cache'.size <= Capacity
  <2>1. cache'.size \in Nat
    BY <1>3 DEF CacheType
  <2> QED
    BY <1>2, <1>3, <2>1, CapacityAssumption
<1>5. /\ out \subseteq Cached(cache) \ {p}
      /\ \A q \in Cached(cache) \ Cached(cache') : q \notin out => ~ pool[FrameOf(q)].isDirty
  BY <1>1, <1>3, WrittenBackFacts
<1>6. \A q \in Cached(cache') : cache'.hashTable[q] = [page |-> FrameOf(q), pinned |-> FALSE]
  BY <1>3 DEF PoolIsSound
<1>7. Fills(pool, p, out)
  BY <1>1, <1>3, <1>4, <1>5, <1>6 DEF Fills
<1>8. disk'[p] = disk[p]
  BY <1>1, <1>5, WritesOut
<1> QED
  BY <1>1, <1>3, <1>7, <1>8 DEF OnDisk

(***************************************************************************)
(* Operations that put a content into a frame.                             *)
(***************************************************************************)
\* Some of the pages that are still alone in their frames go to disk, with their
\* latest content, and no other content of theirs gets there.
Persists ==
  \E S \in SUBSET PageIds :
    \A q \in PageIds : Alone(q)' => OnDisk(q)' = IF q \in S THEN latest[q] ELSE OnDisk(q)

\* If no slot changes none is persisted.
LEMMA NothingPersists ==
  ASSUME disk' = disk
  PROVE  Persists
<1>1. {} \in SUBSET PageIds
  OBVIOUS
<1>2. \A q \in PageIds : OnDisk(q)' = OnDisk(q)
  BY DEF OnDisk
<1> QED
  BY <1>1, <1>2 DEF Persists

\* A page that is alone in its frame after page p was used was so before, and does
\* not share a frame with p.
LEMMA AloneBefore ==
  ASSUME NEW p \in PageIds, used' = used \union {p}, NEW q \in PageIds, Alone(q)'
  PROVE  Alone(q) /\ (q # p => FrameOf(q) # FrameOf(p))
<1>1. \A r \in used' : FrameOf(r) = FrameOf(q) => r = q
  BY DEF Alone, FrameOf
<1> QED
  BY <1>1 DEF Alone

\* Whatever is put into the frame of page p, and wherever it is cut, the other
\* pages that are alone keep their latest content, and p has its own if what is
\* in a dirty frame is the latest and what is on disk is while it is not dirty.
LEMMA FillKeeps ==
  ASSUME IInv, NEW p \in PageIds, NEW pool \in Pools, NEW out, Fills(pool, p, out),
         exiting # "handler",
         \A f \in Frames \ {FrameOf(p)} : pool[f] = frames[f],
         pool[FrameOf(p)].content # Blank => FrameOf(pool[FrameOf(p)].content[1]) = FrameOf(p),
         used' = used \union {p},
         \A q \in PageIds \ {p} : latest'[q] = latest[q],
         pc' = "flushing" => flushNext' = 1,
         p \in Cached(cache') \/ exiting' = "handler",
         Alone(p) =>
           /\ p \in Cached(cache') /\ (pool[FrameOf(p)].isDirty \/ exiting' # "handler")
                => pool[FrameOf(p)].content = latest'[p]
           /\ p \notin Cached(cache') \/ ~ pool[FrameOf(p)].isDirty => OnDisk(p) = latest'[p]
  PROVE  /\ frames' \in Pools
         /\ disk' \in [PageIds -> Contents \union {Unwritten}]
         /\ Confined' /\ Safe' /\ Listed' /\ Persists
<1>1. /\ TypeOK /\ PoolIsSound /\ Confined /\ Safe
      /\ FrameOf(p) \in Frames
      /\ \A q \in PageIds : FrameOf(q) \in Frames
      /\ Cached(cache) \subseteq used
  BY FrameOfInFrames DEF IInv, Listed
<1>2. /\ NoRepeats(cache'.lruList)
      /\ Cached(cache') \subseteq Cached(cache) \union {p}
      /\ out \subseteq Cached(cache) \ {p}
      /\ \A q \in Cached(cache) \ Cached(cache') : q \notin out => ~ pool[FrameOf(q)].isDirty
      /\ frames' = PoolAfter(pool, out)
      /\ disk' = DiskAfter(pool, out)
  BY DEF Fills
<1>3. /\ frames' \in Pools
      /\ \A f \in Frames : /\ frames'[f].content = pool[f].content
                           /\ ~ pool[f].isDirty => ~ frames'[f].isDirty
                           /\ pool[f].isDirty /\ ~ frames'[f].isDirty
                                => \E q \in out : FrameOf(q) = f
      /\ \A q \in PageIds \ out : disk'[q] = disk[q]
      /\ \A q \in out : disk'[q] = pool[FrameOf(q)].content
      /\ disk' \in [PageIds -> Contents \union {Unwritten}]
  BY <1>1, <1>2, WritesOut
<1>4. Listed'
  BY <1>1, <1>2 DEF Listed
<1>5. out \subseteq PageIds /\ out \subseteq used
  BY <1>1, <1>2 DEF Cached
<1>6. Confined'
  <2>1. \A f \in Frames : pool[f].content # Blank => FrameOf(pool[f].content[1]) = f
    BY <1>1 DEF Confined
  <2>2. \A f \in Frames : frames'[f].content # Blank => FrameOf(frames'[f].content[1]) = f
    BY <1>3, <2>1
  <2>3. ASSUME NEW q \in PageIds, OnDisk(q)' # Blank
        PROVE  FrameOf(OnDisk(q)'[1]) = FrameOf(q)
    <3>1. CASE q \in out
      <4>1. disk'[q] = pool[FrameOf(q)].content
        BY <1>3, <3>1
      <4>2. OnDisk(q)' = pool[FrameOf(q)].content
        BY <2>3, <4>1 DEF OnDisk
      <4> QED
        BY <1>1, <2>1, <2>3, <4>2
    <3>2. CASE q \notin out
      <4>1. OnDisk(q)' = OnDisk(q)
        BY <1>3, <3>2 DEF OnDisk
      <4> QED
        BY <1>1, <2>3, <4>1 DEF Confined
    <3> QED
      BY <3>1, <3>2
  <2> QED
    BY <2>2, <2>3 DEF Confined, FrameOf
<1>7. ASSUME NEW q \in PageIds, q # p, Alone(q)'
      PROVE  /\ Alone(q)
             /\ pool[FrameOf(q)] = frames[FrameOf(q)]
             /\ q \in out => /\ disk'[q] # Unwritten
                             /\ OnDisk(q)' = latest[q]
             /\ q \notin out => disk'[q] = disk[q] /\ OnDisk(q)' = OnDisk(q)
  <2>1. Alone(q) /\ FrameOf(q) # FrameOf(p)
    BY <1>7, AloneBefore
  <2>2. pool[FrameOf(q)] = frames[FrameOf(q)]
    BY <1>1, <2>1
  <2>3. ASSUME q \in out
        PROVE  disk'[q] # Unwritten /\ OnDisk(q)' = latest[q]
    <3>1. frames[FrameOf(q)].content = latest[q]
      BY <1>1, <1>2, <2>1, <2>3 DEF Safe
    <3>2. disk'[q] = latest[q]
      BY <1>3, <2>2, <2>3, <3>1
    <3>3. latest[q] \in Contents
      BY <1>1 DEF TypeOK
    <3> QED
      BY <3>2, <3>3, SlotAssumption DEF OnDisk
  <2>4. q \notin out => disk'[q] = disk[q] /\ OnDisk(q)' = OnDisk(q)
    BY <1>3 DEF OnDisk
  <2> QED
    BY <2>1, <2>2, <2>3, <2>4
<1>8. disk'[p] = disk[p] /\ OnDisk(p)' = OnDisk(p)
  BY <1>2, <1>3 DEF OnDisk
<1>9. Safe'
  <2> SUFFICES ASSUME NEW q \in PageIds, Alone(q)'
               PROVE  /\ q \in Cached(cache') /\ (frames'[FrameOf(q)].isDirty \/ exiting' # "handler")
                           => frames'[FrameOf(q)].content = latest'[q]
                      /\ q \notin Cached(cache') \/ ~ frames'[FrameOf(q)].isDirty
                           => OnDisk(q)' = latest'[q]
                      /\ q \notin Cached(cache') /\ disk'[q] = Unwritten /\ exiting' # "handler"
                           => frames'[FrameOf(q)].content = Blank
    <3>1. pc' = "flushing" => \A r \in PageIds : ~ r < flushNext'
      BY PagerAssumption
    <3> QED
      BY <3>1 DEF Safe, FrameOf
  <2>1. CASE q = p
    <3>1. Alone(p)
      BY <2>1, AloneBefore
    <3>2. frames'[FrameOf(p)].isDirty = pool[FrameOf(p)].isDirty
      <4>1. ASSUME pool[FrameOf(p)].isDirty, ~ frames'[FrameOf(p)].isDirty
            PROVE  FALSE
        <5>1. PICK v \in out : FrameOf(v) = FrameOf(p)
          BY <1>1, <1>3, <4>1
        <5>2. v = p
          BY <1>5, <3>1, <5>1 DEF Alone
        <5> QED
          BY <1>2, <5>1, <5>2
      <4>2. pool[FrameOf(p)].isDirty \in BOOLEAN /\ frames'[FrameOf(p)].isDirty \in BOOLEAN
        BY <1>1, <1>3 DEF Pools
      <4> QED
        BY <1>1, <1>3, <4>1, <4>2
    <3>3. frames'[FrameOf(p)].content = pool[FrameOf(p)].content
      BY <1>1, <1>3
    <3> QED
      BY <1>8, <2>1, <3>1, <3>2, <3>3
  <2>2. CASE q # p
    <3>1. /\ Alone(q)
          /\ pool[FrameOf(q)] = frames[FrameOf(q)]
          /\ q \in out => disk'[q] # Unwritten /\ OnDisk(q)' = latest[q]
          /\ q \notin out => disk'[q] = disk[q] /\ OnDisk(q)' = OnDisk(q)
          /\ latest'[q] = latest[q]
      BY <1>7, <2>2
    <3>2. /\ FrameOf(q) \in Frames
          /\ frames'[FrameOf(q)].content = frames[FrameOf(q)].content
          /\ q \in Cached(cache') => q \in Cached(cache)
      BY <1>1, <1>2, <1>3, <2>2, <3>1
    <3>3. q \in Cached(cache') => frames'[FrameOf(q)].content = latest'[q]
      BY <1>1, <3>1, <3>2 DEF Safe
    <3>4. ASSUME q \notin Cached(cache') \/ ~ frames'[FrameOf(q)].isDirty, q \notin out
          PROVE  q \notin Cached(cache) \/ ~ frames[FrameOf(q)].isDirty
      <4>1. CASE q \in Cached(cache) \ Cached(cache')
        BY <1>2, <3>1, <3>4, <4>1
      <4>2. CASE q \in Cached(cache) /\ ~ frames'[FrameOf(q)].isDirty
        <5> SUFFICES ASSUME frames[FrameOf(q)].isDirty PROVE FALSE
          OBVIOUS
        <5>1. PICK v \in out : FrameOf(v) = FrameOf(q)
          BY <1>3, <3>1, <3>2, <4>2
        <5>2. v = q
          BY <1>5, <3>1, <5>1 DEF Alone
        <5> QED
          BY <3>4, <5>1, <5>2
      <4> QED
        BY <3>4, <4>1, <4>2
    <3>5. q \notin Cached(cache') \/ ~ frames'[FrameOf(q)].isDirty => OnDisk(q)' = latest'[q]
      BY <1>1, <3>1, <3>4 DEF Safe
    <3>6. ASSUME q \notin Cached(cache'), disk'[q] = Unwritten
          PROVE  frames'[FrameOf(q)].content = Blank
      <4>1. q \notin out /\ disk[q] = Unwritten
        BY <3>1, <3>6
      <4>2. CASE q \notin Cached(cache)
        BY <1>1, <3>1, <3>2, <4>1, <4>2 DEF Safe
      <4>3. CASE q \in Cached(cache)
        <5>1. OnDisk(q) = latest[q] /\ frames[FrameOf(q)].content = latest[q]
          BY <1>1, <3>1, <3>4, <3>6, <4>1, <4>3 DEF Safe
        <5> QED
          BY <3>2, <4>1, <5>1 DEF OnDisk
      <4> QED
        BY <4>2, <4>3
    <3> QED
      BY <3>3, <3>5, <3>6
  <2> QED
    BY <2>1, <2>2
<1>10. Persists
  <2>1. ASSUME NEW q \in PageIds, Alone(q)'
        PROVE  OnDisk(q)' = IF q \in out THEN latest[q] ELSE OnDisk(q)
    <3>1. CASE q = p
      BY <1>2, <1>8, <3>1
    <3>2. CASE q # p
      BY <1>7, <2>1, <3>2
    <3> QED
      BY <3>1, <3>2
  <2> QED
    BY <1>5, <2>1 DEF Persists
<1> QED
  BY <1>3, <1>4, <1>6, <1>9, <1>10

\* An operation that leaves cache and file alone and changes a frame in place.
LEMMA InPlace ==
  ASSUME IInv, NEW p \in PageIds, NEW pool \in Pools,
         cache' = cache, disk' = disk, frames' = pool
  PROVE  Fills(pool, p, {})
<1>1. /\ cache \in CacheType /\ cache.size <= Capacity /\ NoRepeats(cache.lruList)
      /\ \A q \in Cached(cache) : cache.hashTable[q] = [page |-> FrameOf(q), pinned |-> FALSE]
  BY DEF IInv, TypeOK, PoolIsSound, Listed
<1>2. PoolAfter(pool, {}) = pool /\ DiskAfter(pool, {}) = disk
  BY NothingOut DEF IInv
<1> QED
  BY <1>1, <1>2 DEF Fills

\* The pool with another content in page p's frame.
LEMMA FilledFacts ==
  ASSUME TypeOK, NEW p \in PageIds, NEW d \in BOOLEAN, Loaded(p) \in Contents
  PROVE  /\ Filled(p, d) \in Pools
         /\ Filled(p, d)[FrameOf(p)].content = Loaded(p) /\ Filled(p, d)[FrameOf(p)].isDirty = d
         /\ \A f \in Frames \ {FrameOf(p)} : Filled(p, d)[f] = frames[f]
<1>1. FrameOf(p) \in Frames
  BY FrameOfInFrames
<1> QED
  BY <1>1 DEF TypeOK, Pools, Filled

LEMMA EmptiedFacts ==
  ASSUME TypeOK, NEW p \in PageIds, NEW d \in BOOLEAN
  PROVE  /\ Emptied(p, d) \in Pools
         /\ Emptied(p, d)[FrameOf(p)].content = Blank /\ Emptied(p, d)[FrameOf(p)].isDirty = d
         /\ \A f \in Frames \ {FrameOf(p)} : Emptied(p, d)[f] = frames[f]
<1>1. FrameOf(p) \in Frames
  BY FrameOfInFrames
<1> QED
  BY <1>1 DEF TypeOK, Pools, Emptied, Contents

\* SIGINT in the middle of an operation on the frame of page p.
LEMMA CutIInv ==
  ASSUME IInv, pc = "idle", Cut, UNCHANGED << totalPages, superblock >>,
         NEW p \in PageIds, NEW pool \in Pools, NEW out, Fills(pool, p, out),
         \A f \in Frames \ {FrameOf(p)} : pool[f] = frames[f],
         pool[FrameOf(p)].content # Blank => FrameOf(pool[FrameOf(p)].content[1]) = FrameOf(p),
         used' = used \union {p},
         latest' \in [PageIds -> Contents],
         \A q \in PageIds \ {p} : latest'[q] = latest[q],
         Alone(p) =>
           /\ p \in Cached(cache') /\ pool[FrameOf(p)].isDirty
                => pool[FrameOf(p)].content = latest'[p]
           /\ p \notin Cached(cache') \/ ~ pool[FrameOf(p)].isDirty => OnDisk(p) = latest'[p]
  PROVE  IInv' /\ Persists
<1>1. /\ pc' = "flushing" /\ flushNext' = 1 /\ exiting' = "handler" /\ held' = NoPage
      /\ exiting = "none" /\ superblock = totalPages
  BY DEF Cut, StartFlush, IInv, TypeOK, Counted
<1>2. /\ cache' \in CacheType /\ cache'.size <= Capacity
      /\ \A q \in Cached(cache') : cache'.hashTable[q] = [page |-> FrameOf(q), pinned |-> FALSE]
  BY DEF Fills
<1>3. /\ frames' \in Pools /\ disk' \in [PageIds -> Contents \union {Unwritten}]
      /\ Confined' /\ Safe' /\ Listed' /\ Persists
  BY <1>1, FillKeeps
<1>4. TypeOK'
  BY <1>1, <1>2, <1>3, PagerAssumption DEF IInv, TypeOK, Pools
<1>5. PoolIsSound'
  BY <1>1, <1>2 DEF PoolIsSound, FrameOf
<1>6. Counted'
  BY <1>1 DEF Counted
<1> QED
  BY <1>3, <1>4, <1>5, <1>6 DEF IInv

(***************************************************************************)
(* The operations of the engine.                                           *)
(***************************************************************************)
\* Outside the handler list and table agree, and nothing exits but a flush.
LEMMA Idle ==
  ASSUME IInv, pc # "flushing"
  PROVE  exiting = "none" /\ Agree(cache)
<1>1. exiting = "none"
  BY DEF IInv, TypeOK, Counted
<1> QED
  BY <1>1 DEF IInv, PoolIsSound

\* A hit, or a miss that changes nothing, leaves the entries as they are.
LEMMA TouchedKeeps ==
  ASSUME IInv, NEW p \in PageIds, cache' = Touched(cache, p)
  PROVE  /\ cache' \in CacheType /\ cache'.size <= Capacity
         /\ NoRepeats(cache'.lruList)
         /\ exiting # "handler" => Agree(cache') /\ cache' = GetPage(cache, p)
         /\ cache'.hashTable = cache.hashTable
         /\ Cached(cache') = Cached(cache)
<1>1. cache \in CacheType /\ cache.size <= Capacity /\ NoRepeats(cache.lruList)
  BY DEF IInv, TypeOK, PoolIsSound, Listed
<1>2. /\ cache' \in CacheType /\ NoRepeats(cache'.lruList)
      /\ cache'.hashTable = cache.hashTable /\ cache'.size = cache.size
  BY <1>1, TouchedFacts
<1>3. Cached(cache') = Cached(cache)
  BY <1>2 DEF Cached
<1>4. ASSUME exiting # "handler"
      PROVE  Agree(cache') /\ cache' = GetPage(cache, p)
  <2>1. Agree(cache)
    BY <1>4 DEF IInv, PoolIsSound
  <2>2. cache' = GetPage(cache, p)
    BY <1>1, <2>1, TouchedIsGetPage
  <2>3. CASE p \in Cached(cache)
    BY <1>1, <2>1, <2>2, <2>3, GetPageFacts
  <2>4. CASE p \notin Cached(cache)
    BY <2>1, <2>2, <2>4 DEF GetPage
  <2> QED
    BY <2>2, <2>3, <2>4
<1> QED
  BY <1>1, <1>2, <1>3, <1>4

LEMMA InitIInv ==
  ASSUME Init
  PROVE  IInv
<1>1. Cached(EmptyCache) = {} /\ NoRepeats(EmptyCache.lruList)
  BY DEF Cached, EmptyCache, NoRepeats
<1>2. TypeOK
  BY EmptyCacheAgrees, PagerAssumption DEF Init, TypeOK, EmptyFrame, Contents
<1>3. PoolIsSound
  BY <1>1, EmptyCacheAgrees, CapacityAssumption DEF Init, PoolIsSound, EmptyCache
<1>4. \A p \in PageIds : OnDisk(p) = Blank
  BY DEF Init, OnDisk
<1>5. Confined
  BY <1>4 DEF Init, Confined, EmptyFrame
<1>6. Safe
  <2>1. \A p \in PageIds : FrameOf(p) \in Frames /\ OnDisk(p) = Blank /\ latest[p] = Blank
    BY <1>4, FrameOfInFrames DEF Init
  <2> QED
    BY <1>1, <2>1 DEF Init, Safe, EmptyFrame
<1>7. Counted /\ Listed
  BY <1>1 DEF Init, Counted, Listed
<1> QED
  BY <1>2, <1>3, <1>5, <1>6, <1>7 DEF IInv

LEMMA FetchHitIInv ==
  ASSUME IInv, NEW p \in PageIds, FetchHit(p)
  PROVE  IInv'
<1>1. /\ pc = "idle" /\ p \in Cached(cache) /\ cache' = GetPage(cache, p)
      /\ held' = [pageId |-> p, frame |-> FrameIn(cache, p)]
      /\ UNCHANGED << frames, totalPages, disk, superblock, pc, flushNext, exiting, latest, used >>
  BY DEF FetchHit, file, control, history
<1>2. cache' = Touched(cache, p)
  BY <1>1, Idle, TouchedIsGetPage DEF IInv, TypeOK
<1>3. /\ cache' \in CacheType /\ Agree(cache') /\ cache'.size <= Capacity
      /\ NoRepeats(cache'.lruList)
      /\ cache'.hashTable = cache.hashTable
      /\ Cached(cache') = Cached(cache)
  BY <1>1, <1>2, TouchedKeeps, Idle
<1>4. FrameIn(cache, p) = FrameOf(p) /\ FrameOf(p) \in Frames
  BY <1>1, CachedEntry, FrameOfInFrames DEF IInv
<1>5. TypeOK'
  BY <1>1, <1>3, <1>4 DEF IInv, TypeOK
<1>6. PoolIsSound'
  BY <1>1, <1>3, <1>4 DEF IInv, PoolIsSound, FrameOf
<1>7. Confined' /\ Safe' /\ Counted' /\ Listed'
  BY <1>1, <1>3 DEF IInv, Confined, Safe, Counted, Listed, OnDisk, FrameOf, Alone
<1> QED
  BY <1>5, <1>6, <1>7 DEF IInv

LEMMA FetchMissIInv ==
  ASSUME IInv, NEW p \in PageIds, FetchMiss(p)
  PROVE  IInv' /\ Persists
<1> DEFINE pool == Filled(p, FALSE)
           out == WrittenBack(cache, pool, p)
<1>1. /\ pc = "idle" /\ p \notin Cached(cache) /\ PutInto(pool, p)
      /\ held' = [pageId |-> p, frame |-> FrameOf(p)]
      /\ used' = used \union {p}
      /\ UNCHANGED << totalPages, superblock, pc, flushNext, exiting, latest >>
  BY DEF FetchMiss, control, Returned
<1>2. exiting = "none" /\ Agree(cache)
  BY <1>1, Idle
<1>3. /\ Loaded(p) \in Contents
      /\ Loaded(p) # Blank => FrameOf(Loaded(p)[1]) = FrameOf(p)
      /\ Alone(p) => Loaded(p) = latest[p]
  BY <1>1, <1>2, LoadedFacts DEF IInv
<1>4. /\ pool \in Pools /\ pool[FrameOf(p)].content = Loaded(p) /\ pool[FrameOf(p)].isDirty = FALSE
      /\ \A f \in Frames \ {FrameOf(p)} : pool[f] = frames[f]
  BY <1>3, FilledFacts DEF IInv
<1> HIDE DEF pool
<1>5. Fills(pool, p, out) /\ Agree(cache') /\ p \in Cached(cache')
  BY <1>1, <1>2, <1>4, PutIntoFacts DEF IInv
<1> HIDE DEF out
<1>6. Alone(p) => OnDisk(p) = latest'[p]
  BY <1>1 DEF IInv, Safe
<1>7. /\ frames' \in Pools /\ disk' \in [PageIds -> Contents \union {Unwritten}]
      /\ Confined' /\ Safe' /\ Listed' /\ Persists
  BY <1>1, <1>2, <1>3, <1>4, <1>5, <1>6, FillKeeps
<1>8. TypeOK'
  BY <1>1, <1>5, <1>7, FrameOfInFrames DEF IInv, TypeOK, Pools, Fills
<1>9. PoolIsSound'
  BY <1>1, <1>5 DEF PoolIsSound, FrameOf, Fills
<1>10. Counted'
  BY <1>1 DEF IInv, Counted
<1> QED
  BY <1>7, <1>8, <1>9, <1>10 DEF IInv

LEMMA CutFetchIInv ==
  ASSUME IInv, NEW p \in PageIds, CutFetch(p)
  PROVE  IInv' /\ Persists
<1>1. /\ pc = "idle" /\ p \notin Cached(cache) /\ Cut /\ used' = used \union {p}
      /\ UNCHANGED << totalPages, superblock, latest >>
  BY DEF CutFetch
<1>2. exiting = "none" /\ Agree(cache)
  BY <1>1, Idle
<1>3. /\ Loaded(p) \in Contents
      /\ Loaded(p) # Blank => FrameOf(Loaded(p)[1]) = FrameOf(p)
      /\ LoadedDirty(p) \in BOOLEAN
  BY LoadedFacts DEF IInv
<1>4. Alone(p) => OnDisk(p) = latest'[p]
  BY <1>1 DEF IInv, Safe
<1>5. latest' \in [PageIds -> Contents]
  BY <1>1 DEF IInv, TypeOK
<1>6. CASE frames' = Filled(p, LoadedDirty(p)) /\ UNCHANGED << cache, disk >>
  <2> DEFINE pool == Filled(p, LoadedDirty(p))
  <2>1. /\ pool \in Pools /\ pool[FrameOf(p)].content = Loaded(p)
        /\ \A f \in Frames \ {FrameOf(p)} : pool[f] = frames[f]
    BY <1>3, FilledFacts DEF IInv
  <2> HIDE DEF pool
  <2>2. Fills(pool, p, {})
    BY <1>6, <2>1, InPlace DEF pool
  <2> QED
    BY <1>1, <1>3, <1>4, <1>5, <1>6, <2>1, <2>2, CutIInv
<1>7. CASE CutPut(Filled(p, FALSE), p)
  <2> DEFINE pool == Filled(p, FALSE)
  <2>1. /\ pool \in Pools /\ pool[FrameOf(p)].content = Loaded(p)
        /\ \A f \in Frames \ {FrameOf(p)} : pool[f] = frames[f]
    BY <1>3, FilledFacts DEF IInv
  <2> HIDE DEF pool
  <2>2. p \notin Cached(cache') /\ \E out : Fills(pool, p, out)
    BY <1>2, <1>7, <2>1, CutPutFacts DEF IInv, pool
  <2>3. PICK out : Fills(pool, p, out)
    BY <2>2
  <2> QED
    BY <1>1, <1>3, <1>4, <1>5, <2>1, <2>2, <2>3, CutIInv
<1> QED
  BY <1>6, <1>7 DEF CutFetch

LEMMA AllocateIInv ==
  ASSUME IInv, Allocate
  PROVE  /\ IInv' /\ Persists
         /\ totalPages + 1 \in PageIds
         /\ latest' = [latest EXCEPT ![totalPages + 1] = Blank]
         /\ used' = used \union {totalPages + 1}
<1> DEFINE p == totalPages + 1
           pool == Emptied(p, TRUE)
           out == WrittenBack(cache, pool, p)
<1>1. /\ pc = "idle" /\ p < MaxPages /\ PutInto(pool, p)
      /\ latest' = [latest EXCEPT ![p] = Blank]
      /\ used' = used \union {p}
      /\ pc' = "allocating" /\ held' = NoPage
      /\ UNCHANGED << totalPages, superblock, flushNext, exiting >>
  BY DEF Allocate, HasRoom
<1>2. exiting = "none" /\ Agree(cache)
  BY <1>1, Idle
<1>3. /\ p \in PageIds /\ Blank \in Contents
      /\ latest'[p] = Blank /\ \A q \in PageIds \ {p} : latest'[q] = latest[q]
  BY <1>1, PagerAssumption DEF IInv, TypeOK, Contents
<1> HIDE DEF p
<1>4. /\ pool \in Pools /\ pool[FrameOf(p)].content = Blank /\ pool[FrameOf(p)].isDirty = TRUE
      /\ \A f \in Frames \ {FrameOf(p)} : pool[f] = frames[f]
  BY <1>3, EmptiedFacts DEF IInv
<1> HIDE DEF pool
<1>5. Fills(pool, p, out) /\ Agree(cache') /\ p \in Cached(cache')
  BY <1>1, <1>2, <1>3, <1>4, PutIntoFacts DEF IInv
<1> HIDE DEF out
<1>6. /\ frames' \in Pools /\ disk' \in [PageIds -> Contents \union {Unwritten}]
      /\ Confined' /\ Safe' /\ Listed' /\ Persists
  BY <1>1, <1>2, <1>3, <1>4, <1>5, FillKeeps
<1>7. TypeOK'
  BY <1>1, <1>3, <1>5, <1>6 DEF IInv, TypeOK, Pools, Fills
<1>8. PoolIsSound'
  BY <1>1, <1>5 DEF PoolIsSound, FrameOf, Fills
<1>9. Counted'
  BY <1>1, <1>2, <1>5 DEF IInv, Counted, p
<1> QED
  BY <1>1, <1>3, <1>6, <1>7, <1>8, <1>9 DEF IInv, p

LEMMA CutAllocateIInv ==
  ASSUME IInv, CutAllocate
  PROVE  /\ IInv' /\ Persists
         /\ totalPages + 1 \in PageIds
         /\ latest' = [latest EXCEPT ![totalPages + 1] = OnDisk(totalPages + 1)]
         /\ used' = used \union {totalPages + 1}
<1> DEFINE p == totalPages + 1
<1>1. /\ pc = "idle" /\ p < MaxPages /\ Cut
      /\ latest' = [latest EXCEPT ![p] = OnDisk(p)]
      /\ used' = used \union {p}
      /\ UNCHANGED << totalPages, superblock >>
  BY DEF CutAllocate, HasRoom
<1>2. exiting = "none" /\ Agree(cache)
  BY <1>1, Idle
<1>3. p \in PageIds /\ Blank \in Contents
  BY <1>1, PagerAssumption DEF IInv, TypeOK, Contents
<1>4. /\ frames' = Emptied(p, FALSE) /\ UNCHANGED << cache, disk >>
      \/ CutPut(Emptied(p, TRUE), p)
  BY DEF CutAllocate
<1> HIDE DEF p
<1>5. /\ latest' \in [PageIds -> Contents]
      /\ latest'[p] = OnDisk(p) /\ \A q \in PageIds \ {p} : latest'[q] = latest[q]
  BY <1>1, <1>3, OnDiskIsContent DEF IInv, TypeOK
<1>6. CASE frames' = Emptied(p, FALSE) /\ UNCHANGED << cache, disk >>
  <2> DEFINE pool == Emptied(p, FALSE)
  <2>1. /\ pool \in Pools /\ pool[FrameOf(p)].content = Blank /\ pool[FrameOf(p)].isDirty = FALSE
        /\ \A f \in Frames \ {FrameOf(p)} : pool[f] = frames[f]
    BY <1>3, EmptiedFacts DEF IInv
  <2> HIDE DEF pool
  <2>2. Fills(pool, p, {})
    BY <1>3, <1>6, <2>1, InPlace DEF pool
  <2>3. IInv' /\ Persists
    BY <1>1, <1>3, <1>5, <2>1, <2>2, CutIInv
  <2> QED
    BY <1>1, <1>3, <2>3 DEF p
<1>7. CASE CutPut(Emptied(p, TRUE), p)
  <2> DEFINE pool == Emptied(p, TRUE)
  <2>1. /\ pool \in Pools /\ pool[FrameOf(p)].content = Blank
        /\ \A f \in Frames \ {FrameOf(p)} : pool[f] = frames[f]
    BY <1>3, EmptiedFacts DEF IInv
  <2> HIDE DEF pool
  <2>2. p \notin Cached(cache') /\ \E out : Fills(pool, p, out)
    BY <1>2, <1>3, <1>7, <2>1, CutPutFacts DEF IInv, pool
  <2>3. PICK out : Fills(pool, p, out)
    BY <2>2
  <2>4. IInv' /\ Persists
    BY <1>1, <1>3, <1>5, <2>1, <2>2, <2>3, CutIInv
  <2> QED
    BY <1>1, <1>3, <2>4 DEF p
<1> QED
  BY <1>4, <1>6, <1>7

LEMMA CountPageIInv ==
  ASSUME IInv, CountPage
  PROVE  IInv' /\ superblock' = superblock + 1 /\ superblock + 1 \in PageIds
<1>1. /\ pc = "allocating" /\ pc' = "idle"
      /\ totalPages' = totalPages + 1 /\ superblock' = totalPages + 1
      /\ held' = [pageId |-> totalPages + 1, frame |-> FrameOf(totalPages + 1)]
      /\ UNCHANGED << cache, frames, disk, flushNext, exiting, latest, used >>
  BY DEF CountPage, WriteSuperblock, Returned, history
<1>2. /\ superblock = totalPages /\ totalPages + 1 \in Cached(cache) /\ exiting = "none"
      /\ totalPages + 1 \in 0 .. MaxPages - 1 /\ totalPages + 1 \in PageIds
  BY <1>1, Idle, PagerAssumption DEF IInv, Counted, TypeOK
<1>3. TypeOK'
  BY <1>1, <1>2, FrameOfInFrames DEF IInv, TypeOK
<1>4. PoolIsSound'
  BY <1>1, <1>2 DEF IInv, PoolIsSound, FrameOf
<1>5. Confined' /\ Safe' /\ Counted' /\ Listed'
  BY <1>1, <1>2 DEF IInv, Confined, Safe, Counted, Listed, OnDisk, FrameOf, Alone
<1> QED
  BY <1>1, <1>2, <1>3, <1>4, <1>5 DEF IInv

\* A row is written into the frame of the page that is held.
LEMMA HeldFacts ==
  ASSUME IInv, held # NoPage
  PROVE  /\ held.pageId \in PageIds /\ held.pageId \in Cached(cache)
         /\ used = used \union {held.pageId}
         /\ held.frame = FrameOf(held.pageId) /\ FrameOf(held.pageId) \in Frames
         /\ \A v \in Versions[held.pageId] :
              /\ << held.pageId, v >> \in Contents
              /\ << held.pageId, v >>[1] = held.pageId
<1>1. /\ held.pageId \in PageIds /\ held.pageId \in Cached(cache)
      /\ held.frame = FrameOf(held.pageId) /\ FrameOf(held.pageId) \in Frames
  BY FrameOfInFrames DEF IInv, TypeOK, PoolIsSound
<1>2. \A v \in Versions[held.pageId] : << held.pageId, v >> \in Contents
  BY <1>1 DEF Contents, WrittenContents
<1> QED
  BY <1>1, <1>2 DEF IInv, Listed

\* The pool with content c in page p's frame, which is dirty or not.
LEMMA FrameWritten ==
  ASSUME TypeOK, NEW p \in PageIds, NEW c \in Contents, NEW d \in BOOLEAN, NEW r,
         r = [frames[FrameOf(p)] EXCEPT !.content = c, !.isDirty = d],
         frames' = [frames EXCEPT ![FrameOf(p)] = r]
  PROVE  /\ frames' \in Pools
         /\ frames'[FrameOf(p)].content = c /\ frames'[FrameOf(p)].isDirty = d
         /\ \A f \in Frames \ {FrameOf(p)} : frames'[f] = frames[f]
<1>1. FrameOf(p) \in Frames
  BY FrameOfInFrames
<1>2. frames[FrameOf(p)] \in [pageId : PageIds \union {0}, isDirty : BOOLEAN, content : Contents]
  BY <1>1 DEF TypeOK
<1>3. /\ r \in [pageId : PageIds \union {0}, isDirty : BOOLEAN, content : Contents]
      /\ r.content = c /\ r.isDirty = d
  BY <1>2
<1> QED
  BY <1>1, <1>3 DEF TypeOK, Pools

LEMMA WriteRowIInv ==
  ASSUME IInv, WriteRow
  PROVE  /\ IInv'
         /\ \E c \in Contents : latest' = [latest EXCEPT ![held.pageId] = c]
         /\ held.pageId \in PageIds
<1> DEFINE p == held.pageId
<1>1. /\ pc = "idle" /\ held # NoPage
      /\ UNCHANGED << cache, totalPages, held, disk, superblock, pc, flushNext, exiting, used >>
  BY DEF WriteRow, file, control
<1>2. /\ p \in PageIds /\ p \in Cached(cache) /\ used' = used \union {p}
      /\ held.frame = FrameOf(p)
      /\ exiting = "none"
      /\ Agree(cache)
  BY <1>1, HeldFacts, Idle
<1>3. PICK c \in Contents :
         /\ c[1] = p
         /\ frames' = [frames EXCEPT ![FrameOf(p)] = Written(@, c)]
         /\ latest' = [latest EXCEPT ![p] = c]
  BY <1>1, <1>2, HeldFacts DEF WriteRow
<1>4. \E c0 \in Contents : latest' = [latest EXCEPT ![held.pageId] = c0]
  BY <1>3
<1> HIDE DEF p
<1>5. /\ frames' \in Pools
      /\ frames'[FrameOf(p)].content = c /\ frames'[FrameOf(p)].isDirty = TRUE
      /\ \A f \in Frames \ {FrameOf(p)} : frames'[f] = frames[f]
  <2>1. frames' = [frames EXCEPT ![FrameOf(p)] =
                     [frames[FrameOf(p)] EXCEPT !.content = c, !.isDirty = TRUE]]
    BY <1>3 DEF Written
  <2> QED
    BY <1>2, <2>1, FrameWritten DEF IInv
<1>6. /\ latest' \in [PageIds -> Contents]
      /\ latest'[p] = c /\ \A q \in PageIds \ {p} : latest'[q] = latest[q]
  BY <1>2, <1>3 DEF IInv, TypeOK
<1>7. PICK pool \in Pools : pool = frames'
  BY <1>5
<1>8. Fills(pool, p, {})
  BY <1>1, <1>2, <1>7, InPlace
<1>9. Confined' /\ Safe' /\ Listed'
  <2>1. /\ pool[FrameOf(p)].content = c /\ pool[FrameOf(p)].isDirty
        /\ \A f \in Frames \ {FrameOf(p)} : pool[f] = frames[f]
    BY <1>5, <1>7
  <2>2. FrameOf(pool[FrameOf(p)].content[1]) = FrameOf(p)
    BY <1>3, <2>1
  <2>3. p \in Cached(cache') /\ pc' # "flushing" /\ exiting # "handler"
    BY <1>1, <1>2
  <2> QED
    BY <1>2, <1>6, <1>8, <2>1, <2>2, <2>3, FillKeeps
<1>10. TypeOK'
  BY <1>1, <1>5, <1>6 DEF IInv, TypeOK, Pools
<1>11. PoolIsSound' /\ Counted'
  BY <1>1 DEF IInv, PoolIsSound, Counted, FrameOf
<1> QED
  BY <1>2, <1>4, <1>9, <1>10, <1>11 DEF IInv, p

LEMMA CutWriteIInv ==
  ASSUME IInv, CutWrite
  PROVE  /\ IInv' /\ disk' = disk
         /\ held.pageId \in PageIds
         /\ \/ latest' = latest
            \/ \E c \in Contents : latest' = [latest EXCEPT ![held.pageId] = c]
<1> DEFINE p == held.pageId
<1>1. /\ pc = "idle" /\ held # NoPage /\ Cut
      /\ UNCHANGED << cache, totalPages, disk, superblock, used >>
  BY DEF CutWrite, file
<1>2. /\ p \in PageIds /\ p \in Cached(cache) /\ used' = used \union {p}
      /\ held.frame = FrameOf(p) /\ FrameOf(p) \in Frames
  BY <1>1, HeldFacts
<1> DEFINE d == frames[FrameOf(p)].isDirty
<1>3. PICK c \in Contents :
         /\ c[1] = p
         /\ frames' = [frames EXCEPT ![FrameOf(p)].content = c]
         /\ latest' = [latest EXCEPT ![p] = IF d THEN c ELSE @]
  BY <1>1, <1>2, HeldFacts DEF CutWrite
<1>4. /\ d \in BOOLEAN
      /\ frames[FrameOf(p)] \in [pageId : PageIds \union {0}, isDirty : BOOLEAN, content : Contents]
  BY <1>2 DEF IInv, TypeOK
<1>5. latest' = latest \/ \E c0 \in Contents : latest' = [latest EXCEPT ![p] = c0]
  <2>1. CASE d
    BY <1>3, <2>1
  <2>2. CASE ~ d
    BY <1>2, <1>3, <2>2 DEF IInv, TypeOK
  <2> QED
    BY <2>1, <2>2
<1>6. /\ latest' \in [PageIds -> Contents]
      /\ latest'[p] = (IF d THEN c ELSE latest[p])
      /\ \A q \in PageIds \ {p} : latest'[q] = latest[q]
  BY <1>2, <1>3 DEF IInv, TypeOK
<1> HIDE DEF p, d
<1>7. /\ frames' \in Pools
      /\ frames'[FrameOf(p)].content = c /\ frames'[FrameOf(p)].isDirty = d
      /\ \A f \in Frames \ {FrameOf(p)} : frames'[f] = frames[f]
  <2> DEFINE r == [frames[FrameOf(p)] EXCEPT !.content = c, !.isDirty = d]
  <2>1. r = [frames[FrameOf(p)] EXCEPT !.content = c]
    BY <1>4 DEF d
  <2>2. frames' = [frames EXCEPT ![FrameOf(p)] = r]
    BY <1>3, <2>1
  <2> HIDE DEF r
  <2>3. r = [frames[FrameOf(p)] EXCEPT !.content = c, !.isDirty = d]
    BY DEF r
  <2> QED
    BY <1>2, <1>4, <2>2, <2>3, FrameWritten DEF IInv
<1>8. PICK pool \in Pools : pool = frames'
  BY <1>7
<1>9. Fills(pool, p, {})
  BY <1>1, <1>2, <1>8, InPlace
<1>10. Alone(p) /\ ~ d => OnDisk(p) = latest'[p]
  BY <1>2, <1>6 DEF IInv, Safe, d
<1>11. IInv'
  <2>1. /\ pool[FrameOf(p)].content = c /\ pool[FrameOf(p)].isDirty = d
        /\ \A f \in Frames \ {FrameOf(p)} : pool[f] = frames[f]
    BY <1>7, <1>8
  <2>2. FrameOf(pool[FrameOf(p)].content[1]) = FrameOf(p)
    BY <1>3, <2>1
  <2>3. /\ p \in Cached(cache') /\ totalPages' = totalPages /\ superblock' = superblock
        /\ pool[FrameOf(p)].isDirty => pool[FrameOf(p)].content = latest'[p]
        /\ Alone(p) /\ ~ pool[FrameOf(p)].isDirty => OnDisk(p) = latest'[p]
    BY <1>1, <1>2, <1>6, <1>10, <2>1
  <2> QED
    BY <1>1, <1>2, <1>6, <1>9, <2>1, <2>2, <2>3, CutIInv
<1> QED
  BY <1>1, <1>2, <1>5, <1>11 DEF p

(***************************************************************************)
(* Flushes and the end of the process.                                     *)
(***************************************************************************)
LEMMA StartFlushIInv ==
  ASSUME IInv, NEW who \in {"none", "main", "handler"}, StartFlush(who),
         who # "handler" => pc = "idle",
         pc \in {"idle", "allocating", "flushing"}, held' \in {held, NoPage},
         totalPages' = totalPages \/ CutCount,
         UNCHANGED << cache, frames, file, history >>
  PROVE  IInv'
<1>1. /\ pc' = "flushing" /\ flushNext' = 1 /\ exiting' = who
      /\ UNCHANGED << cache, frames, disk, superblock, latest, used >>
  BY DEF StartFlush, file, history
<1>2. CutCount => /\ pc = "allocating" /\ totalPages' = totalPages + 1 /\ exiting' = "handler"
  BY DEF CutCount, Cut, StartFlush
<1>3. totalPages' \in 0 .. MaxPages - 1
  BY <1>2, PagerAssumption DEF IInv, TypeOK, Counted
<1>4. TypeOK'
  BY <1>1, <1>3, PagerAssumption DEF IInv, TypeOK
<1>5. exiting # "handler" \/ who = "handler"
  BY Idle
<1>6. PoolIsSound' /\ Confined' /\ Listed'
  BY <1>1, <1>5 DEF IInv, PoolIsSound, Confined, Listed, OnDisk, FrameOf
<1>7. Safe'
  <2>1. \A p \in PageIds : ~ p < 1
    BY PagerAssumption
  <2> QED
    BY <1>1, <1>5, <2>1 DEF IInv, Safe, OnDisk, FrameOf, Alone
<1>8. Counted'
  <2>1. CASE CutCount
    BY <1>1, <1>2, <2>1 DEF IInv, Counted
  <2>2. CASE totalPages' = totalPages
    BY <1>1, <1>5, <2>2 DEF IInv, Counted
  <2> QED
    BY <2>1, <2>2
<1> QED
  BY <1>4, <1>6, <1>7, <1>8 DEF IInv

LEMMA StartsIInv ==
  ASSUME IInv, Flush \/ Shutdown \/ Sigint \/ CutCount
  PROVE  IInv'
<1>1. CASE Flush
  BY <1>1, StartFlushIInv DEF Flush, memory
<1>2. CASE Shutdown
  BY <1>2, StartFlushIInv DEF Shutdown, memory
<1>3. CASE Sigint
  BY <1>3, StartFlushIInv DEF Sigint, Cut
<1>4. CASE CutCount
  BY <1>4, StartFlushIInv DEF CutCount, Cut
<1> QED
  BY <1>1, <1>2, <1>3, <1>4

LEMMA FlushPageIInv ==
  ASSUME IInv, FlushPage
  PROVE  IInv' /\ Persists
<1> DEFINE n == flushNext
           g == FrameOf(n)
<1>1. /\ pc = "flushing" /\ n < MaxPages /\ cache' = Touched(cache, n)
      /\ flushNext' = n + 1
      /\ UNCHANGED << superblock, totalPages, held, pc, exiting, latest, used >>
  BY DEF FlushPage, history
<1>2. n \in PageIds /\ n \in Nat /\ g \in Frames
  BY <1>1, PagerAssumption, FrameOfInFrames DEF IInv, TypeOK
<1> HIDE DEF n
<1>3. /\ cache' \in CacheType /\ cache'.size <= Capacity /\ NoRepeats(cache'.lruList)
      /\ exiting # "handler" => Agree(cache')
      /\ cache'.hashTable = cache.hashTable
      /\ Cached(cache') = Cached(cache)
  BY <1>1, <1>2, TouchedKeeps
<1>4. /\ n \in Cached(cache) =>
            /\ disk' = IF frames[g].isDirty THEN [disk EXCEPT ![n] = frames[g].content] ELSE disk
            /\ frames' = [frames EXCEPT ![g].isDirty = FALSE]
      /\ n \notin Cached(cache) => UNCHANGED << disk, frames >>
  <2>1. n \in Cached(cache) => FrameIn(cache, n) = g
    BY CachedEntry DEF IInv
  <2> QED
    BY <2>1 DEF FlushPage, n
<1>5. /\ frames' \in Pools
      /\ \A f \in Frames : /\ frames'[f].content = frames[f].content
                           /\ f # g \/ n \notin Cached(cache) => frames'[f] = frames[f]
                           /\ ~ frames[f].isDirty => ~ frames'[f].isDirty
      /\ n \in Cached(cache) => ~ frames'[g].isDirty
  <2>1. \A f \in Frames :
          frames[f] \in [pageId : PageIds \union {0}, isDirty : BOOLEAN, content : Contents]
    BY DEF IInv, TypeOK
  <2>2. CASE n \in Cached(cache)
    <3> DEFINE r == [frames[g] EXCEPT !.isDirty = FALSE]
    <3>1. r \in [pageId : PageIds \union {0}, isDirty : BOOLEAN, content : Contents]
      BY <1>2, <2>1
    <3>2. r.content = frames[g].content /\ ~ r.isDirty
      BY <1>2, <2>1
    <3> HIDE DEF r
    <3>3. frames' = [frames EXCEPT ![g] = r]
      BY <1>4, <2>2 DEF r
    <3>4. /\ frames'[g] = r
          /\ \A f \in Frames \ {g} : frames'[f] = frames[f]
          /\ DOMAIN frames' = Frames /\ frames' = [f \in Frames |-> frames'[f]]
      BY <1>2, <3>3 DEF IInv, TypeOK
    <3>5. frames' \in Pools
      BY <2>1, <3>1, <3>4 DEF Pools
    <3> QED
      BY <2>2, <3>2, <3>4, <3>5
  <2>3. CASE n \notin Cached(cache)
    BY <1>4, <2>3 DEF IInv, TypeOK, Pools
  <2> QED
    BY <2>2, <2>3
<1>6. /\ disk' \in [PageIds -> Contents \union {Unwritten}]
      /\ \A q \in PageIds \ {n} : disk'[q] = disk[q]
      /\ n \in Cached(cache) /\ frames[g].isDirty => disk'[n] = frames[g].content
      /\ ~ (n \in Cached(cache) /\ frames[g].isDirty) => disk'[n] = disk[n]
      /\ frames[g].content \in Contents
  BY <1>2, <1>4 DEF IInv, TypeOK
<1>7. TypeOK'
  <2>1. flushNext' \in 1 .. MaxPages
    BY <1>1, <1>2, PagerAssumption
  <2> QED
    BY <1>1, <1>3, <1>5, <1>6, <2>1 DEF IInv, TypeOK, Pools
<1>8. PoolIsSound'
  BY <1>1, <1>3 DEF IInv, PoolIsSound, FrameOf
<1>9. Confined'
  <2>1. ASSUME NEW q \in PageIds, OnDisk(q)' # Blank
        PROVE  FrameOf(OnDisk(q)'[1]) = FrameOf(q)
    <3>1. CASE q = n /\ n \in Cached(cache) /\ frames[g].isDirty
      <4>1. OnDisk(q)' = frames[g].content
        BY <1>6, <3>1, SlotAssumption DEF OnDisk
      <4> QED
        BY <1>2, <2>1, <3>1, <4>1 DEF IInv, Confined
    <3>2. CASE ~ (q = n /\ n \in Cached(cache) /\ frames[g].isDirty)
      <4>1. OnDisk(q)' = OnDisk(q)
        BY <1>6, <3>2 DEF OnDisk
      <4> QED
        BY <2>1, <4>1 DEF IInv, Confined
    <3> QED
      BY <3>1, <3>2
  <2>2. \A f \in Frames : frames'[f].content # Blank => FrameOf(frames'[f].content[1]) = f
    BY <1>5 DEF IInv, Confined
  <2> QED
    BY <2>1, <2>2 DEF Confined, FrameOf
<1>10. ASSUME NEW q \in PageIds, Alone(q)
       PROVE  /\ FrameOf(q) \in Frames
              /\ q # n /\ n \in Cached(cache) => FrameOf(q) # g
              /\ q # n => frames'[FrameOf(q)] = frames[FrameOf(q)]
              /\ q = n /\ n \in Cached(cache) => OnDisk(q)' = latest[q]
              /\ ~ (q = n /\ n \in Cached(cache)) => OnDisk(q)' = OnDisk(q)
  <2>1. FrameOf(q) \in Frames
    BY FrameOfInFrames
  <2>2. q # n /\ n \in Cached(cache) => FrameOf(q) # g
    BY <1>10 DEF Alone, IInv, Listed
  <2>3. q # n => frames'[FrameOf(q)] = frames[FrameOf(q)]
    BY <1>5, <2>1, <2>2
  <2>4. ASSUME q = n, n \in Cached(cache)
        PROVE  OnDisk(q)' = latest[q]
    <3>1. CASE frames[g].isDirty
      BY <1>6, <1>10, <2>4, <3>1, SlotAssumption DEF OnDisk, IInv, Safe
    <3>2. CASE ~ frames[g].isDirty
      BY <1>6, <1>10, <2>4, <3>2 DEF OnDisk, IInv, Safe
    <3> QED
      BY <3>1, <3>2
  <2>5. ~ (q = n /\ n \in Cached(cache)) => OnDisk(q)' = OnDisk(q)
    BY <1>6 DEF OnDisk
  <2> QED
    BY <2>1, <2>2, <2>3, <2>4, <2>5
<1>11. Safe'
  <2> SUFFICES ASSUME NEW q \in PageIds, Alone(q)
               PROVE  /\ q \in Cached(cache) /\ (frames'[FrameOf(q)].isDirty \/ exiting # "handler")
                           => frames'[FrameOf(q)].content = latest[q]
                      /\ q \notin Cached(cache) \/ ~ frames'[FrameOf(q)].isDirty
                           => OnDisk(q)' = latest[q]
                      /\ q \notin Cached(cache) /\ disk'[q] = Unwritten /\ exiting # "handler"
                           => frames'[FrameOf(q)].content = Blank
                      /\ q < n + 1 /\ q \in Cached(cache) => ~ frames'[FrameOf(q)].isDirty
    BY <1>1, <1>3 DEF Safe, FrameOf, Alone
  <2>1. CASE q = n /\ n \in Cached(cache)
    BY <1>2, <1>5, <1>10, <2>1 DEF IInv, Safe
  <2>2. CASE q = n /\ n \notin Cached(cache)
    BY <1>2, <1>5, <1>6, <1>10, <2>2 DEF IInv, Safe
  <2>3. CASE q # n
    <3>1. q < n + 1 => q < flushNext
      BY <1>2, <2>3, PagerAssumption DEF n
    <3>2. frames'[FrameOf(q)] = frames[FrameOf(q)] /\ OnDisk(q)' = OnDisk(q) /\ disk'[q] = disk[q]
      BY <1>6, <1>10, <2>3
    <3> QED
      BY <1>1, <3>1, <3>2 DEF IInv, Safe
  <2> QED
    BY <2>1, <2>2, <2>3
<1>12. Counted' /\ Listed'
  BY <1>1, <1>3 DEF IInv, Counted, Listed
<1>13. Persists
  <2> DEFINE S == {n} \intersect Cached(cache)
  <2>1. S \in SUBSET PageIds
    BY <1>2
  <2>2. \A q \in PageIds : Alone(q) => OnDisk(q)' = IF q \in S THEN latest[q] ELSE OnDisk(q)
    BY <1>10
  <2> QED
    BY <1>1, <2>1, <2>2 DEF Persists, Alone, FrameOf
<1> QED
  BY <1>7, <1>8, <1>9, <1>11, <1>12, <1>13 DEF IInv

\* A process that ends leaves its invariant to the next, if what is on disk is
\* the latest content of the pages that are alone in their frames.
LEMMA MemoryLostIInv ==
  ASSUME IInv, MemoryLost, disk' = disk, superblock' \in 0 .. MaxPages - 1,
         pc' \in {"exited", "crashed"}, latest' \in [PageIds -> Contents], used' = used,
         \A p \in PageIds : Alone(p) => latest'[p] = OnDisk(p)
  PROVE  IInv'
<1>1. /\ cache' = EmptyCache /\ frames' = [f \in Frames |-> EmptyFrame]
      /\ totalPages' = 0 /\ held' = NoPage /\ flushNext' = 1 /\ exiting' = "none"
  BY DEF MemoryLost
<1>2. /\ Cached(cache') = {} /\ cache' \in CacheType /\ Agree(cache') /\ cache'.size = 0
      /\ NoRepeats(cache'.lruList)
  BY <1>1, EmptyCacheAgrees DEF Cached, EmptyCache, NoRepeats
<1>3. TypeOK'
  BY <1>1, <1>2, PagerAssumption DEF IInv, TypeOK, EmptyFrame, Contents
<1>4. PoolIsSound'
  BY <1>1, <1>2, CapacityAssumption DEF PoolIsSound
<1>5. Confined'
  BY <1>1 DEF IInv, Confined, OnDisk, FrameOf, EmptyFrame
<1>6. Safe'
  <2>1. \A p \in PageIds : /\ p \notin Cached(cache') /\ OnDisk(p)' = OnDisk(p)
                           /\ Alone(p)' => Alone(p)
    BY <1>2 DEF OnDisk, Alone, FrameOf
  <2>2. \A p \in PageIds : frames'[FrameOf(p)].content = Blank
    BY <1>1, FrameOfInFrames DEF EmptyFrame
  <2> QED
    BY <2>1, <2>2 DEF Safe, FrameOf
<1>7. Counted' /\ Listed'
  BY <1>1, <1>2 DEF Counted, Listed
<1> QED
  BY <1>3, <1>4, <1>5, <1>6, <1>7 DEF IInv

\* Behind the last page of a flush everything is on disk.
LEMMA FlushDoneIInv ==
  ASSUME IInv, FlushDone
  PROVE  /\ IInv'
         /\ superblock' \in {superblock, superblock + 1}
         /\ exiting = "none" => superblock' = superblock
         /\ \A p \in PageIds : Alone(p) => OnDisk(p) = latest[p]
<1>1. /\ pc = "flushing" /\ flushNext = MaxPages /\ superblock' = totalPages
      /\ UNCHANGED << disk, latest, used >>
      /\ exiting # "none" => pc' = "exited" /\ MemoryLost
      /\ exiting = "none" => /\ pc' = "idle" /\ flushNext' = 1
                             /\ UNCHANGED << cache, frames, totalPages, held, exiting >>
  BY DEF FlushDone, WriteSuperblock, memory, history
<1>2. /\ superblock' \in {superblock, superblock + 1} /\ superblock' \in 0 .. MaxPages - 1
      /\ exiting = "none" => superblock' = superblock
  BY <1>1 DEF IInv, Counted, TypeOK
<1>3. \A p \in PageIds : Alone(p) => OnDisk(p) = latest[p]
  <2>1. \A p \in PageIds : p < flushNext
    BY <1>1, PagerAssumption
  <2> QED
    BY <1>1, <2>1 DEF IInv, Safe
<1>4. CASE exiting # "none"
  BY <1>1, <1>2, <1>3, <1>4, MemoryLostIInv DEF IInv, TypeOK
<1>5. CASE exiting = "none"
  <2>1. TypeOK'
    BY <1>1, <1>2, <1>5, PagerAssumption DEF IInv, TypeOK
  <2>2. PoolIsSound' /\ Confined' /\ Safe' /\ Counted' /\ Listed'
    BY <1>1, <1>5 DEF IInv, PoolIsSound, Confined, Safe, Counted, Listed, OnDisk, FrameOf, Alone
  <2> QED
    BY <1>2, <1>3, <2>1, <2>2 DEF IInv
<1> QED
  BY <1>2, <1>3, <1>4, <1>5

LEMMA KillIInv ==
  ASSUME IInv, Kill
  PROVE  IInv'
<1>1. /\ pc' = "crashed" /\ MemoryLost /\ latest' = [p \in PageIds |-> OnDisk(p)]
      /\ disk' = disk /\ superblock' = superblock /\ used' = used
  BY DEF Kill, file
<1>2. \A p \in PageIds : OnDisk(p) \in Contents
  BY OnDiskIsContent DEF IInv
<1>3. latest' \in [PageIds -> Contents] /\ \A p \in PageIds : latest'[p] = OnDisk(p)
  BY <1>1, <1>2
<1> QED
  BY <1>1, <1>3, MemoryLostIInv DEF IInv, TypeOK

LEMMA RestartIInv ==
  ASSUME IInv, Restart
  PROVE  IInv'
<1>1. /\ pc \in {"exited", "crashed"} /\ pc' = "idle" /\ totalPages' = superblock
      /\ UNCHANGED << cache, frames, held, disk, superblock, flushNext, exiting, latest, used >>
  BY DEF Restart, ReadSuperblock, file, history
<1>2. TypeOK'
  BY <1>1 DEF IInv, TypeOK
<1>3. PoolIsSound' /\ Confined' /\ Safe' /\ Counted' /\ Listed'
  BY <1>1, Idle DEF IInv, PoolIsSound, Confined, Safe, Counted, Listed, OnDisk, FrameOf, Alone
<1> QED
  BY <1>2, <1>3 DEF IInv

LEMMA StutterIInv ==
  ASSUME IInv, UNCHANGED vars
  PROVE  IInv'
<1>1. UNCHANGED << cache, frames, totalPages, held, disk, superblock, pc, flushNext, exiting,
                   latest, used >>
  BY DEF vars, memory, file, control, history
<1>2. TypeOK' /\ PoolIsSound'
  BY <1>1 DEF IInv, TypeOK, PoolIsSound, FrameOf
<1>3. Confined' /\ Safe' /\ Counted' /\ Listed'
  BY <1>1 DEF IInv, Confined, Safe, Counted, Listed, OnDisk, FrameOf, Alone
<1> QED
  BY <1>2, <1>3 DEF IInv

LEMMA StepIInv ==
  ASSUME IInv, [Next]_vars
  PROVE  IInv'
<1>1. ASSUME NEW p \in PageIds, FetchHit(p) PROVE IInv'
  BY <1>1, FetchHitIInv
<1>2. ASSUME NEW p \in PageIds, FetchMiss(p) PROVE IInv'
  BY <1>2, FetchMissIInv
<1>3. ASSUME NEW p \in PageIds, CutFetch(p) PROVE IInv'
  BY <1>3, CutFetchIInv
<1>4. CASE WriteRow
  BY <1>4, WriteRowIInv
<1>5. CASE Allocate
  BY <1>5, AllocateIInv
<1>6. CASE CountPage
  BY <1>6, CountPageIInv
<1>7. CASE Flush \/ Shutdown \/ Sigint \/ CutCount
  BY <1>7, StartsIInv
<1>8. CASE CutAllocate
  BY <1>8, CutAllocateIInv
<1>9. CASE CutWrite
  BY <1>9, CutWriteIInv
<1>10. CASE FlushPage
  BY <1>10, FlushPageIInv
<1>11. CASE FlushDone
  BY <1>11, FlushDoneIInv
<1>12. CASE Kill
  BY <1>12, KillIInv
<1>13. CASE Restart
  BY <1>13, RestartIInv
<1>14. CASE UNCHANGED vars
  BY <1>14, StutterIInv
<1> QED
  BY <1>1, <1>2, <1>3, <1>4, <1>5, <1>6, <1>7, <1>8, <1>9, <1>10, <1>11, <1>12, <1>13, <1>14
     DEF Next

(***************************************************************************)
(* The invariants.                                                         *)
(***************************************************************************)
\* Pager.cpp as a whole keeps the inductive invariant: whatever is called, in
\* whatever order, and however and wherever in an operation the process ends.
THEOREM Invariance == Spec => []IInv
<1>1. Init => IInv
  BY InitIInv
<1>2. IInv /\ [Next]_vars => IInv'
  BY StepIInv
<1> QED
  BY <1>1, <1>2, PTL DEF Spec

\* The state of the pager, of the file and of the process has its types.
THEOREM TypeCorrectness == Spec => []TypeOK
<1>1. IInv => TypeOK
  BY DEF IInv
<1> QED
  BY <1>1, Invariance, PTL

\* The cache stays within the pool, every entry points to the frame of its page,
\* and the page a caller holds is neither evicted nor moved under it.
THEOREM PoolSoundness == Spec => []PoolIsSound
<1>1. IInv => PoolIsSound
  BY DEF IInv
<1> QED
  BY <1>1, Invariance, PTL

\* A page only ever shows contents of pages of its own frame.
THEOREM Confinement == Spec => []Confined
<1>1. IInv => Confined
  BY DEF IInv
<1> QED
  BY <1>1, Invariance, PTL

\* As long as a page is the only one in use of its frame, its readers are given
\* what its writers last wrote, after evictions, flushes, kills and restarts, and
\* after a SIGINT wherever it cuts into fetchPage, allocateNewPage or writeRow.
THEOREM LatestIsRead == Spec => []ReadsLatest
<1>1. IInv => ReadsLatest
  BY ViewIsLatest DEF ReadsLatest
<1> QED
  BY <1>1, Invariance, PTL

(***************************************************************************)
(* The page store.                                                         *)
(***************************************************************************)
\* What the writers last wrote, of the pages that are alone in their frames.
Latest == [p \in PageIds |-> IF Alone(p) THEN latest[p] ELSE Blank]

\* What readers are given is what was last written.
Shown == current = Latest

LEMMA CurrentIsLatest == IInv => Shown
<1> SUFFICES ASSUME IInv PROVE Shown
  OBVIOUS
<1>1. \A p \in PageIds : Alone(p) /\ exiting # "handler" => View(p) = latest[p]
  BY ViewIsLatest
<1> QED
  BY <1>1 DEF Shown, current, Latest

\* The pages the store keeps its promise for.
LEMMA KeptPages ==
  ASSUME NEW U \in SUBSET PageIds, NEW p \in PageIds
  PROVE  p \in Store!Kept(U) <=> \A q \in U : FrameOf(q) = FrameOf(p) => q = p
<1> DEFINE Group == [r \in PageIds |-> FrameOf(r)]
<1>1. \A q \in PageIds : Group[q] = FrameOf(q)
  OBVIOUS
<1>2. p \in Store!Kept(U) <=> \A q \in U : Group[q] = Group[p] => q = p
  BY DEF Store!Kept
<1> QED
  BY <1>1, <1>2

LEMMA KeptIsAlone ==
  ASSUME IInv, IInv', NEW p \in PageIds
  PROVE  /\ p \in Store!Kept(used) <=> Alone(p)
         /\ p \in Store!Kept(used') <=> Alone(p)'
<1>1. used \in SUBSET PageIds /\ used' \in SUBSET PageIds
  BY DEF IInv, TypeOK
<1> QED
  BY <1>1, KeptPages DEF Alone, FrameOf

\* What Persists says, of the file as a whole.
LEMMA PersistsDurable ==
  ASSUME IInv, IInv', Shown, Persists, used \subseteq used'
  PROVE  \E S \in SUBSET PageIds : durable' = Store!Over(Store!Persisted(S), used')
<1>1. PICK S \in SUBSET PageIds :
        \A q \in PageIds : Alone(q)' => OnDisk(q)' = IF q \in S THEN latest[q] ELSE OnDisk(q)
  BY DEF Persists
<1>2. \A q \in PageIds : Alone(q)' => Alone(q)
  BY DEF Alone, FrameOf
<1>3. \A q \in PageIds : Alone(q) => current[q] = latest[q] /\ durable[q] = OnDisk(q)
  BY DEF Shown, Latest, durable
<1>4. \A q \in PageIds : durable'[q] = IF Alone(q)' THEN OnDisk(q)' ELSE Blank
  BY DEF durable
<1> DEFINE P == Store!Persisted(S)
<1>5. \A q \in PageIds : P[q] = IF q \in S THEN current[q] ELSE durable[q]
  BY DEF Store!Persisted
<1> HIDE DEF P
<1>6. \A q \in PageIds : durable'[q] = IF q \in Store!Kept(used') THEN P[q] ELSE Blank
  BY <1>1, <1>2, <1>3, <1>4, <1>5, KeptIsAlone
<1>7. durable' = [q \in PageIds |-> durable'[q]]
  BY DEF durable
<1>8. durable' = Store!Over(P, used')
  BY <1>6, <1>7 DEF Store!Over
<1> QED
  BY <1>8 DEF P

\* A flush or a miss of a page that was used before brings no new page in.
LEMMA PersistsSame ==
  ASSUME IInv, IInv', Shown, Persists, used' = used
  PROVE  \E S \in SUBSET PageIds : durable' = Store!Persisted(S)
<1>1. PICK S \in SUBSET PageIds : durable' = Store!Over(Store!Persisted(S), used')
  BY PersistsDurable
<1> DEFINE P == Store!Persisted(S)
<1>2. \A q \in PageIds : ~ Alone(q) => current[q] = Blank /\ durable[q] = Blank
  BY DEF Shown, Latest, durable
<1>3. /\ P = [q \in PageIds |-> P[q]]
      /\ \A q \in PageIds : P[q] = IF q \in S THEN current[q] ELSE durable[q]
  BY DEF Store!Persisted
<1> HIDE DEF P
<1>4. \A q \in PageIds : q \notin Store!Kept(used') => P[q] = Blank
  BY <1>2, <1>3, KeptIsAlone DEF Alone, FrameOf
<1>5. Store!Over(P, used') = [q \in PageIds |-> P[q]]
  BY <1>4 DEF Store!Over
<1> QED
  BY <1>1, <1>3, <1>5 DEF P

\* The store's view of the contents when a page is used: of the pages that are
\* still alone they are as they were, but for the page itself.
LEMMA CurrentOver ==
  ASSUME IInv, IInv', Shown, Shown', used \subseteq used',
         NEW f, f = [q \in PageIds |-> f[q]],
         \A q \in PageIds : Alone(q)' => f[q] = latest'[q]
  PROVE  current' = Store!Over(f, used')
<1>1. current' = [q \in PageIds |-> IF Alone(q)' THEN latest'[q] ELSE Blank]
  BY DEF Shown, Latest
<1>2. Store!Over(f, used') = [q \in PageIds |-> IF q \in Store!Kept(used') THEN f[q] ELSE Blank]
  BY DEF Store!Over
<1> QED
  BY <1>1, <1>2, KeptIsAlone

\* A write, or the part of one that SIGINT lets happen.
LEMMA WriteRefines ==
  ASSUME IInv, IInv', Shown, Shown', NEW p \in PageIds, NEW c \in Contents,
         latest' = [latest EXCEPT ![p] = c], UNCHANGED << disk, used, superblock >>,
         phase = "open", phase' \in {"open", "closing"}
  PROVE  Store!Write(p, c) \/ Store!Close \/ UNCHANGED Store!vars
<1>1. /\ \A q \in PageIds : Alone(q)' <=> Alone(q)
      /\ durable' = durable
      /\ \A q \in PageIds : latest'[q] = IF q = p THEN c ELSE latest[q]
  BY DEF Alone, FrameOf, durable, OnDisk, IInv, TypeOK
<1>2. /\ current = [q \in PageIds |-> IF Alone(q) THEN latest[q] ELSE Blank]
      /\ current' = [q \in PageIds |-> IF Alone(q) THEN latest'[q] ELSE Blank]
  BY <1>1 DEF Shown, Latest
<1>3. CASE Alone(p)
  <2>1. current' = [current EXCEPT ![p] = c]
    BY <1>1, <1>2, <1>3
  <2> QED
    BY <1>1, <1>3, <2>1, KeptIsAlone DEF Store!Write
<1>4. CASE ~ Alone(p)
  <2>1. current' = current
    BY <1>1, <1>2, <1>4
  <2> QED
    BY <1>1, <2>1 DEF Store!Close, Store!vars
<1> QED
  BY <1>3, <1>4

\* fetchPage, up to its end or up to a SIGINT.
LEMMA UseRefines ==
  ASSUME IInv, IInv', Shown, Shown', Persists, NEW p \in PageIds, used' = used \union {p},
         UNCHANGED << latest, superblock >>, phase = "open", phase' \in {"open", "closing"}
  PROVE  Store!Use(p)
<1>1. \A q \in PageIds : Alone(q)' => Alone(q)
  BY DEF Alone, FrameOf
<1>2. current = [q \in PageIds |-> IF Alone(q) THEN latest[q] ELSE Blank]
  BY DEF Shown, Latest
<1>3. current = [q \in PageIds |-> current[q]] /\ \A q \in PageIds : Alone(q)' => current[q] = latest'[q]
  BY <1>1, <1>2
<1>4. current' = Store!Over(current, used')
  <2> PICK f : f = current
    OBVIOUS
  <2> QED
    BY <1>3, CurrentOver
<1> QED
  BY <1>4, PersistsDurable DEF Store!Use

\* allocateNewPage up to the count, or up to a SIGINT.
LEMMA EmptyRefines ==
  ASSUME IInv, IInv', Shown, Shown', Persists, superblock + 1 \in PageIds,
         used' = used \union {superblock + 1}, superblock' = superblock,
         phase = "open", NEW c,
         \/ phase' = "open" /\ c = Blank
         \/ phase' = "closing" /\ c = OnDisk(superblock + 1),
         latest' = [latest EXCEPT ![superblock + 1] = c]
  PROVE  Store!Empty
<1> DEFINE p == superblock + 1
           left == IF phase' = "open" THEN Blank ELSE durable[p]
<1>1. \A q \in PageIds : Alone(q)' => Alone(q)
  BY DEF Alone, FrameOf
<1>2. current = [q \in PageIds |-> IF Alone(q) THEN latest[q] ELSE Blank]
  BY DEF Shown, Latest
<1>3. \A q \in PageIds : latest'[q] = IF q = p THEN c ELSE latest[q]
  BY DEF IInv, TypeOK
<1>4. Alone(p) => left = c
  BY DEF durable
<1> HIDE DEF left
<1>5. PICK f : f = [current EXCEPT ![p] = left]
  OBVIOUS
<1> HIDE DEF p
<1>6. /\ f = [q \in PageIds |-> f[q]]
      /\ \A q \in PageIds : f[q] = IF q = p THEN left ELSE current[q]
  BY <1>2, <1>5
<1>7. \A q \in PageIds : Alone(q)' => f[q] = latest'[q]
  BY <1>1, <1>2, <1>3, <1>4, <1>6
<1>8. current' = Store!Over(f, used')
  BY <1>6, <1>7, CurrentOver
<1>9. \E S \in SUBSET PageIds : durable' = Store!Over(Store!Persisted(S), used')
  BY PersistsDurable
<1> QED
  BY <1>5, <1>8, <1>9 DEF Store!Empty, left, p

\* A step that changes no content of a page that is alone.
LEMMA SameRefines ==
  ASSUME Shown, Shown', UNCHANGED << disk, latest, used >>
  PROVE  UNCHANGED << current, durable, used >>
<1>1. durable' = durable /\ Latest' = Latest
  BY DEF durable, Latest, OnDisk, Alone, FrameOf
<1> QED
  BY <1>1 DEF Shown

\* Every step of the pager is one of the store or leaves it as it is.
LEMMA StepRefines ==
  ASSUME IInv, IInv', [Next]_vars, Shown, Shown'
  PROVE  [Store!Next]_(Store!vars)
<1>1. ASSUME NEW p \in PageIds, FetchHit(p)
      PROVE  UNCHANGED Store!vars
  BY <1>1, SameRefines DEF FetchHit, file, control, history, phase, Store!vars
<1>2. ASSUME NEW p \in PageIds, FetchMiss(p) \/ CutFetch(p)
      PROVE  Store!Use(p)
  <2>1. Persists
    BY <1>2, FetchMissIInv, CutFetchIInv
  <2>2. UNCHANGED << latest, superblock >> /\ used' = used \union {p} /\ phase = "open"
    BY <1>2 DEF FetchMiss, CutFetch, phase
  <2>3. phase' \in {"open", "closing"}
    BY <1>2 DEF FetchMiss, CutFetch, Cut, StartFlush, control, phase
  <2> QED
    BY <2>1, <2>2, <2>3, UseRefines
<1>3. ASSUME WriteRow
      PROVE  [Store!Next]_(Store!vars)
  <2>1. PICK c \in Contents : latest' = [latest EXCEPT ![held.pageId] = c]
    BY <1>3, WriteRowIInv
  <2>2. /\ UNCHANGED << disk, used, superblock >> /\ held.pageId \in PageIds
        /\ phase = "open" /\ phase' = "open"
    BY <1>3, WriteRowIInv DEF WriteRow, file, control, phase
  <2> QED
    BY <2>1, <2>2, WriteRefines DEF Store!Next
<1>4. ASSUME CutWrite
      PROVE  [Store!Next]_(Store!vars)
  <2>1. /\ UNCHANGED << disk, used, superblock >> /\ held.pageId \in PageIds
        /\ phase = "open" /\ phase' = "closing"
    BY <1>4, CutWriteIInv DEF CutWrite, Cut, StartFlush, file, phase
  <2>2. CASE latest' = latest
    <3>1. Store!Close
      BY <2>1, <2>2, SameRefines DEF Store!Close
    <3> QED
      BY <3>1 DEF Store!Next
  <2>3. ASSUME NEW c \in Contents, latest' = [latest EXCEPT ![held.pageId] = c]
        PROVE  [Store!Next]_(Store!vars)
    BY <2>1, <2>3, WriteRefines DEF Store!Next
  <2> QED
    BY <1>4, <2>2, <2>3, CutWriteIInv
<1>5. ASSUME Allocate \/ CutAllocate
      PROVE  Store!Empty
  <2>1. superblock = totalPages /\ superblock' = superblock /\ phase = "open"
    BY <1>5 DEF Allocate, CutAllocate, IInv, Counted, phase
  <2>2. CASE Allocate
    <3>1. phase' = "open"
      BY <2>2, Idle DEF Allocate, phase
    <3> QED
      BY <2>1, <2>2, <3>1, AllocateIInv, EmptyRefines
  <2>3. CASE CutAllocate
    <3>1. phase' = "closing"
      BY <2>3 DEF CutAllocate, Cut, StartFlush, phase
    <3> QED
      BY <2>1, <2>3, <3>1, CutAllocateIInv, EmptyRefines
  <2> QED
    BY <1>5, <2>2, <2>3
<1>6. ASSUME CountPage
      PROVE  Store!Count
  <2>1. superblock' = superblock + 1 /\ superblock + 1 \in PageIds
    BY <1>6, CountPageIInv
  <2>2. UNCHANGED << disk, latest, used >> /\ phase = "open" /\ phase' = "open"
    BY <1>6, Idle DEF CountPage, history, phase
  <2> QED
    BY <2>1, <2>2, SameRefines DEF Store!Count
<1>7. ASSUME Flush
      PROVE  UNCHANGED Store!vars
  BY <1>7, Idle, SameRefines DEF Flush, StartFlush, file, history, phase, Store!vars
<1>8. ASSUME Shutdown \/ Sigint \/ CutCount
      PROVE  Store!Close \/ UNCHANGED Store!vars
  <2>1. /\ phase = "open" \/ phase = "closing"
        /\ phase' = "closing"
        /\ UNCHANGED << disk, latest, used, superblock >>
    BY <1>8 DEF Shutdown, Sigint, CutCount, Cut, StartFlush, file, history, phase
  <2> QED
    BY <2>1, SameRefines DEF Store!Close, Store!vars
<1>9. ASSUME FlushPage
      PROVE  Store!Persist
  <2>1. Persists
    BY <1>9, FlushPageIInv
  <2>2. /\ UNCHANGED << latest, used, superblock >> /\ phase' = phase
        /\ phase \in {"open", "closing"}
    BY <1>9 DEF FlushPage, history, phase
  <2>3. Latest' = Latest
    BY <2>2 DEF Latest, Alone, FrameOf
  <2> QED
    BY <2>1, <2>2, <2>3, PersistsSame DEF Store!Persist, Shown
<1>10. ASSUME FlushDone
       PROVE  Store!Exit \/ UNCHANGED Store!vars
  <2>1. /\ superblock' \in {superblock, superblock + 1}
        /\ exiting = "none" => superblock' = superblock
        /\ \A p \in PageIds : Alone(p) => OnDisk(p) = latest[p]
    BY <1>10, FlushDoneIInv
  <2>2. /\ UNCHANGED << disk, latest, used >>
        /\ exiting = "none" => phase = "open" /\ phase' = "open"
        /\ exiting # "none" => phase = "closing" /\ phase' = "exited"
    BY <1>10 DEF FlushDone, history, phase
  <2>3. durable = current
    BY <2>1 DEF Shown, Latest, durable
  <2> QED
    BY <2>1, <2>2, <2>3, SameRefines DEF Store!Exit, Store!vars
<1>11. ASSUME Kill
       PROVE  Store!Crash
  <2>1. /\ phase \in {"open", "closing"} /\ phase' = "crashed"
        /\ UNCHANGED << disk, superblock, used >>
    BY <1>11 DEF Kill, file, phase
  <2>2. durable' = durable
    BY <2>1 DEF durable, OnDisk, Alone, FrameOf
  <2>3. \A p \in PageIds : latest'[p] = OnDisk(p) /\ (Alone(p)' <=> Alone(p))
    BY <1>11, <2>1 DEF Kill, Alone, FrameOf
  <2>4. Latest' = durable
    BY <2>3 DEF Latest, durable
  <2> QED
    BY <2>1, <2>2, <2>4 DEF Store!Crash, Shown
<1>12. ASSUME Restart
       PROVE  Store!Restart
  <2>1. /\ phase \in {"exited", "crashed"} /\ phase' = "open"
        /\ UNCHANGED << disk, latest, used, superblock >>
    BY <1>12 DEF Restart, file, history, phase
  <2> QED
    BY <2>1, SameRefines DEF Store!Restart
<1>13. ASSUME UNCHANGED vars
       PROVE  UNCHANGED Store!vars
  BY <1>13, SameRefines DEF vars, file, control, history, phase, Store!vars
<1> QED
  BY <1>1, <1>2, <1>3, <1>4, <1>5, <1>6, <1>7, <1>8, <1>9, <1>10, <1>11, <1>12, <1>13
     DEF Next, Store!Next

\* As long as a page is the only one in use of its frame, and whatever the pool
\* loses of the others, the pager is a page store: reads see writes, a kill falls
\* back to what was on disk, and a shutdown or a SIGINT, wherever it cuts into an
\* operation, leaves everything there.
THEOREM Refinement == Spec => ImplementsStore
<1>1. Init => Store!Init
  <2> SUFFICES ASSUME Init PROVE Store!Init
    OBVIOUS
  <2>1. current = Latest
    BY InitIInv, CurrentIsLatest DEF Shown
  <2>2. Latest = [p \in PageIds |-> Blank] /\ durable = [p \in PageIds |-> Blank]
    BY DEF Init, Latest, durable, OnDisk
  <2> QED
    BY <2>1, <2>2 DEF Init, Store!Init, phase
<1>2. IInv => Shown
  BY CurrentIsLatest
<1>3. IInv /\ IInv' /\ Shown /\ Shown' /\ [Next]_vars => [Store!Next]_(Store!vars)
  BY StepRefines
<1> QED
  BY <1>1, <1>2, <1>3, Invariance, PTL DEF Spec, ImplementsStore, Store!Spec

(***************************************************************************)
(* The order a flush leaves the pages in.                                  *)
(***************************************************************************)
\* The pages behind the flush are at the front of the list, the last first.
Passed ==
  pc = "flushing" /\ exiting # "handler" =>
    \A i, j \in 1 .. Len(cache.lruList) :
      i < j /\ cache.lruList[j] < flushNext =>
        cache.lruList[i] < flushNext /\ cache.lruList[i] > cache.lruList[j]

LEMMA FlushPagePassed ==
  ASSUME IInv, Passed, FlushPage, exiting # "handler"
  PROVE  Passed'
<1> DEFINE n == flushNext
           s == cache.lruList
           t == cache'.lruList
<1>1. /\ pc = "flushing" /\ n < MaxPages /\ cache' = Touched(cache, n) /\ n' = n + 1
      /\ exiting' = exiting
  BY DEF FlushPage
<1>2. /\ cache \in CacheType /\ Agree(cache) /\ s \in Seq(PageIds)
      /\ n \in Nat /\ n \in PageIds /\ PageIds \subseteq Nat
      /\ \A k \in 1 .. Len(s) : s[k] \in Nat
      /\ cache' = GetPage(cache, n)
  BY <1>1, PagerAssumption, TouchedKeeps DEF IInv, TypeOK, PoolIsSound, CacheType
<1>3. CASE n \in Cached(cache)
  <2>1. PICK m \in 1 .. Len(s) : s[m] = n /\ t = MoveToFront(s, m)
    BY <1>2, <1>3, GetPageFacts
  <2> DEFINE old(k) == IF k = 1 THEN m ELSE IF k <= m THEN k - 1 ELSE k
  <2>2. /\ Len(t) = Len(s) /\ t[1] = n
        /\ \A k \in 1 .. Len(s) : old(k) \in 1 .. Len(s) /\ t[k] = s[old(k)]
    <3>1. PICK q \in Seq(PageIds) : q = s
      BY <1>2
    <3>2. PICK u : u = t
      OBVIOUS
    <3>3. m \in 1 .. Len(q) /\ q[m] = n /\ u = MoveToFront(q, m)
      BY <2>1, <3>1, <3>2
    <3>4. /\ Len(u) = Len(q) /\ u[1] = n
          /\ \A k \in 1 .. Len(q) : old(k) \in 1 .. Len(q) /\ u[k] = q[old(k)]
      BY <3>3, MoveToFrontFacts
    <3> QED
      BY <3>1, <3>2, <3>4
  <2>3. /\ \A k \in 2 .. Len(s) : old(k) # m
        /\ \A k, l \in 2 .. Len(s) : k < l => old(k) < old(l)
    OBVIOUS
  <2> HIDE DEF t, old
  <2>4. ASSUME NEW k \in 2 .. Len(s)
        PROVE  t[k] # n
    <3>1. old(k) \in 1 .. Len(s) /\ old(k) # m /\ t[k] = s[old(k)]
      BY <2>2, <2>3
    <3> QED
      BY <1>2, <2>1, <3>1 DEF Agree
  <2>5. ASSUME NEW i \in 1 .. Len(s), NEW j \in 1 .. Len(s), i < j, t[j] < n + 1
        PROVE  t[i] < n + 1 /\ t[i] > t[j]
    <3>1. j \in 2 .. Len(s) /\ t[j] \in Nat /\ t[j] < n
      <4>1. j \in 2 .. Len(s)
        BY <2>5
      <4>2. t[j] \in Nat /\ t[j] # n
        BY <1>2, <2>2, <2>4, <4>1
      <4> QED
        BY <1>2, <2>5, <4>1, <4>2
    <3>2. CASE i = 1
      BY <1>2, <2>2, <3>1, <3>2, SMTT(30)
    <3>3. CASE i # 1
      <4>1. /\ old(i) \in 1 .. Len(s) /\ old(j) \in 1 .. Len(s) /\ old(i) < old(j)
            /\ t[i] = s[old(i)] /\ t[j] = s[old(j)]
        BY <2>2, <2>3, <2>5, <3>1, <3>3
      <4>2. t[i] < n /\ t[i] > t[j]
        BY <1>1, <3>1, <4>1 DEF Passed
      <4> QED
        BY <1>2, <4>1, <4>2
    <3> QED
      BY <3>2, <3>3
  <2> QED
    BY <1>1, <2>2, <2>5 DEF Passed, t
<1>4. CASE n \notin Cached(cache)
  <2>1. cache' = cache
    BY <1>2, <1>4 DEF GetPage
  <2>2. \A k \in 1 .. Len(s) : s[k] < n + 1 => s[k] < n
    BY <1>2, <1>4 DEF Agree
  <2> QED
    BY <1>1, <1>2, <2>1, <2>2 DEF Passed
<1> QED
  BY <1>3, <1>4

\* A flush that comes back leaves the pages in the order of their ids, whatever
\* was used when.
THEOREM FlushOrder == Spec => []FlushForgetsRecency
<1>1. Init => Passed
  BY DEF Init, Passed
<1>2. IInv /\ Passed /\ [Next]_vars => Passed'
  <2> SUFFICES ASSUME IInv, Passed, [Next]_vars
               PROVE  Passed'
    OBVIOUS
  <2>1. CASE FlushPage
    <3>1. exiting = "handler" => exiting' = "handler"
      BY <2>1 DEF FlushPage
    <3> QED
      BY <2>1, <3>1, FlushPagePassed DEF Passed
  <2>2. CASE Flush \/ Shutdown
    <3>1. flushNext' = 1 /\ cache' = cache
      BY <2>2 DEF Flush, Shutdown, StartFlush, memory
    <3>2. \A j \in 1 .. Len(cache.lruList) : ~ cache.lruList[j] < 1
      BY PagerAssumption DEF IInv, TypeOK, CacheType
    <3> QED
      BY <3>1, <3>2 DEF Passed
  <2>3. CASE UNCHANGED vars
    BY <2>3 DEF Passed, vars, memory, control
  <2>4. CASE Next /\ ~ FlushPage /\ ~ (Flush \/ Shutdown)
    <3>1. pc' # "flushing" \/ exiting' = "handler"
      BY <2>4 DEF Next, FetchHit, FetchMiss, CutFetch, WriteRow, CutWrite, Allocate, CutAllocate,
                  CountPage, CutCount, Sigint, Cut, StartFlush, FlushDone, Kill, Restart, control
    <3> QED
      BY <3>1 DEF Passed
  <2> QED
    BY <2>1, <2>2, <2>3, <2>4
<1>3. IInv /\ Passed => FlushForgetsRecency
  <2> SUFFICES ASSUME IInv, Passed, pc = "flushing", flushNext = MaxPages, exiting # "handler",
                      NEW i \in 1 .. Len(cache.lruList), NEW j \in 1 .. Len(cache.lruList), i < j
               PROVE  cache.lruList[i] > cache.lruList[j]
    BY DEF FlushForgetsRecency
  <2>1. cache.lruList[j] < flushNext
    BY PagerAssumption DEF IInv, TypeOK, CacheType
  <2> QED
    BY <2>1 DEF Passed
<1> QED
  BY <1>1, <1>2, <1>3, Invariance, PTL DEF Spec
=============================================================================
