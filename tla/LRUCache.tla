------------------------------ MODULE LRUCache ------------------------------
(***************************************************************************)
(* The page cache on its own (src/storage/LRUCache.cpp): one action per    *)
(* public operation, called in any order by its owner.  Every page id has  *)
(* a Page object of its own here; that two ids can share one is the        *)
(* pager's doing and is modelled there.                                    *)
(***************************************************************************)
EXTENDS LRUCacheOps, FiniteSets

VARIABLES
  cache,           \* lruList_, hashTable_ and size_
  pageFaultCount,  \* pageFaultCount_
  evictionCount,   \* evictionCount_
  pages,           \* the flags of the Page object of every page id
  usedSince,       \* history: the pages used since page p last was
  pinnedOnce       \* history: pinPage has pinned some page

counters == << pageFaultCount, evictionCount >>
history == << usedSince, pinnedOnce >>
vars == << cache, counters, pages, history >>

ASSUME OwnFrames == Frames = PageIds

Init ==
  /\ cache = EmptyCache
  /\ pageFaultCount = 0
  /\ evictionCount = 0
  /\ pages = [p \in PageIds |-> [isDirty |-> FALSE, isPinned |-> FALSE]]
  /\ usedSince = [p \in PageIds |-> {}]
  /\ pinnedOnce = FALSE

\* Page p has just been asked for or handed over.
Use(p) == usedSince' = [q \in PageIds |-> IF q = p THEN {} ELSE usedSince[q] \union {p}]

\* evictLRU looks at the isDirty of the page at the tail.
VictimDirty == cache.lruList # << >> /\ pages[Victim(cache)].isDirty

Hit(p) ==
  /\ p \in Cached(cache)
  /\ cache' = GetPage(cache, p)
  /\ Use(p)
  /\ UNCHANGED << counters, pages, pinnedOnce >>

Miss(p) ==
  /\ p \notin Cached(cache)
  /\ cache' = GetPage(cache, p)
  /\ pageFaultCount' = pageFaultCount + 1
  /\ UNCHANGED << evictionCount, pages, history >>

\* putPage; an evicted dirty page is written out, which clears its isDirty.
Put(p) ==
  /\ cache' = PutPage(cache, p, p, VictimDirty)
  /\ evictionCount' = evictionCount + Cardinality(Evicts(cache, p))
  /\ pages' = [q \in PageIds |-> IF q \in Evicts(cache, p)
                                 THEN [pages[q] EXCEPT !.isDirty = FALSE] ELSE pages[q]]
  /\ Use(p)
  /\ UNCHANGED << pageFaultCount, pinnedOnce >>

Pin(p) ==
  /\ p \in Cached(cache)
  /\ cache' = SetPinned(cache, p, TRUE)
  /\ pages' = [pages EXCEPT ![p].isPinned = TRUE]
  /\ pinnedOnce' = TRUE
  /\ UNCHANGED << counters, usedSince >>

Unpin(p) ==
  /\ p \in Cached(cache)
  /\ cache' = SetPinned(cache, p, FALSE)
  /\ pages' = [pages EXCEPT ![p].isPinned = FALSE]
  /\ UNCHANGED << counters, history >>

\* The holder of a Page pointer writes a row into it (Page::writeRow).
WriteRow(p) ==
  /\ pages' = [pages EXCEPT ![p].isDirty = TRUE]
  /\ UNCHANGED << cache, counters, history >>

Next == \E p \in PageIds : \/ Hit(p)
                           \/ Miss(p)
                           \/ Put(p)
                           \/ Pin(p)
                           \/ Unpin(p)
                           \/ WriteRow(p)

Spec == Init /\ [][Next]_vars

(***************************************************************************)
(* Properties.                                                             *)
(***************************************************************************)
\* The types of the cache object, the Page flags and the history variables.
TypeOK ==
  /\ cache \in CacheType
  /\ pageFaultCount \in Nat
  /\ evictionCount \in Nat
  /\ pages \in [PageIds -> [isDirty : BOOLEAN, isPinned : BOOLEAN]]
  /\ usedSince \in [PageIds -> SUBSET PageIds]
  /\ pinnedOnce \in BOOLEAN

\* lruList_, hashTable_ and size_, kept by hand in getPage, putPage and evictLRU,
\* stay three records of the same set of pages.
ListMatchesTable == Agree(cache)

\* The list is in order of use: a page nearer to the head has been used since
\* every page behind it last was, whatever writes evictLRU made on the way
\* (its write goes through getPage, which reorders the list).
RecencyOrder ==
  \A i, j \in 1 .. Len(cache.lruList) :
    i < j => cache.lruList[i] \in usedSince[cache.lruList[j]]

\* The page evictLRU throws out is the least recently used of all: every other
\* page that was cached has been used since.
EvictsLeastRecent ==
  [][\A v \in Cached(cache) \ Cached(cache)' :
       Cached(cache) \ {v} \subseteq usedSince[v]]_vars

\* The pool never holds more pages than it has room for unless some page was
\* pinned: evictLRU gives up on a pinned tail and putPage inserts all the same.
OverflowOnlyAfterPin == cache.size > Capacity => pinnedOnce

\* Once it holds more, it does so for good: putPage evicts at most one page for
\* the one it inserts, so unpinning does not bring the cache back to capacity.
GrowthIsPermanent == [][cache'.size >= cache.size]_vars

\* A pinned page is in the cache and stays there until it is unpinned; the flag
\* of the entry and that of the Page object say the same.
PinnedPagesAreHeld ==
  \A p \in PageIds :
    pages[p].isPinned <=> (p \in Cached(cache) /\ cache.hashTable[p].pinned)
=============================================================================
