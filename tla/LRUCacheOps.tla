---------------------------- MODULE LRUCacheOps ----------------------------
(***************************************************************************)
(* The operations of LRUCache (src/storage/LRUCache.cpp) as functions on a *)
(* cache value, so that the cache alone (LRUCache) and the pager that owns *)
(* one (Pager) share a single translation.                                 *)
(*                                                                         *)
(* A cache value is a record                                               *)
(*   lruList         the page ids of the nodes of lruList_, head first     *)
(*   hashTable       page id -> CacheEntry, NoEntry where findEntry        *)
(*                   returns null (512 chained buckets in the code)        *)
(*   size            size_                                                 *)
(* The statistics evictionCount_ and pageFaultCount_ decide nothing and    *)
(* are kept by the modules that speak of them.                             *)
(***************************************************************************)
EXTENDS Integers, Sequences, SequencesExt

CONSTANTS
  PageIds,   \* the page ids in use
  Frames,    \* the Page objects a CacheEntry may point to
  Capacity,  \* capacity_, the pool size given to the constructor
  NoEntry    \* the null CacheEntry*

ASSUME CapacityAssumption == Capacity \in Nat \ {0}
ASSUME NoEntryAssumption == NoEntry \notin [page : Frames, pinned : BOOLEAN]

CacheEntry == [page : Frames, pinned : BOOLEAN]

CacheType == [lruList   : Seq(PageIds),
              hashTable : [PageIds -> CacheEntry \union {NoEntry}],
              size      : Nat]

EmptyCache ==
  [lruList |-> << >>, hashTable |-> [p \in PageIds |-> NoEntry], size |-> 0]

\* The pages findEntry finds.
Cached(c) == {p \in PageIds : c.hashTable[p] # NoEntry}

\* lruList_, hashTable_ and size_ are three records of the same set of pages:
\* every entry has exactly one node, no node is left without an entry, and size_
\* counts the nodes.
Agree(c) ==
  /\ \A p \in Cached(c) : \E i \in 1 .. Len(c.lruList) : c.lruList[i] = p
  /\ \A i \in 1 .. Len(c.lruList) : c.lruList[i] \in Cached(c)
  /\ \A i, j \in 1 .. Len(c.lruList) : c.lruList[i] = c.lruList[j] => i = j
  /\ c.size = Len(c.lruList)

(***************************************************************************)
(* The list.  A node is named by its position.                             *)
(***************************************************************************)
\* The node entry->dllNode of page p: the nearest to the head, since only
\* that node is ever moved (another one of p's can only be left by clear).
NodeOf(s, p) == CHOOSE i \in 1 .. Len(s) :
                  s[i] = p /\ \A j \in 1 .. i - 1 : s[j] # p

\* DoublyLinkedList::moveToFront of node i.
MoveToFront(s, i) ==
  [j \in 1 .. Len(s) |-> IF j = 1 THEN s[i] ELSE IF j <= i THEN s[j - 1] ELSE s[j]]

\* DoublyLinkedList::pushFront.
PushFront(s, p) == Cons(p, s)

\* DoublyLinkedList::removeNode of the last node.
RemoveTail(s) == Front(s)

(***************************************************************************)
(* The cache.                                                              *)
(***************************************************************************)
\* Mutation: a hit that leaves the list as it is.
GetPage_NoMove(c, p) == c

\* getPage: a hit makes the page the most recently used one; a miss changes
\* nothing but the count of page faults.
GetPage(c, p) ==
  IF p \in Cached(c) THEN [c EXCEPT !.lruList = MoveToFront(@, NodeOf(@, p))] ELSE c

\* Mutation: evictLRU without the test of pinned.
CanEvict_Pinned(c) == c.lruList # << >> /\ Last(c.lruList) \in Cached(c)

\* The page at the tail, and whether evictLRU goes past its early returns.
Victim(c) == Last(c.lruList)
CanEvict(c) == /\ c.lruList # << >>
               /\ Victim(c) \in Cached(c)
               /\ ~ c.hashTable[Victim(c)].pinned

\* The list after evictLRU: a dirty victim is written through Pager::writePage,
\* whose getPage moves the victim's entry to the front before the node that was
\* the tail is unlinked.  Only a second node of the same page makes a difference.
Unlinked(s, dirty) ==
  LET rest == RemoveTail(s)
      v    == Last(s)
  IN  IF dirty /\ v \in ToSet(rest) THEN MoveToFront(rest, NodeOf(rest, v)) ELSE rest

\* Mutations: evictLRU that keeps the entry with a null Page*; that forgets --size_.
EvictLRU_NullPage(c, dirty) ==
  IF CanEvict(c)
  THEN [c EXCEPT !.lruList = Unlinked(@, dirty),
                 !.hashTable[Victim(c)].page = NoEntry,
                 !.size = @ - 1]
  ELSE c

EvictLRU_NoCount(c, dirty) ==
  IF CanEvict(c)
  THEN [c EXCEPT !.lruList = Unlinked(@, dirty), !.hashTable[Victim(c)] = NoEntry]
  ELSE c

\* evictLRU, dirty telling whether the victim's Page has isDirty set.
EvictLRU(c, dirty) ==
  IF CanEvict(c)
  THEN [c EXCEPT !.lruList = Unlinked(@, dirty),
                 !.hashTable[Victim(c)] = NoEntry,
                 !.size = @ - 1]
  ELSE c

\* The page that putPage(p) evicts, as a set of at most one page.
Evicts(c, p) ==
  IF p \notin Cached(c) /\ c.size >= Capacity /\ CanEvict(c) THEN {Victim(c)} ELSE {}

\* The victim's node is deleted, its entry is still there and points to it.
Dangling(c, dirty) == [c EXCEPT !.lruList = Unlinked(@, dirty)]

\* The caches that findEntry and getPage find in the middle of a putPage(p) that
\* misses.  The order of the list, size_ and the node pushFront adds before
\* insertEntry do not show there.
MidPut(c, p, dirty) ==
  {c} \union IF Evicts(c, p) = {} THEN {} ELSE {Dangling(c, dirty), EvictLRU(c, dirty)}

\* getPage when an entry may point to a deleted node.  Moving that is undefined:
\* the process dies of it or goes on with the node at the front.
Touched(c, p) ==
  IF p \in Cached(c) \ ToSet(c.lruList) THEN [c EXCEPT !.lruList = PushFront(@, p)]
  ELSE GetPage(c, p)

\* insertEntry after pushFront.
Insert(c, p, page) ==
  [c EXCEPT !.lruList = PushFront(@, p),
            !.hashTable[p] = [page |-> page, pinned |-> FALSE],
            !.size = @ + 1]

\* Mutations: putPage with > for >=; that does not touch the list for a page
\* already cached.
PutPage_OffByOne(c, p, page, dirty) ==
  IF p \in Cached(c)
  THEN GetPage(c, p)
  ELSE Insert(IF c.size > Capacity THEN EvictLRU(c, dirty) ELSE c, p, page)

PutPage_NoTouch(c, p, page, dirty) ==
  IF p \in Cached(c)
  THEN c
  ELSE Insert(IF c.size >= Capacity THEN EvictLRU(c, dirty) ELSE c, p, page)

\* putPage of the Page object page, whose pageId is p: a page already cached
\* keeps its entry, and with it the Page object it was first put with.
PutPage(c, p, page, dirty) ==
  IF p \in Cached(c)
  THEN GetPage(c, p)
  ELSE Insert(IF c.size >= Capacity THEN EvictLRU(c, dirty) ELSE c, p, page)

\* pinPage and unpinPage of a cached page; any other page is ignored.
SetPinned(c, p, b) == [c EXCEPT !.hashTable[p].pinned = b]
=============================================================================
