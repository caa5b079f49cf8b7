--------------------------- MODULE LRUCache_proofs ---------------------------
(***************************************************************************)
(* The cache keeps its books and evicts the least recently used page, for  *)
(* every set of pages and every capacity.                                  *)
(***************************************************************************)
EXTENDS LRUCache, LRUCacheOps_proofs, FiniteSetTheorems

\* The invariant is the properties of LRUCache and what relates an entry's pinned
\* to the history, without which an overflow could not be blamed on a pin.
PinsAreKnown == \A p \in Cached(cache) : cache.hashTable[p].pinned => pinnedOnce

IInv ==
  /\ TypeOK
  /\ ListMatchesTable
  /\ RecencyOrder
  /\ PinnedPagesAreHeld
  /\ PinsAreKnown
  /\ OverflowOnlyAfterPin

(***************************************************************************)
(* The order of use, and what the operations on the list do to it.         *)
(***************************************************************************)
InOrder(s, since) == \A i, j \in 1 .. Len(s) : i < j => s[i] \in since[s[j]]

\* usedSince after a use of page p.
AfterUse(since, p) == [q \in PageIds |-> IF q = p THEN {} ELSE since[q] \union {p}]

\* Moving the node of a page to the front keeps the order if that page is used.
LEMMA MoveToFrontInOrder ==
  ASSUME NEW s \in Seq(PageIds), NoRepeats(s), NEW n \in 1 .. Len(s),
         NEW since \in [PageIds -> SUBSET PageIds], InOrder(s, since)
  PROVE  InOrder(MoveToFront(s, n), AfterUse(since, s[n]))
<1> DEFINE t == MoveToFront(s, n)
           after == AfterUse(since, s[n])
           old(k) == IF k = 1 THEN n ELSE IF k <= n THEN k - 1 ELSE k
<1>1. Len(t) = Len(s) /\ \A k \in 1 .. Len(s) : old(k) \in 1 .. Len(s) /\ t[k] = s[old(k)]
  BY MoveToFrontFacts
<1>2. \A k \in 2 .. Len(s) : old(k) # n
  OBVIOUS
<1>3. \A k, l \in 2 .. Len(s) : k < l => old(k) < old(l)
  OBVIOUS
<1> HIDE DEF t, old
<1>4. ASSUME NEW k \in 2 .. Len(s)
      PROVE  after[t[k]] = since[t[k]] \union {s[n]}
  <2>1. t[k] = s[old(k)] /\ old(k) \in 1 .. Len(s) /\ old(k) # n
    BY <1>1, <1>2
  <2>2. s[old(k)] # s[n] /\ s[old(k)] \in PageIds
    BY <2>1 DEF NoRepeats
  <2> QED
    BY <2>1, <2>2 DEF AfterUse
<1>5. SUFFICES ASSUME NEW k \in 1 .. Len(s), NEW l \in 1 .. Len(s), k < l
               PROVE  t[k] \in after[t[l]]
  BY <1>1 DEF InOrder, t
<1>6. l \in 2 .. Len(s) /\ after[t[l]] = since[t[l]] \union {s[n]}
  BY <1>4, <1>5
<1>7. CASE k = 1
  <2>1. t[k] = s[n]
    BY <1>1, <1>7 DEF old
  <2> QED
    BY <1>6, <2>1
<1>8. CASE k # 1
  <2>1. old(k) < old(l) /\ old(k) \in 1 .. Len(s) /\ old(l) \in 1 .. Len(s)
    BY <1>1, <1>3, <1>5, <1>6, <1>8
  <2>2. s[old(k)] \in since[s[old(l)]]
    BY <2>1 DEF InOrder
  <2> QED
    BY <1>1, <1>6, <2>2
<1> QED
  BY <1>7, <1>8

\* So does a new node in front for a page that had none.
LEMMA PushFrontInOrder ==
  ASSUME NEW s \in Seq(PageIds), NEW p \in PageIds, \A i \in 1 .. Len(s) : s[i] # p,
         NEW since \in [PageIds -> SUBSET PageIds], InOrder(s, since)
  PROVE  InOrder(PushFront(s, p), AfterUse(since, p))
<1> DEFINE t == PushFront(s, p)
           after == AfterUse(since, p)
<1>1. /\ Len(t) = Len(s) + 1
      /\ t[1] = p
      /\ \A j \in 2 .. Len(s) + 1 : t[j] = s[j - 1]
  BY PushFrontFacts
<1> HIDE DEF t
<1>2. SUFFICES ASSUME NEW k \in 1 .. Len(s) + 1, NEW l \in 1 .. Len(s) + 1, k < l
               PROVE  t[k] \in after[t[l]]
  BY <1>1 DEF InOrder, t
<1>3. l - 1 \in 1 .. Len(s) /\ t[l] = s[l - 1]
  BY <1>1, <1>2
<1>4. s[l - 1] # p /\ s[l - 1] \in PageIds
  BY <1>3
<1>5. after[t[l]] = since[s[l - 1]] \union {p}
  BY <1>3, <1>4 DEF AfterUse
<1>6. CASE k = 1
  BY <1>1, <1>5, <1>6
<1>7. CASE k # 1
  <2>1. k - 1 \in 1 .. Len(s) /\ t[k] = s[k - 1] /\ k - 1 < l - 1
    BY <1>1, <1>2, <1>7
  <2>2. s[k - 1] \in since[s[l - 1]]
    BY <1>3, <2>1 DEF InOrder
  <2> QED
    BY <1>5, <2>1, <2>2
<1> QED
  BY <1>6, <1>7

\* Dropping the last node keeps the order of the others.
LEMMA RemoveTailInOrder ==
  ASSUME NEW s \in Seq(PageIds), s # << >>,
         NEW since \in [PageIds -> SUBSET PageIds], InOrder(s, since)
  PROVE  InOrder(RemoveTail(s), since)
<1> DEFINE t == RemoveTail(s)
<1>1. Len(s) \in Nat /\ Len(t) = Len(s) - 1 /\ \A j \in 1 .. Len(s) - 1 : t[j] = s[j]
  BY RemoveTailFacts
<1> HIDE DEF t
<1>2. SUFFICES ASSUME NEW k \in 1 .. Len(s) - 1, NEW l \in 1 .. Len(s) - 1, k < l
               PROVE  t[k] \in since[t[l]]
  BY <1>1 DEF InOrder, t
<1>3. k \in 1 .. Len(s) /\ l \in 1 .. Len(s)
  BY <1>1
<1> QED
  BY <1>1, <1>2, <1>3 DEF InOrder

\* RecencyOrder is InOrder of the variables.
LEMMA InOrderIsRecencyOrder == RecencyOrder <=> InOrder(cache.lruList, usedSince)
  BY DEF RecencyOrder, InOrder

(***************************************************************************)
(* The actions.                                                            *)
(***************************************************************************)
\* The empty cache satisfies the invariant.
LEMMA InitIInv == Init => IInv
<1> SUFFICES ASSUME Init PROVE IInv
  OBVIOUS
<1>1. cache = EmptyCache /\ cache \in CacheType /\ Agree(cache)
  BY EmptyCacheAgrees DEF Init
<1>2. cache.lruList = << >> /\ cache.size = 0 /\ Cached(cache) = {}
  BY <1>1 DEF EmptyCache, Cached
<1>3. TypeOK
  BY <1>1 DEF Init, TypeOK
<1>4. RecencyOrder
  BY <1>2 DEF RecencyOrder
<1>5. PinnedPagesAreHeld /\ PinsAreKnown
  BY <1>2 DEF Init, PinnedPagesAreHeld, PinsAreKnown
<1>6. OverflowOnlyAfterPin
  BY <1>2, CapacityAssumption DEF OverflowOnlyAfterPin
<1> QED
  BY <1>1, <1>3, <1>4, <1>5, <1>6 DEF IInv, ListMatchesTable

\* A hit, by getPage or by putPage of a page already cached.
LEMMA TouchIInv ==
  ASSUME IInv, NEW p \in Cached(cache), cache' = GetPage(cache, p), Use(p),
         pages' = pages, pinnedOnce' = pinnedOnce,
         pageFaultCount' \in Nat, evictionCount' \in Nat
  PROVE  IInv' /\ cache'.size = cache.size /\ Cached(cache)' = Cached(cache)
<1>1. cache \in CacheType /\ Agree(cache) /\ p \in PageIds
  BY DEF IInv, TypeOK, ListMatchesTable, Cached
<1>2. /\ cache' \in CacheType
      /\ Agree(cache')
      /\ cache'.hashTable = cache.hashTable
      /\ cache'.size = cache.size
  BY <1>1, GetPageFacts
<1>3. PICK i \in 1 .. Len(cache.lruList) :
        cache.lruList[i] = p /\ cache'.lruList = MoveToFront(cache.lruList, i)
  BY <1>1, GetPageFacts
<1>4. Cached(cache') = Cached(cache) /\ Cached(cache)' = Cached(cache')
  BY <1>2 DEF Cached
<1>5. usedSince' = AfterUse(usedSince, p) /\ usedSince' \in [PageIds -> SUBSET PageIds]
  BY <1>1 DEF Use, AfterUse, IInv, TypeOK
<1>6. TypeOK'
  BY <1>2, <1>5 DEF IInv, TypeOK
<1>7. RecencyOrder'
  <2>1. cache.lruList \in Seq(PageIds) /\ NoRepeats(cache.lruList)
    BY <1>1 DEF CacheType, Agree, NoRepeats
  <2>2. InOrder(cache.lruList, usedSince) /\ usedSince \in [PageIds -> SUBSET PageIds]
    BY InOrderIsRecencyOrder DEF IInv, TypeOK
  <2>3. InOrder(cache'.lruList, usedSince')
    BY <1>3, <1>5, <2>1, <2>2, MoveToFrontInOrder
  <2> QED
    BY <2>3 DEF RecencyOrder, InOrder
<1>8. PinnedPagesAreHeld' /\ PinsAreKnown'
  BY <1>2, <1>4 DEF IInv, PinnedPagesAreHeld, PinsAreKnown
<1>9. OverflowOnlyAfterPin'
  BY <1>2 DEF IInv, OverflowOnlyAfterPin
<1> QED
  BY <1>2, <1>4, <1>6, <1>7, <1>8, <1>9 DEF IInv, ListMatchesTable

\* A pool that is full but cannot evict has a pinned page at the tail.
LEMMA StuckOnAPin ==
  ASSUME IInv, cache.size >= Capacity, ~ CanEvict(cache)
  PROVE  pinnedOnce
<1>1. cache \in CacheType /\ Agree(cache)
  BY DEF IInv, TypeOK, ListMatchesTable
<1>2. Len(cache.lruList) \in Nat /\ Len(cache.lruList) >= 1 /\ cache.lruList \in Seq(PageIds)
  BY <1>1, CapacityAssumption DEF Agree, CacheType
<1>3. cache.lruList # << >>
  BY <1>2
<1>4. Victim(cache) = cache.lruList[Len(cache.lruList)]
  BY DEF Victim, Last
<1>5. Victim(cache) \in Cached(cache)
  BY <1>1, <1>2, <1>4 DEF Agree
<1>6. cache.hashTable[Victim(cache)].pinned
  BY <1>3, <1>5 DEF CanEvict
<1> QED
  BY <1>5, <1>6 DEF IInv, PinsAreKnown

\* The isDirty evictLRU looks at.
LEMMA VictimDirtyIsBoolean == TypeOK => VictimDirty \in BOOLEAN
<1> SUFFICES ASSUME TypeOK PROVE VictimDirty \in BOOLEAN
  OBVIOUS
<1>1. CASE cache.lruList = << >>
  BY <1>1 DEF VictimDirty
<1>2. CASE cache.lruList # << >>
  <2>1. cache.lruList \in Seq(PageIds) /\ Len(cache.lruList) \in 1 .. Len(cache.lruList)
    BY <1>2, RemoveTailFacts DEF TypeOK, CacheType
  <2>2. Victim(cache) \in PageIds
    BY <2>1 DEF Victim, Last
  <2>3. pages[Victim(cache)].isDirty \in BOOLEAN
    BY <2>2 DEF TypeOK
  <2> QED
    BY <2>3, <1>2 DEF VictimDirty
<1> QED
  BY <1>1, <1>2

\* putPage of a page that is not cached.
LEMMA PutNewIInv ==
  ASSUME IInv, NEW p \in PageIds, p \notin Cached(cache), Put(p)
  PROVE  /\ IInv'
         /\ cache'.size >= cache.size
         /\ Cached(cache)' = (Cached(cache) \ Evicts(cache, p)) \union {p}
<1> DEFINE room == Room(cache, VictimDirty)
           out == Evicts(cache, p)
           entry == [page |-> p, pinned |-> FALSE]
<1>1. /\ cache \in CacheType
      /\ Agree(cache)
      /\ VictimDirty \in BOOLEAN
      /\ p \in Frames
      /\ usedSince \in [PageIds -> SUBSET PageIds]
      /\ pages \in [PageIds -> [isDirty : BOOLEAN, isPinned : BOOLEAN]]
  <2>1. cache \in CacheType /\ Agree(cache)
    BY DEF IInv, TypeOK, ListMatchesTable
  <2>2. VictimDirty \in BOOLEAN
    BY VictimDirtyIsBoolean DEF IInv
  <2> QED
    BY <2>1, <2>2, OwnFrames DEF IInv, TypeOK
<1> HIDE DEF room, out, entry
<1>2. /\ cache' \in CacheType
      /\ Agree(cache')
      /\ cache'.lruList = PushFront(room.lruList, p)
      /\ cache'.hashTable = [room.hashTable EXCEPT ![p] = entry]
      /\ cache'.size = room.size + 1
      /\ Cached(cache') = (Cached(cache) \ out) \union {p}
  <2> DEFINE after == PutPage(cache, p, p, VictimDirty)
  <2>1. cache' = after
    BY DEF Put
  <2>2. /\ after \in CacheType
        /\ Agree(after)
        /\ after.lruList = PushFront(room.lruList, p)
        /\ after.hashTable = [room.hashTable EXCEPT ![p] = entry]
        /\ after.size = room.size + 1
        /\ Cached(after) = (Cached(cache) \ out) \union {p}
    <3>1. ASSUME NEW d \in BOOLEAN, NEW page \in Frames
          PROVE  /\ PutPage(cache, p, page, d) \in CacheType
                 /\ Agree(PutPage(cache, p, page, d))
                 /\ PutPage(cache, p, page, d).lruList = PushFront(Room(cache, d).lruList, p)
                 /\ PutPage(cache, p, page, d).hashTable =
                      [Room(cache, d).hashTable EXCEPT ![p] = [page |-> page, pinned |-> FALSE]]
                 /\ PutPage(cache, p, page, d).size = Room(cache, d).size + 1
                 /\ Cached(PutPage(cache, p, page, d)) = (Cached(cache) \ Evicts(cache, p)) \union {p}
      <4>1. cache \in CacheType /\ Agree(cache)
        BY <1>1
      <4> QED
        BY <4>1, PutPageFacts
    <3> QED
      BY <1>1, <3>1 DEF room, out, entry
  <2> HIDE DEF after
  <2> QED
    BY <2>1, <2>2
<1>3. /\ room \in CacheType
      /\ Agree(room)
      /\ Cached(room) = Cached(cache) \ out
      /\ out = {} => room = cache
      /\ out # {} => /\ cache.size >= Capacity
                     /\ CanEvict(cache)
                     /\ out = {Victim(cache)}
                     /\ room = EvictLRU(cache, VictimDirty)
  BY <1>1, RoomFacts DEF room, out
<1>4. out # {} => /\ room.lruList = RemoveTail(cache.lruList)
                  /\ room.hashTable = [cache.hashTable EXCEPT ![Victim(cache)] = NoEntry]
                  /\ room.size = cache.size - 1
                  /\ Victim(cache) \in Cached(cache)
                  /\ ~ cache.hashTable[Victim(cache)].pinned
  BY <1>1, <1>3, EvictLRUFacts DEF CanEvict
<1>5. out \subseteq Cached(cache)
  BY <1>3, <1>4
<1>6. usedSince' = AfterUse(usedSince, p) /\ usedSince' \in [PageIds -> SUBSET PageIds]
  BY <1>1 DEF Put, Use, AfterUse
<1>7. pages' = [q \in PageIds |-> IF q \in out THEN [pages[q] EXCEPT !.isDirty = FALSE] ELSE pages[q]]
  BY DEF Put, out
<1>8. /\ pages' \in [PageIds -> [isDirty : BOOLEAN, isPinned : BOOLEAN]]
      /\ \A q \in PageIds : pages'[q].isPinned = pages[q].isPinned
  BY <1>1, <1>7
<1>9. pageFaultCount' \in Nat /\ evictionCount' \in Nat /\ pinnedOnce' = pinnedOnce /\ pinnedOnce \in BOOLEAN
  <2>1. Cardinality(out) \in Nat
    <3>1. IsFiniteSet(out)
      BY <1>3, FS_EmptySet, FS_Singleton
    <3> QED
      BY <3>1, FS_CardinalityType
  <2> QED
    BY <2>1 DEF Put, IInv, TypeOK, out
<1>10. TypeOK'
  BY <1>2, <1>6, <1>8, <1>9 DEF TypeOK
<1>11. RecencyOrder'
  <2>1. cache.lruList \in Seq(PageIds) /\ InOrder(cache.lruList, usedSince)
    BY <1>1, InOrderIsRecencyOrder DEF IInv, CacheType
  <2>2. InOrder(room.lruList, usedSince)
    <3>1. CASE out = {}
      BY <1>3, <2>1, <3>1
    <3>2. CASE out # {}
      <4>1. cache.lruList # << >>
        BY <1>3, <3>2 DEF CanEvict
      <4> QED
        BY <1>1, <1>4, <2>1, <3>2, <4>1, RemoveTailInOrder
    <3> QED
      BY <3>1, <3>2
  <2>3. room.lruList \in Seq(PageIds) /\ \A i \in 1 .. Len(room.lruList) : room.lruList[i] # p
    BY <1>3 DEF CacheType, Agree
  <2>4. InOrder(cache'.lruList, usedSince')
    <3> DEFINE s == room.lruList
               since == usedSince
    <3>1. s \in Seq(PageIds) /\ InOrder(s, since) /\ \A i \in 1 .. Len(s) : s[i] # p
      BY <2>2, <2>3
    <3>2. since \in [PageIds -> SUBSET PageIds]
      BY <1>1
    <3> HIDE DEF s, since
    <3>3. InOrder(PushFront(s, p), AfterUse(since, p))
      BY <3>1, <3>2, PushFrontInOrder
    <3> QED
      BY <1>2, <1>6, <3>3 DEF s, since
  <2> QED
    BY <2>4 DEF RecencyOrder, InOrder
<1>12. /\ p \in Cached(cache') /\ ~ cache'.hashTable[p].pinned
       /\ \A q \in Cached(cache') \ {p} : /\ q \in Cached(cache)
                                          /\ cache'.hashTable[q] = cache.hashTable[q]
  <2>1. p \in Cached(cache') /\ cache'.hashTable[p] = entry
    BY <1>2, <1>3 DEF CacheType
  <2>2. ASSUME NEW q \in Cached(cache') \ {p}
        PROVE  q \in Cached(cache) /\ cache'.hashTable[q] = cache.hashTable[q]
    <3>1. q \in Cached(cache) /\ q \notin out /\ q \in PageIds /\ q # p
      BY <1>2 DEF Cached
    <3>2. cache'.hashTable[q] = room.hashTable[q]
      BY <1>2, <1>3, <3>1 DEF CacheType
    <3>3. room.hashTable[q] = cache.hashTable[q]
      <4>1. CASE out = {}
        BY <1>3, <4>1
      <4>2. CASE out # {}
        BY <1>1, <1>3, <1>4, <3>1, <4>2 DEF CacheType
      <4> QED
        BY <4>1, <4>2
    <3> QED
      BY <3>1, <3>2, <3>3
  <2> QED
    BY <2>1, <2>2 DEF entry
<1>13. PinsAreKnown'
  BY <1>9, <1>12 DEF PinsAreKnown, IInv, Cached
<1>14. PinnedPagesAreHeld'
  <2>1. SUFFICES ASSUME NEW q \in PageIds
                 PROVE  pages'[q].isPinned <=> (q \in Cached(cache') /\ cache'.hashTable[q].pinned)
    BY DEF PinnedPagesAreHeld, Cached
  <2>2. pages[q].isPinned <=> (q \in Cached(cache) /\ cache.hashTable[q].pinned)
    BY DEF IInv, PinnedPagesAreHeld
  <2>3. CASE q = p
    BY <1>8, <1>12, <2>2, <2>3
  <2>4. CASE q \in Cached(cache') \ {p}
    BY <1>8, <1>12, <2>2, <2>4
  <2>5. CASE q \notin Cached(cache') /\ q # p
    <3>1. q \notin Cached(cache) \/ q \in out
      BY <1>2, <2>5
    <3>2. ~ (q \in Cached(cache) /\ cache.hashTable[q].pinned)
      BY <1>3, <1>4, <3>1
    <3> QED
      BY <1>8, <2>2, <2>5, <3>2
  <2> QED
    BY <2>3, <2>4, <2>5
<1>15. OverflowOnlyAfterPin' /\ cache'.size >= cache.size
  <2>1. cache.size \in Nat /\ Capacity \in Nat
    BY <1>1, CapacityAssumption DEF CacheType
  <2>2. CASE out # {}
    BY <1>2, <1>4, <1>9, <2>1, <2>2 DEF IInv, OverflowOnlyAfterPin
  <2>3. CASE out = {}
    <3>1. cache'.size = cache.size + 1
      BY <1>2, <1>3, <2>3
    <3>2. cache.size >= Capacity => ~ CanEvict(cache)
      BY <2>3 DEF out, Evicts
    <3>3. cache.size >= Capacity => pinnedOnce
      BY <3>2, StuckOnAPin
    <3> QED
      BY <1>9, <2>1, <3>1, <3>3 DEF OverflowOnlyAfterPin
  <2> QED
    BY <2>2, <2>3
<1>16. Cached(cache)' = (Cached(cache) \ Evicts(cache, p)) \union {p}
  BY <1>2 DEF out, Cached
<1> QED
  BY <1>2, <1>10, <1>11, <1>13, <1>14, <1>15, <1>16 DEF IInv, ListMatchesTable

\* putPage, of a page cached or not.
LEMMA PutIInv ==
  ASSUME IInv, NEW p \in PageIds, Put(p)
  PROVE  IInv' /\ cache'.size >= cache.size
<1>1. CASE p \notin Cached(cache)
  BY <1>1, PutNewIInv
<1>2. CASE p \in Cached(cache)
  <2>1. Evicts(cache, p) = {} /\ cache' = GetPage(cache, p)
    BY <1>2 DEF Evicts, Put, PutPage
  <2>2. /\ pages \in [PageIds -> [isDirty : BOOLEAN, isPinned : BOOLEAN]]
        /\ cache.size \in Nat
        /\ pageFaultCount \in Nat
        /\ evictionCount \in Nat
    BY DEF IInv, TypeOK, CacheType
  <2>3. pages' = pages
    BY <2>1, <2>2 DEF Put
  <2>4. pageFaultCount' \in Nat /\ evictionCount' \in Nat /\ pinnedOnce' = pinnedOnce /\ Use(p)
    BY <2>1, <2>2, FS_EmptySet DEF Put
  <2>5. IInv' /\ cache'.size = cache.size
    BY <1>2, <2>1, <2>3, <2>4, TouchIInv
  <2> QED
    BY <2>2, <2>5
<1> QED
  BY <1>1, <1>2

\* pinPage and unpinPage; that a page is pinned is known from then on.
LEMMA SetPinnedIInv ==
  ASSUME IInv, NEW p \in Cached(cache), NEW b \in BOOLEAN,
         cache' = SetPinned(cache, p, b), pages' = [pages EXCEPT ![p].isPinned = b],
         pinnedOnce' \in BOOLEAN, pinnedOnce => pinnedOnce', b => pinnedOnce',
         UNCHANGED << counters, usedSince >>
  PROVE  IInv' /\ cache'.size >= cache.size
<1>1. cache \in CacheType /\ Agree(cache) /\ p \in PageIds
  BY DEF IInv, TypeOK, ListMatchesTable, Cached
<1>2. /\ cache' \in CacheType
      /\ Agree(cache')
      /\ cache'.lruList = cache.lruList
      /\ cache'.size = cache.size
      /\ cache'.hashTable[p].pinned = b
      /\ \A q \in PageIds \ {p} : cache'.hashTable[q] = cache.hashTable[q]
      /\ Cached(cache') = Cached(cache)
  BY <1>1, SetPinnedFacts
<1>3. /\ pages' \in [PageIds -> [isDirty : BOOLEAN, isPinned : BOOLEAN]]
      /\ pages'[p].isPinned = b
      /\ \A q \in PageIds \ {p} : pages'[q] = pages[q]
  BY <1>1 DEF IInv, TypeOK
<1>4. TypeOK'
  BY <1>2, <1>3 DEF IInv, TypeOK, counters
<1>5. RecencyOrder'
  BY <1>2 DEF IInv, RecencyOrder
<1>6. PinnedPagesAreHeld'
  <2>1. ASSUME NEW q \in PageIds
        PROVE  pages'[q].isPinned <=> (q \in Cached(cache') /\ cache'.hashTable[q].pinned)
    BY <1>2, <1>3 DEF IInv, PinnedPagesAreHeld
  <2> QED
    BY <2>1 DEF PinnedPagesAreHeld, Cached
<1>7. PinsAreKnown'
  <2>1. ASSUME NEW q \in Cached(cache'), cache'.hashTable[q].pinned
        PROVE  pinnedOnce'
    BY <1>2, <2>1 DEF IInv, PinsAreKnown, Cached
  <2> QED
    BY <2>1 DEF PinsAreKnown, Cached
<1>8. OverflowOnlyAfterPin'
  BY <1>2 DEF IInv, OverflowOnlyAfterPin
<1>9. cache'.size >= cache.size
  BY <1>1, <1>2 DEF CacheType
<1> QED
  BY <1>2, <1>4, <1>5, <1>6, <1>7, <1>8, <1>9 DEF IInv, ListMatchesTable

\* A step that leaves the cache and its history alone.
LEMMA IdleIInv ==
  ASSUME IInv, UNCHANGED << cache, history >>, TypeOK',
         \A q \in PageIds : pages'[q].isPinned = pages[q].isPinned
  PROVE  IInv' /\ cache'.size >= cache.size
<1>1. /\ ListMatchesTable'
      /\ RecencyOrder'
      /\ PinsAreKnown'
      /\ OverflowOnlyAfterPin'
  BY DEF IInv, ListMatchesTable, RecencyOrder, PinsAreKnown, OverflowOnlyAfterPin,
         history, Cached
<1>2. PinnedPagesAreHeld'
  BY DEF IInv, PinnedPagesAreHeld, Cached
<1>3. cache'.size >= cache.size
  BY DEF IInv, TypeOK, CacheType
<1> QED
  BY <1>1, <1>2, <1>3 DEF IInv

\* Every step keeps the invariant and never makes the cache smaller.
LEMMA StepIInv == IInv /\ [Next]_vars => IInv' /\ cache'.size >= cache.size
<1> SUFFICES ASSUME IInv, [Next]_vars
             PROVE  IInv' /\ cache'.size >= cache.size
  OBVIOUS
<1>1. ASSUME NEW p \in PageIds, Hit(p)
      PROVE  IInv' /\ cache'.size >= cache.size
  <2>1. IInv' /\ cache'.size = cache.size
    BY <1>1, TouchIInv DEF Hit, IInv, TypeOK, counters
  <2> QED
    BY <2>1 DEF IInv, TypeOK, CacheType
<1>2. ASSUME NEW p \in PageIds, Miss(p)
      PROVE  IInv' /\ cache'.size >= cache.size
  <2>1. cache' = cache /\ UNCHANGED history /\ pages' = pages
    BY <1>2 DEF Miss, GetPage
  <2>2. TypeOK'
    BY <1>2, <2>1 DEF Miss, IInv, TypeOK, history
  <2> QED
    BY <2>1, <2>2, IdleIInv
<1>3. ASSUME NEW p \in PageIds, Put(p)
      PROVE  IInv' /\ cache'.size >= cache.size
  BY <1>3, PutIInv
<1>4. ASSUME NEW p \in PageIds, Pin(p)
      PROVE  IInv' /\ cache'.size >= cache.size
  BY <1>4, SetPinnedIInv DEF Pin
<1>5. ASSUME NEW p \in PageIds, Unpin(p)
      PROVE  IInv' /\ cache'.size >= cache.size
  <2>1. pinnedOnce' = pinnedOnce /\ pinnedOnce \in BOOLEAN /\ UNCHANGED << counters, usedSince >>
    BY <1>5 DEF Unpin, history, IInv, TypeOK
  <2> QED
    BY <1>5, <2>1, SetPinnedIInv DEF Unpin
<1>6. ASSUME NEW p \in PageIds, WriteRow(p)
      PROVE  IInv' /\ cache'.size >= cache.size
  <2>1. /\ pages' \in [PageIds -> [isDirty : BOOLEAN, isPinned : BOOLEAN]]
        /\ \A q \in PageIds : pages'[q].isPinned = pages[q].isPinned
    BY <1>6 DEF WriteRow, IInv, TypeOK
  <2>2. TypeOK' /\ UNCHANGED << cache, history >>
    BY <1>6, <2>1 DEF WriteRow, IInv, TypeOK, history, counters
  <2> QED
    BY <2>1, <2>2, IdleIInv
<1>7. CASE UNCHANGED vars
  <2>1. TypeOK' /\ UNCHANGED << cache, history >> /\ pages' = pages
    BY <1>7 DEF vars, history, counters, IInv, TypeOK
  <2> QED
    BY <2>1, IdleIInv
<1> QED
  BY <1>1, <1>2, <1>3, <1>4, <1>5, <1>6, <1>7 DEF Next

\* The evicted page is the last node, and every other cached page has a node
\* before it.
LEMMA VictimIsOldest ==
  ASSUME IInv, CanEvict(cache)
  PROVE  Cached(cache) \ {Victim(cache)} \subseteq usedSince[Victim(cache)]
<1>1. cache \in CacheType /\ Agree(cache)
  BY DEF IInv, TypeOK, ListMatchesTable
<1>2. cache.lruList \in Seq(PageIds) /\ cache.lruList # << >>
  BY <1>1 DEF CacheType, CanEvict
<1>3. /\ Len(cache.lruList) \in 1 .. Len(cache.lruList)
      /\ Victim(cache) = cache.lruList[Len(cache.lruList)]
  BY <1>2, RemoveTailFacts DEF Victim
<1>4. ASSUME NEW q \in Cached(cache) \ {Victim(cache)}
      PROVE  q \in usedSince[Victim(cache)]
  <2>1. PICK i \in 1 .. Len(cache.lruList) : cache.lruList[i] = q
    BY <1>1 DEF Agree
  <2>2. i < Len(cache.lruList)
    BY <1>3, <1>4, <2>1
  <2> QED
    BY <1>3, <2>1, <2>2 DEF IInv, RecencyOrder
<1> QED
  BY <1>4

\* Only putPage takes a page out of the cache, and it takes the victim.
LEMMA StepEvictsOldest ==
  IInv /\ [Next]_vars =>
    \A v \in Cached(cache) \ Cached(cache)' : Cached(cache) \ {v} \subseteq usedSince[v]
<1> SUFFICES ASSUME IInv, [Next]_vars, NEW v \in Cached(cache) \ Cached(cache)'
             PROVE  Cached(cache) \ {v} \subseteq usedSince[v]
  OBVIOUS
<1>1. cache \in CacheType /\ Agree(cache)
  BY DEF IInv, TypeOK, ListMatchesTable
<1>2. ASSUME NEW p \in Cached(cache), cache' = GetPage(cache, p)
      PROVE  FALSE
    BY <1>1, <1>2, GetPageFacts DEF Cached
<1>3. ASSUME NEW p \in PageIds, Hit(p) \/ Miss(p) \/ WriteRow(p)
      PROVE  FALSE
  BY <1>2, <1>3 DEF Hit, Miss, WriteRow, GetPage, Cached
<1>4. ASSUME NEW p \in Cached(cache), NEW b \in BOOLEAN, cache' = SetPinned(cache, p, b)
      PROVE  FALSE
  BY <1>1, <1>4, SetPinnedFacts DEF Cached
<1>5. ASSUME NEW p \in PageIds, Pin(p) \/ Unpin(p)
      PROVE  FALSE
  BY <1>4, <1>5 DEF Pin, Unpin
<1>6. CASE UNCHANGED vars
  BY <1>6 DEF vars, Cached
<1>7. ASSUME NEW p \in PageIds, Put(p)
      PROVE  CanEvict(cache) /\ v = Victim(cache)
  <2>1. p \notin Cached(cache)
    BY <1>2, <1>7 DEF Put, PutPage
  <2>2. Cached(cache)' = (Cached(cache) \ Evicts(cache, p)) \union {p}
    BY <1>7, <2>1, PutNewIInv
  <2>3. v \in Evicts(cache, p)
    BY <2>2
  <2> QED
    BY <2>3 DEF Evicts
<1> QED
  BY <1>3, <1>5, <1>6, <1>7, VictimIsOldest DEF Next

(***************************************************************************)
(* The theorems.                                                           *)
(***************************************************************************)
\* IInv holds in every state the cache can reach.
THEOREM Invariance == Spec => []IInv
<1>1. IInv /\ [Next]_vars => IInv'
  BY StepIInv
<1> QED
  BY InitIInv, <1>1, PTL DEF Spec

\* The cache object, the flags of the pages and the counters keep their types:
\* in particular size_ never goes below zero.
THEOREM TypeCorrectness == Spec => []TypeOK
  BY Invariance, PTL DEF IInv

\* lruList_, hashTable_ and size_ agree whatever is got, put, pinned and evicted,
\* for every capacity and however many pages.
THEOREM TableAndListAgree == Spec => []ListMatchesTable
  BY Invariance, PTL DEF IInv

\* lruList_ is in order of use, most recent first.
THEOREM ListIsInOrderOfUse == Spec => []RecencyOrder
  BY Invariance, PTL DEF IInv

\* Nobody's pinned page is evicted, and Page::isPinned is the entry's pinned.
THEOREM PinsHold == Spec => []PinnedPagesAreHeld
  BY Invariance, PTL DEF IInv

\* Without a pin the pool stays within capacity_.
THEOREM CapacityHoldsWithoutPins == Spec => []OverflowOnlyAfterPin
  BY Invariance, PTL DEF IInv

\* evictLRU throws out the least recently used page of all.
THEOREM EvictionIsLRU == Spec => EvictsLeastRecent
<1>1. IInv /\ [Next]_vars =>
        [\A v \in Cached(cache) \ Cached(cache)' : Cached(cache) \ {v} \subseteq usedSince[v]]_vars
  BY StepEvictsOldest
<1> QED
  BY Invariance, <1>1, PTL DEF Spec, EvictsLeastRecent

\* A cache grown past its capacity stays there.
THEOREM GrowthIsForGood == Spec => GrowthIsPermanent
<1>1. IInv /\ [Next]_vars => [cache'.size >= cache.size]_vars
  BY StepIInv
<1> QED
  BY Invariance, <1>1, PTL DEF Spec, GrowthIsPermanent
=============================================================================
