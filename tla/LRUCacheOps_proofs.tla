------------------------- MODULE LRUCacheOps_proofs -------------------------
(***************************************************************************)
(* What the operations of LRUCacheOps do to a cache whose list and table   *)
(* agree, for every capacity and every set of pages.  The proofs about     *)
(* LRUCache and about Pager rest on these lemmas.                          *)
(***************************************************************************)
EXTENDS LRUCacheOps, SequenceTheorems, TLAPS

(***************************************************************************)
(* The list.                                                               *)
(***************************************************************************)
\* No page has two nodes.
NoRepeats(s) == \A i, j \in 1 .. Len(s) : s[i] = s[j] => i = j

\* entry->dllNode is the node of the page: there is no other to confuse it with.
LEMMA NodeOfIsNode ==
  ASSUME NEW s \in Seq(PageIds), NoRepeats(s), NEW i \in 1 .. Len(s)
  PROVE  NodeOf(s, s[i]) = i
<1>1. s[i] = s[i] /\ \A j \in 1 .. i - 1 : s[j] # s[i]
  BY DEF NoRepeats
<1>2. \A k \in 1 .. Len(s) : s[k] = s[i] => k = i
  BY DEF NoRepeats
<1> QED
  BY <1>1, <1>2 DEF NodeOf

\* moveToFront keeps the nodes and puts node i first, the ones before it moving
\* back by one.
LEMMA MoveToFrontFacts ==
  ASSUME NEW s \in Seq(PageIds), NEW i \in 1 .. Len(s)
  PROVE  /\ MoveToFront(s, i) \in Seq(PageIds)
         /\ Len(MoveToFront(s, i)) = Len(s)
         /\ MoveToFront(s, i)[1] = s[i]
         /\ \A j \in 2 .. i : MoveToFront(s, i)[j] = s[j - 1]
         /\ \A j \in i + 1 .. Len(s) : MoveToFront(s, i)[j] = s[j]
  BY DEF MoveToFront

\* moveToFront makes no second node and loses none.
LEMMA MoveToFrontPermutes ==
  ASSUME NEW s \in Seq(PageIds), NoRepeats(s), NEW i \in 1 .. Len(s)
  PROVE  /\ NoRepeats(MoveToFront(s, i))
         /\ \A j \in 1 .. Len(s) : \E k \in 1 .. Len(s) : MoveToFront(s, i)[k] = s[j]
         /\ \A k \in 1 .. Len(s) : \E j \in 1 .. Len(s) : MoveToFront(s, i)[k] = s[j]
<1> DEFINE t == MoveToFront(s, i)
<1>1. /\ t \in Seq(PageIds)
      /\ Len(t) = Len(s)
      /\ t[1] = s[i]
      /\ \A j \in 2 .. i : t[j] = s[j - 1]
      /\ \A j \in i + 1 .. Len(s) : t[j] = s[j]
  BY MoveToFrontFacts
<1> HIDE DEF t
<1>2. NoRepeats(t)
  <2> DEFINE old(k) == IF k = 1 THEN i ELSE IF k <= i THEN k - 1 ELSE k
  <2>1. \A k \in 1 .. Len(s) : old(k) \in 1 .. Len(s) /\ t[k] = s[old(k)]
    BY <1>1
  <2>2. \A k, l \in 1 .. Len(s) : old(k) = old(l) => k = l
    OBVIOUS
  <2> HIDE DEF old
  <2> SUFFICES ASSUME NEW k \in 1 .. Len(s), NEW l \in 1 .. Len(s), t[k] = t[l]
               PROVE  k = l
    BY <1>1 DEF NoRepeats
  <2>3. s[old(k)] = s[old(l)] /\ old(k) \in 1 .. Len(s) /\ old(l) \in 1 .. Len(s)
    BY <2>1
  <2>4. old(k) = old(l)
    BY <2>3 DEF NoRepeats
  <2> QED
    BY <2>2, <2>4
<1>3. ASSUME NEW k \in 1 .. Len(s)
      PROVE  \E j \in 1 .. Len(s) : t[k] = s[j]
  <2>1. CASE k = 1
    BY <1>1, <2>1
  <2>2. CASE k # 1 /\ k <= i
    <3>1. k \in 2 .. i /\ k - 1 \in 1 .. Len(s)
      BY <2>2
    <3>2. t[k] = s[k - 1]
      BY <1>1, <3>1
    <3> QED
      BY <3>1, <3>2
  <2>3. CASE k > i
    BY <1>1, <2>3
  <2> QED
    BY <2>1, <2>2, <2>3
<1>4. ASSUME NEW j \in 1 .. Len(s)
      PROVE  \E k \in 1 .. Len(s) : t[k] = s[j]
  <2>1. CASE j = i
    BY <1>1, <2>1
  <2>2. CASE j < i
    <3>1. j + 1 \in 2 .. i /\ j + 1 \in 1 .. Len(s)
      BY <2>2
    <3>2. t[j + 1] = s[j]
      BY <1>1, <3>1
    <3> QED
      BY <3>1, <3>2
  <2>3. CASE j > i
    BY <1>1, <2>3
  <2> QED
    BY <2>1, <2>2, <2>3
<1> QED
  BY <1>2, <1>3, <1>4 DEF t

\* pushFront, node by node.
LEMMA PushFrontFacts ==
  ASSUME NEW s \in Seq(PageIds), NEW p \in PageIds
  PROVE  /\ PushFront(s, p) \in Seq(PageIds)
         /\ Len(PushFront(s, p)) = Len(s) + 1
         /\ PushFront(s, p)[1] = p
         /\ \A j \in 2 .. Len(s) + 1 : PushFront(s, p)[j] = s[j - 1]
  BY DEF PushFront, Cons

\* removeNode of the tail drops the last node and keeps the others in place.
LEMMA RemoveTailFacts ==
  ASSUME NEW s \in Seq(PageIds), s # << >>
  PROVE  /\ RemoveTail(s) \in Seq(PageIds)
         /\ Len(RemoveTail(s)) = Len(s) - 1
         /\ \A j \in 1 .. Len(s) - 1 : RemoveTail(s)[j] = s[j]
         /\ Last(s) = s[Len(s)]
         /\ Len(s) \in 1 .. Len(s)
<1>1. Len(s) \in Nat /\ Len(s) >= 1
  OBVIOUS
<1>2. Len(s) - 1 \in 0 .. Len(s)
  BY <1>1
<1>3. RemoveTail(s) = SubSeq(s, 1, Len(s) - 1)
  BY <1>1, <1>2 DEF RemoveTail, Front
<1>4. /\ RemoveTail(s) \in Seq(PageIds)
      /\ Len(RemoveTail(s)) = Len(s) - 1
      /\ \A j \in 1 .. Len(s) - 1 : RemoveTail(s)[j] = s[j]
  <2>1. \A j \in 1 .. Len(s) - 1 : s[j] \in PageIds
    BY <1>1
  <2> DEFINE n == Len(s) - 1
  <2>2. n \in Int /\ n - 1 + 1 = n /\ (IF 1 <= n THEN n - 1 + 1 ELSE 0) = n
    <3>1. \A m \in Nat : m \in Int /\ m - 1 + 1 = m /\ (IF 1 <= m THEN m - 1 + 1 ELSE 0) = m
      OBVIOUS
    <3>2. n \in Nat
      BY <1>1
    <3> HIDE DEF n
    <3> QED
      BY <3>1, <3>2
  <2>3. /\ SubSeq(s, 1, n) \in Seq(PageIds)
        /\ Len(SubSeq(s, 1, n)) = IF 1 <= n THEN n - 1 + 1 ELSE 0
        /\ \A j \in 1 .. n - 1 + 1 : SubSeq(s, 1, n)[j] = s[1 + j - 1]
    <3> HIDE DEF n
    <3> QED
      BY <2>1, <2>2, SubSeqProperties, 1 \in Int DEF n
  <2>4. \A j \in 1 .. n : 1 + j - 1 = j
    BY <2>2
  <2> QED
    BY <1>3, <2>2, <2>3, <2>4
<1> QED
  BY <1>1, <1>4 DEF Last

(***************************************************************************)
(* The cache.                                                              *)
(***************************************************************************)
\* NoEntry is none of the entries.
LEMMA EntryIsNotNull == \A e \in CacheEntry : e # NoEntry
  BY NoEntryAssumption DEF CacheEntry

\* The constructor leaves list, table and size_ in agreement.
LEMMA EmptyCacheAgrees == EmptyCache \in CacheType /\ Agree(EmptyCache)
  BY DEF EmptyCache, CacheType, Agree, Cached

\* A hit reorders the list and changes nothing else.
LEMMA GetPageFacts ==
  ASSUME NEW c \in CacheType, Agree(c), NEW p \in Cached(c)
  PROVE  /\ GetPage(c, p) \in CacheType
         /\ Agree(GetPage(c, p))
         /\ GetPage(c, p).hashTable = c.hashTable
         /\ GetPage(c, p).size = c.size
         /\ \E i \in 1 .. Len(c.lruList) :
              c.lruList[i] = p /\ GetPage(c, p).lruList = MoveToFront(c.lruList, i)
<1> DEFINE s == c.lruList
           d == GetPage(c, p)
<1>1. PICK i \in 1 .. Len(s) : s[i] = p
  BY DEF Agree
<1>2. s \in Seq(PageIds) /\ NoRepeats(s)
  BY DEF CacheType, Agree, NoRepeats
<1>3. NodeOf(s, p) = i
  BY <1>1, <1>2, NodeOfIsNode
<1>4. /\ d.lruList = MoveToFront(s, i)
      /\ d.hashTable = c.hashTable
      /\ d.size = c.size
      /\ d = [c EXCEPT !.lruList = MoveToFront(s, i)]
  BY <1>3 DEF GetPage, CacheType
<1>5. MoveToFront(s, i) \in Seq(PageIds) /\ Len(MoveToFront(s, i)) = Len(s)
  BY <1>2, MoveToFrontFacts
<1>6. d \in CacheType
  BY <1>4, <1>5 DEF CacheType
<1>7. Agree(d)
  <2>1. Cached(d) = Cached(c)
    BY <1>4 DEF Cached
  <2>2. /\ NoRepeats(MoveToFront(s, i))
        /\ \A j \in 1 .. Len(s) : \E k \in 1 .. Len(s) : MoveToFront(s, i)[k] = s[j]
        /\ \A k \in 1 .. Len(s) : \E j \in 1 .. Len(s) : MoveToFront(s, i)[k] = s[j]
    BY <1>2, MoveToFrontPermutes
  <2>3. Len(d.lruList) = Len(s) /\ d.lruList = MoveToFront(s, i)
    BY <1>4, <1>5
  <2>4. ASSUME NEW q \in Cached(d)
        PROVE  \E k \in 1 .. Len(d.lruList) : d.lruList[k] = q
    <3>1. PICK j \in 1 .. Len(s) : s[j] = q
      BY <2>1 DEF Agree
    <3> QED
      BY <2>2, <2>3, <3>1
  <2>5. ASSUME NEW k \in 1 .. Len(d.lruList)
        PROVE  d.lruList[k] \in Cached(d)
    <3>1. PICK j \in 1 .. Len(s) : MoveToFront(s, i)[k] = s[j]
      BY <2>2, <2>3
    <3>2. s[j] \in Cached(c)
      BY DEF Agree
    <3> QED
      BY <2>1, <2>3, <3>1, <3>2
  <2>6. \A j, k \in 1 .. Len(d.lruList) : d.lruList[j] = d.lruList[k] => j = k
    BY <2>2, <2>3 DEF NoRepeats
  <2>7. d.size = Len(d.lruList)
    BY <1>4, <2>3 DEF Agree
  <2> HIDE DEF d
  <2> QED
    BY <2>4, <2>5, <2>6, <2>7 DEF Agree
<1> QED
  BY <1>1, <1>4, <1>6, <1>7

\* An eviction takes the last node with its entry, and nothing else: the detour
\* of the write through getPage makes no difference while list and table agree.
LEMMA EvictLRUFacts ==
  ASSUME NEW c \in CacheType, Agree(c), CanEvict(c), NEW dirty \in BOOLEAN
  PROVE  /\ EvictLRU(c, dirty) \in CacheType
         /\ Agree(EvictLRU(c, dirty))
         /\ Victim(c) \in Cached(c)
         /\ Victim(c) = c.lruList[Len(c.lruList)]
         /\ EvictLRU(c, dirty).lruList = RemoveTail(c.lruList)
         /\ EvictLRU(c, dirty).hashTable = [c.hashTable EXCEPT ![Victim(c)] = NoEntry]
         /\ EvictLRU(c, dirty).size = c.size - 1
<1> DEFINE s == c.lruList
           v == Victim(c)
           d == EvictLRU(c, dirty)
<1>1. s \in Seq(PageIds) /\ s # << >> /\ v \in Cached(c)
  BY DEF CanEvict, CacheType
<1>2. /\ RemoveTail(s) \in Seq(PageIds)
      /\ Len(RemoveTail(s)) = Len(s) - 1
      /\ \A j \in 1 .. Len(s) - 1 : RemoveTail(s)[j] = s[j]
      /\ v = s[Len(s)]
      /\ Len(s) \in 1 .. Len(s)
  BY <1>1, RemoveTailFacts DEF Victim
<1>3. \A j \in 1 .. Len(s) - 1 : s[j] # v
  BY <1>2 DEF Agree
<1>4. v \notin ToSet(RemoveTail(s))
  BY <1>2, <1>3, SMTT(30) DEF ToSet
<1>5. Unlinked(s, dirty) = RemoveTail(s)
  BY <1>4 DEF Unlinked, Victim
<1>6. d = [c EXCEPT !.lruList = RemoveTail(s), !.hashTable[v] = NoEntry, !.size = @ - 1]
  BY <1>5 DEF EvictLRU
<1>7. /\ d.lruList = RemoveTail(s)
      /\ d.hashTable = [c.hashTable EXCEPT ![v] = NoEntry]
      /\ d.size = c.size - 1
  BY <1>6 DEF CacheType
<1>8. c.size = Len(s) /\ c.size - 1 \in Nat
  BY <1>2 DEF Agree, CacheType
<1>9. v \in PageIds
  BY <1>1 DEF Cached
<1>10. d \in CacheType
  <2>1. [c.hashTable EXCEPT ![v] = NoEntry] \in [PageIds -> CacheEntry \union {NoEntry}]
    BY <1>9 DEF CacheType
  <2>2. d = [lruList   |-> RemoveTail(s),
             hashTable |-> [c.hashTable EXCEPT ![v] = NoEntry],
             size      |-> c.size - 1]
    BY <1>6 DEF CacheType
  <2> QED
    BY <1>2, <1>8, <2>1, <2>2 DEF CacheType
<1>11. Agree(d)
  <2>1. Cached(d) = Cached(c) \ {v}
    BY <1>7, <1>9 DEF Cached, CacheType
  <2>2. ASSUME NEW q \in Cached(d)
        PROVE  \E i \in 1 .. Len(d.lruList) : d.lruList[i] = q
    <3>1. PICK i \in 1 .. Len(s) : s[i] = q
      BY <2>1 DEF Agree
    <3>2. i # Len(s)
      BY <1>2, <2>1, <3>1
    <3>3. i \in 1 .. Len(s) - 1
      BY <1>1, <3>2
    <3> QED
      BY <1>2, <1>7, <3>1, <3>3
  <2>3. ASSUME NEW i \in 1 .. Len(d.lruList)
        PROVE  d.lruList[i] \in Cached(d)
    <3>1. i \in 1 .. Len(s) - 1 /\ i \in 1 .. Len(s)
      BY <1>1, <1>2, <1>7
    <3>2. d.lruList[i] = s[i]
      BY <1>2, <1>7, <3>1
    <3>3. s[i] # v /\ s[i] \in Cached(c)
      BY <1>3, <3>1 DEF Agree
    <3> QED
      BY <2>1, <3>2, <3>3
  <2>4. \A i, j \in 1 .. Len(d.lruList) : d.lruList[i] = d.lruList[j] => i = j
    BY <1>1, <1>2, <1>7, SMTT(30) DEF Agree
  <2> QED
    BY <1>2, <1>7, <1>8, <2>2, <2>3, <2>4 DEF Agree
<1> QED
  BY <1>1, <1>2, <1>7, <1>10, <1>11

\* Inserting a page that is not cached adds one node in front and one entry.
LEMMA InsertFacts ==
  ASSUME NEW c \in CacheType, Agree(c), NEW p \in PageIds, p \notin Cached(c),
         NEW page \in Frames
  PROVE  /\ Insert(c, p, page) \in CacheType
         /\ Agree(Insert(c, p, page))
         /\ Insert(c, p, page).lruList = PushFront(c.lruList, p)
         /\ Insert(c, p, page).hashTable =
              [c.hashTable EXCEPT ![p] = [page |-> page, pinned |-> FALSE]]
         /\ Insert(c, p, page).size = c.size + 1
         /\ Cached(Insert(c, p, page)) = Cached(c) \union {p}
<1> DEFINE s == c.lruList
           t == PushFront(s, p)
           entry == [page |-> page, pinned |-> FALSE]
           d == Insert(c, p, page)
<1>1. s \in Seq(PageIds) /\ Len(s) \in Nat /\ c.size = Len(s)
  BY DEF CacheType, Agree
<1>2. /\ t \in Seq(PageIds)
      /\ Len(t) = Len(s) + 1
      /\ t[1] = p
      /\ \A j \in 2 .. Len(s) + 1 : t[j] = s[j - 1]
  BY <1>1, PushFrontFacts
<1>3. entry \in CacheEntry /\ entry # NoEntry
  BY EntryIsNotNull DEF CacheEntry
<1>4. d = [lruList |-> t, hashTable |-> [c.hashTable EXCEPT ![p] = entry], size |-> c.size + 1]
  <2>1. d = [c EXCEPT !.lruList = t, !.hashTable[p] = entry, !.size = @ + 1]
    BY DEF Insert
  <2> HIDE DEF d, t, entry
  <2> QED
    BY <2>1 DEF CacheType
<1>5. d \in CacheType
  <2>1. [c.hashTable EXCEPT ![p] = entry] \in [PageIds -> CacheEntry \union {NoEntry}]
    BY <1>3 DEF CacheType
  <2> QED
    BY <1>1, <1>2, <1>4, <2>1 DEF CacheType
<1>6. Cached(d) = Cached(c) \union {p}
  BY <1>3, <1>4 DEF Cached, CacheType
<1>7. d.lruList = t /\ d.size = Len(s) + 1
  BY <1>1, <1>4
<1>8. Agree(d)
  <2> HIDE DEF d, t
  <2>1. ASSUME NEW q \in Cached(d)
        PROVE  \E i \in 1 .. Len(d.lruList) : d.lruList[i] = q
    <3>1. CASE q = p
      BY <1>1, <1>2, <1>7, <3>1
    <3>2. CASE q # p
      <4>1. PICK i \in 1 .. Len(s) : s[i] = q
        BY <1>6, <3>2 DEF Agree
      <4>2. i + 1 \in 2 .. Len(s) + 1 /\ i + 1 \in 1 .. Len(s) + 1 /\ i + 1 - 1 = i
        BY <1>1
      <4>3. t[i + 1] = q
        BY <1>2, <4>1, <4>2
      <4> QED
        BY <1>2, <1>7, <4>2, <4>3
    <3> QED
      BY <3>1, <3>2
  <2>2. ASSUME NEW i \in 1 .. Len(d.lruList)
        PROVE  d.lruList[i] \in Cached(d)
    <3>1. CASE i = 1
      BY <1>2, <1>6, <1>7, <3>1
    <3>2. CASE i # 1
      <4>1. i \in 2 .. Len(s) + 1 /\ i - 1 \in 1 .. Len(s)
        BY <1>1, <1>2, <1>7, <3>2
      <4>2. t[i] = s[i - 1] /\ s[i - 1] \in Cached(c)
        BY <1>2, <4>1 DEF Agree
      <4> QED
        BY <1>6, <1>7, <4>2
    <3> QED
      BY <3>1, <3>2
  <2>3. \A i \in 1 .. Len(s) : s[i] # p
    BY DEF Agree
  <2>4. ASSUME NEW i \in 1 .. Len(d.lruList), NEW j \in 1 .. Len(d.lruList),
               d.lruList[i] = d.lruList[j]
        PROVE  i = j
    <3>1. i \in 1 .. Len(s) + 1 /\ j \in 1 .. Len(s) + 1 /\ t[i] = t[j]
      BY <1>2, <1>7, <2>4
    <3>2. CASE i = 1 \/ j = 1
      BY <1>1, <1>2, <2>3, <3>1, <3>2
    <3>3. CASE i # 1 /\ j # 1
      <4>1. i - 1 \in 1 .. Len(s) /\ j - 1 \in 1 .. Len(s) /\ s[i - 1] = s[j - 1]
        BY <1>1, <1>2, <3>1, <3>3, SMTT(30)
      <4>2. i - 1 = j - 1
        BY <4>1 DEF Agree
      <4> QED
        BY <3>1, <4>2
    <3> QED
      BY <3>2, <3>3
  <2>5. d.size = Len(d.lruList)
    BY <1>2, <1>7
  <2> QED
    BY <2>1, <2>2, <2>4, <2>5 DEF Agree
<1>9. d.hashTable = [c.hashTable EXCEPT ![p] = entry]
  BY <1>4
<1>10. d.lruList = PushFront(c.lruList, p) /\ d.size = c.size + 1
  BY <1>1, <1>7
<1> HIDE DEF d
<1> QED
  BY <1>5, <1>6, <1>8, <1>9, <1>10 DEF d

\* The cache putPage inserts into: one page less if it evicts, else as it was.
Room(c, dirty) == IF c.size >= Capacity THEN EvictLRU(c, dirty) ELSE c

\* Making room in putPage takes out at most the victim.
LEMMA RoomFacts ==
  ASSUME NEW c \in CacheType, Agree(c), NEW dirty \in BOOLEAN,
         NEW p \in PageIds, p \notin Cached(c)
  PROVE  /\ Room(c, dirty) \in CacheType
         /\ Agree(Room(c, dirty))
         /\ Cached(Room(c, dirty)) = Cached(c) \ Evicts(c, p)
         /\ Evicts(c, p) = {} => Room(c, dirty) = c
         /\ Evicts(c, p) # {} =>
              /\ c.size >= Capacity
              /\ CanEvict(c)
              /\ Evicts(c, p) = {Victim(c)}
              /\ Room(c, dirty) = EvictLRU(c, dirty)
<1>1. CASE c.size >= Capacity /\ CanEvict(c)
  <2>1. Evicts(c, p) = {Victim(c)} /\ Room(c, dirty) = EvictLRU(c, dirty)
    BY <1>1 DEF Evicts, Room
  <2>2. /\ EvictLRU(c, dirty) \in CacheType
        /\ Agree(EvictLRU(c, dirty))
        /\ Victim(c) \in Cached(c)
        /\ EvictLRU(c, dirty).hashTable = [c.hashTable EXCEPT ![Victim(c)] = NoEntry]
    BY <1>1, EvictLRUFacts
  <2>3. Cached(EvictLRU(c, dirty)) = Cached(c) \ {Victim(c)}
    BY <2>2 DEF Cached, CacheType
  <2> QED
    BY <1>1, <2>1, <2>2, <2>3
<1>2. CASE ~ (c.size >= Capacity /\ CanEvict(c))
  BY <1>2 DEF Evicts, Room, EvictLRU
<1> QED
  BY <1>1, <1>2

\* putPage of a page that is not cached.
LEMMA PutPageFacts ==
  ASSUME NEW c \in CacheType, Agree(c), NEW dirty \in BOOLEAN,
         NEW p \in PageIds, p \notin Cached(c), NEW page \in Frames
  PROVE  /\ PutPage(c, p, page, dirty) \in CacheType
         /\ Agree(PutPage(c, p, page, dirty))
         /\ PutPage(c, p, page, dirty).lruList = PushFront(Room(c, dirty).lruList, p)
         /\ PutPage(c, p, page, dirty).hashTable =
              [Room(c, dirty).hashTable EXCEPT ![p] = [page |-> page, pinned |-> FALSE]]
         /\ PutPage(c, p, page, dirty).size = Room(c, dirty).size + 1
         /\ Cached(PutPage(c, p, page, dirty)) = (Cached(c) \ Evicts(c, p)) \union {p}
<1>1. PutPage(c, p, page, dirty) = Insert(Room(c, dirty), p, page)
  BY DEF PutPage, Room
<1>2. /\ Room(c, dirty) \in CacheType
      /\ Agree(Room(c, dirty))
      /\ Cached(Room(c, dirty)) = Cached(c) \ Evicts(c, p)
  BY RoomFacts
<1>3. p \notin Cached(Room(c, dirty))
  BY <1>2
<1> QED
  BY <1>1, <1>2, <1>3, InsertFacts

\* In the middle of a putPage that misses no entry is new or changed, at most the
\* victim's is gone, and no page has two nodes.
LEMMA MidPutFacts ==
  ASSUME NEW c \in CacheType, Agree(c), NEW dirty \in BOOLEAN,
         NEW p \in PageIds, p \notin Cached(c), NEW m \in MidPut(c, p, dirty)
  PROVE  /\ m \in CacheType
         /\ NoRepeats(m.lruList)
         /\ m.size <= c.size
         /\ Cached(m) \subseteq Cached(c)
         /\ Cached(c) \ Cached(m) \subseteq Evicts(c, p)
         /\ \A q \in Cached(m) : m.hashTable[q] = c.hashTable[q]
<1> DEFINE e == EvictLRU(c, dirty)
<1>1. CASE m = c
  <2>1. c.size \in Nat /\ NoRepeats(c.lruList)
    BY DEF CacheType, Agree, NoRepeats
  <2> QED
    BY <1>1, <2>1
<1>2. CASE m # c
  <2>1. Evicts(c, p) # {} /\ m \in {Dangling(c, dirty), e}
    BY <1>2 DEF MidPut
  <2>2. CanEvict(c) /\ Evicts(c, p) = {Victim(c)}
    BY <2>1, RoomFacts
  <2>3. /\ e \in CacheType /\ Agree(e) /\ Victim(c) \in Cached(c)
        /\ e.hashTable = [c.hashTable EXCEPT ![Victim(c)] = NoEntry]
        /\ e.size = c.size - 1
    BY <2>2, EvictLRUFacts
  <2>4. e.lruList = Unlinked(c.lruList, dirty) /\ Dangling(c, dirty).lruList = Unlinked(c.lruList, dirty)
    BY <2>2 DEF EvictLRU, Dangling, CacheType
  <2>5. NoRepeats(e.lruList) /\ e.lruList \in Seq(PageIds) /\ e.size \in Nat /\ c.size \in Nat
    BY <2>3 DEF CacheType, Agree, NoRepeats
  <2> HIDE DEF e
  <2>6. CASE m = e
    <3>1. \A q \in PageIds : m.hashTable[q] = IF q = Victim(c) THEN NoEntry ELSE c.hashTable[q]
      BY <2>3, <2>6 DEF CacheType
    <3> QED
      BY <2>2, <2>3, <2>5, <2>6, <3>1 DEF Cached
  <2>7. CASE m = Dangling(c, dirty)
    <3>1. m \in CacheType /\ m.hashTable = c.hashTable /\ m.size = c.size
      BY <2>4, <2>5, <2>7 DEF Dangling, CacheType
    <3>2. Cached(m) = Cached(c)
      BY <3>1 DEF Cached
    <3> QED
      BY <2>4, <2>5, <2>7, <3>1, <3>2
  <2> QED
    BY <2>1, <2>6, <2>7
<1> QED
  BY <1>1, <1>2

\* A getPage that may meet a deleted node changes the list only, and no page gets
\* a second node.
LEMMA TouchedFacts ==
  ASSUME NEW c \in CacheType, NoRepeats(c.lruList), NEW p \in PageIds
  PROVE  /\ Touched(c, p) \in CacheType
         /\ NoRepeats(Touched(c, p).lruList)
         /\ Touched(c, p).hashTable = c.hashTable
         /\ Touched(c, p).size = c.size
<1> DEFINE s == c.lruList
<1>1. s \in Seq(PageIds) /\ ToSet(s) = {s[i] : i \in 1 .. Len(s)}
  BY DEF CacheType, ToSet
<1>2. CASE p \in Cached(c) \ ToSet(s)
  <2> DEFINE t == PushFront(s, p)
  <2>1. /\ t \in Seq(PageIds) /\ Len(t) = Len(s) + 1 /\ t[1] = p
        /\ \A j \in 2 .. Len(s) + 1 : t[j] = s[j - 1]
    BY <1>1, PushFrontFacts
  <2> HIDE DEF t
  <2>2. \A j \in 2 .. Len(s) + 1 : j - 1 \in 1 .. Len(s) /\ t[j] # p
    BY <1>1, <1>2, <2>1
  <2>3. ASSUME NEW i \in 1 .. Len(t), NEW j \in 1 .. Len(t), t[i] = t[j]
        PROVE  i = j
    <3>1. CASE i = 1 \/ j = 1
      BY <1>1, <2>1, <2>2, <2>3, <3>1
    <3>2. CASE i # 1 /\ j # 1
      <4>1. i \in 2 .. Len(s) + 1 /\ j \in 2 .. Len(s) + 1
        BY <1>1, <2>1, <3>2
      <4>2. s[i - 1] = s[j - 1] /\ i - 1 \in 1 .. Len(s) /\ j - 1 \in 1 .. Len(s)
        BY <2>1, <2>2, <2>3, <4>1
      <4>3. i - 1 = j - 1
        BY <4>2 DEF NoRepeats
      <4> QED
        BY <4>1, <4>3
    <3> QED
      BY <3>1, <3>2
  <2>4. NoRepeats(t)
    BY <2>3 DEF NoRepeats
  <2>5. Touched(c, p) = [c EXCEPT !.lruList = t]
    BY <1>2 DEF Touched, t
  <2> QED
    BY <2>1, <2>4, <2>5 DEF CacheType
<1>3. CASE p \notin Cached(c)
  BY <1>3 DEF Touched, GetPage
<1>4. CASE p \in Cached(c) /\ p \in ToSet(s)
  <2>1. PICK i \in 1 .. Len(s) : s[i] = p
    BY <1>1, <1>4
  <2>2. NodeOf(s, p) = i
    BY <1>1, <2>1, NodeOfIsNode
  <2>3. Touched(c, p) = [c EXCEPT !.lruList = MoveToFront(s, i)]
    BY <1>4, <2>2 DEF Touched, GetPage
  <2>4. MoveToFront(s, i) \in Seq(PageIds) /\ NoRepeats(MoveToFront(s, i))
    BY <1>1, MoveToFrontFacts, MoveToFrontPermutes
  <2> QED
    BY <2>3, <2>4 DEF CacheType
<1> QED
  BY <1>2, <1>3, <1>4

\* While list and table agree there is no deleted node to meet.
LEMMA TouchedIsGetPage ==
  ASSUME NEW c \in CacheType, Agree(c), NEW p \in PageIds
  PROVE  Touched(c, p) = GetPage(c, p)
<1>1. c.lruList \in Seq(PageIds) /\ ToSet(c.lruList) = {c.lruList[i] : i \in 1 .. Len(c.lruList)}
  BY DEF CacheType, ToSet
<1>2. Cached(c) \subseteq ToSet(c.lruList)
  BY <1>1 DEF Agree
<1> QED
  BY <1>2 DEF Touched

\* pinPage and unpinPage change a flag of an entry and neither the list nor which
\* pages are cached.
LEMMA SetPinnedFacts ==
  ASSUME NEW c \in CacheType, Agree(c), NEW p \in Cached(c), NEW b \in BOOLEAN
  PROVE  /\ SetPinned(c, p, b) \in CacheType
         /\ Agree(SetPinned(c, p, b))
         /\ SetPinned(c, p, b).lruList = c.lruList
         /\ SetPinned(c, p, b).size = c.size
         /\ SetPinned(c, p, b).hashTable[p].pinned = b
         /\ \A q \in PageIds \ {p} : SetPinned(c, p, b).hashTable[q] = c.hashTable[q]
         /\ Cached(SetPinned(c, p, b)) = Cached(c)
<1> DEFINE d == SetPinned(c, p, b)
           entry == [c.hashTable[p] EXCEPT !.pinned = b]
<1>1. p \in PageIds /\ c.hashTable[p] \in CacheEntry
  BY DEF CacheType, Cached
<1>2. entry \in CacheEntry /\ entry # NoEntry /\ entry.pinned = b
  <2>1. entry \in CacheEntry /\ entry.pinned = b
    BY <1>1 DEF CacheEntry
  <2> QED
    BY <2>1, EntryIsNotNull
<1>3. d = [lruList |-> c.lruList, hashTable |-> [c.hashTable EXCEPT ![p] = entry],
           size |-> c.size]
  <2>1. d = [c EXCEPT !.hashTable[p] = entry]
    BY DEF SetPinned, CacheType
  <2> HIDE DEF d, entry
  <2> QED
    BY <2>1 DEF CacheType
<1> HIDE DEF d, entry
<1>4. /\ d.lruList = c.lruList
      /\ d.size = c.size
      /\ d.hashTable = [c.hashTable EXCEPT ![p] = entry]
  BY <1>3
<1>5. d \in CacheType
  <2>1. [c.hashTable EXCEPT ![p] = entry] \in [PageIds -> CacheEntry \union {NoEntry}]
    BY <1>2 DEF CacheType
  <2> QED
    BY <1>3, <2>1 DEF CacheType
<1>6. d.hashTable[p] = entry /\ \A q \in PageIds \ {p} : d.hashTable[q] = c.hashTable[q]
  BY <1>1, <1>4 DEF CacheType
<1>7. Cached(d) = Cached(c)
  BY <1>2, <1>6 DEF Cached
<1>8. Agree(d)
  BY <1>4, <1>7 DEF Agree
<1> QED
  BY <1>2, <1>4, <1>5, <1>6, <1>7, <1>8 DEF d
=============================================================================
