------------------------------- MODULE Pager -------------------------------
(***************************************************************************)
(* The pager (src/storage/Pager.cpp) with the LRUCache it owns, its pool   *)
(* of Page objects, the database file, the process that uses it and the    *)
(* ways that process can end: the end of main, SIGINT (whose handler       *)
(* flushes and exits wherever the program was) and a kill.                 *)
(*                                                                         *)
(* A page's bytes are abstracted to a content: Blank, or the page id its   *)
(* writer meant with a version.  A slot that was never written is          *)
(* Unwritten.  The code is single-threaded, so an operation is one step,   *)
(* except that allocateNewPage stops before it counts the page, and        *)
(* flushAll after each page.  SIGINT comes between two steps (Sigint) or   *)
(* cuts into an operation, which is then never finished, since the handler *)
(* does not return: the Cut actions are the beginnings of the operations,  *)
(* up to each point whose state the handler can tell from the ones before. *)
(* A kill in the middle is a cut followed by Kill.                         *)
(***************************************************************************)
EXTENDS LRUCacheOps

CONSTANTS
  MaxPages,   \* MAX_PAGES
  Versions,   \* Versions[p]: the versions of page p's content a writer can write
  Blank,      \* the content of an empty page (usedBytes = 0)
  Unwritten,  \* a slot of the file that holds nothing
  NoPage      \* a null Page*

ASSUME PagerAssumption ==
  /\ MaxPages \in Nat \ {0}
  /\ PageIds = 1 .. MaxPages - 1
  /\ Frames = 0 .. Capacity - 1

WrittenContents == UNION {{p} \X Versions[p] : p \in PageIds}

Contents == {Blank} \union WrittenContents

ASSUME SlotAssumption == /\ Blank \notin WrittenContents
                         /\ Unwritten \notin Contents
                         /\ NoPage \notin [pageId : PageIds, frame : Frames]

VARIABLES
  cache,       \* lruCache_
  frames,      \* pagePool_
  disk,        \* the slots of the file
  superblock,  \* the page count at offset 0 of the file
  totalPages,  \* totalPages_
  held,        \* the Page* the last call returned, with the page it was for
  pc,          \* where the process is
  flushNext,   \* i in the loop of flushAll
  exiting,     \* what ends when the flush is done: "none", "main" or "handler"
  latest,      \* history: the content the writers of page p last gave it
  used         \* history: the pages whose frame was ever filled for them

memory == << cache, frames, totalPages, held >>
file == << disk, superblock >>
control == << pc, flushNext, exiting >>
history == << latest, used >>
vars == << memory, file, control, history >>

EmptyFrame == [pageId |-> 0, isDirty |-> FALSE, content |-> Blank]

\* The frame of the pool that a page is always given, whoever is in it.
FrameOf(p) == p % Capacity

\* The content a reader of the file would get for page p.
OnDisk(p) == IF disk[p] = Unwritten THEN Blank ELSE disk[p]

Init ==
  /\ cache = EmptyCache
  /\ frames = [f \in Frames |-> EmptyFrame]
  /\ disk = [p \in PageIds |-> Unwritten]
  /\ superblock = 0
  /\ totalPages = 0
  /\ held = NoPage
  /\ pc = "idle"
  /\ flushNext = 1
  /\ exiting = "none"
  /\ latest = [p \in PageIds |-> Blank]
  /\ used = {}

(***************************************************************************)
(* putPage on the pool pool: the entry's Page* says which frame is looked  *)
(* at for isDirty and which frame writePage serializes.                    *)
(***************************************************************************)
FrameIn(c, p) == c.hashTable[p].page

VictimDirty(c, pool) == CanEvict(c) /\ pool[FrameIn(c, Victim(c))].isDirty

\* The pages written out by putPage(p): the victim, if its frame is dirty.
WrittenBack(c, pool, p) == {v \in Evicts(c, p) : pool[FrameIn(c, v)].isDirty}

\* The pool and the file when the pages out have been written out.
PoolAfter(pool, out) ==
  [f \in Frames |-> IF \E v \in out : FrameIn(cache, v) = f
                    THEN [pool[f] EXCEPT !.isDirty = FALSE] ELSE pool[f]]

DiskAfter(pool, out) ==
  [q \in PageIds |-> IF q \in out THEN pool[FrameIn(cache, q)].content ELSE disk[q]]

PutInto(pool, p) ==
  LET out == WrittenBack(cache, pool, p)
  IN  /\ cache' = PutPage(cache, p, FrameOf(p), VictimDirty(cache, pool))
      /\ frames' = PoolAfter(pool, out)
      /\ disk' = DiskAfter(pool, out)

\* putPage(p) up to somewhere: a dirty victim is written out before it is dropped.
CutPut(pool, p) ==
  /\ p \notin Cached(cache)
  /\ \E c \in MidPut(cache, p, VictimDirty(cache, pool)) :
     \E out \in {{}, WrittenBack(cache, pool, p)} :
       /\ c = cache \/ out = WrittenBack(cache, pool, p)
       /\ cache' = c
       /\ frames' = PoolAfter(pool, out)
       /\ disk' = DiskAfter(pool, out)

\* The Page* of page p's frame, as the caller gets it.
Returned(p) == [pageId |-> p, frame |-> FrameOf(p)]

WriteSuperblock(n) == superblock' = n

(***************************************************************************)
(* The operations of the engine.                                           *)
(***************************************************************************)
FetchHit(p) ==
  /\ pc = "idle"
  /\ p \in Cached(cache)
  /\ cache' = GetPage(cache, p)
  /\ held' = [pageId |-> p, frame |-> FrameIn(cache, p)]
  /\ UNCHANGED << frames, totalPages, file, control, history >>

\* Mutation: the slot before is read.
Loaded_SlotBefore(p) == IF p > 1 THEN OnDisk(p - 1) ELSE OnDisk(p)

PastTheEnd(p) == \A q \in PageIds : q >= p => disk[q] = Unwritten

\* Page::deserialize: a read past the end of the file leaves the frame as it
\* is; a slot never written but followed by one that was reads as zeros.
Loaded(p) == IF PastTheEnd(p) THEN frames[FrameOf(p)].content ELSE OnDisk(p)

\* The isDirty that deserialize reads: only dirty pages are ever written out.
LoadedDirty(p) == IF PastTheEnd(p) THEN frames[FrameOf(p)].isDirty ELSE disk[p] # Unwritten

\* The pool with page p read into its frame, before putPage evicts anything.
Filled(p, dirty) ==
  [frames EXCEPT ![FrameOf(p)] = [pageId |-> p, isDirty |-> dirty, content |-> Loaded(p)]]

FetchMiss(p) ==
  /\ pc = "idle"
  /\ p \notin Cached(cache)
  /\ PutInto(Filled(p, FALSE), p)
  /\ held' = Returned(p)
  /\ used' = used \union {p}
  /\ UNCHANGED << totalPages, superblock, control, latest >>

\* Mutation: isDirty is not set.
Written_Clean(frame, c) == [frame EXCEPT !.content = c]

\* Page::writeRow.
Written(frame, c) == [frame EXCEPT !.content = c, !.isDirty = TRUE]

\* The caller writes a row into the page it holds.
WriteRow ==
  /\ pc = "idle"
  /\ held # NoPage
  /\ \E v \in Versions[held.pageId] :
       LET content == << held.pageId, v >>
       IN  /\ frames' = [frames EXCEPT ![held.frame] = Written(@, content)]
           /\ latest' = [latest EXCEPT ![held.pageId] = content]
  /\ UNCHANGED << cache, totalPages, held, file, control, used >>

\* Mutation: > for >=.
HasRoom_OffByOne == totalPages + 1 <= MaxPages

HasRoom == totalPages + 1 < MaxPages

\* The pool with page p emptied.
Emptied(p, dirty) ==
  [frames EXCEPT ![FrameOf(p)] = [pageId |-> p, isDirty |-> dirty, content |-> Blank]]

\* allocateNewPage up to putPage, and from there on.
Allocate ==
  /\ pc = "idle"
  /\ HasRoom
  /\ LET p == totalPages + 1
     IN  /\ PutInto(Emptied(p, TRUE), p)
         /\ latest' = [latest EXCEPT ![p] = Blank]
         /\ used' = used \union {p}
  /\ pc' = "allocating"
  /\ held' = NoPage
  /\ UNCHANGED << totalPages, superblock, flushNext, exiting >>

CountPage ==
  /\ pc = "allocating"
  /\ totalPages' = totalPages + 1
  /\ WriteSuperblock(totalPages + 1)
  /\ held' = Returned(totalPages + 1)
  /\ pc' = "idle"
  /\ UNCHANGED << cache, frames, disk, flushNext, exiting, history >>

(***************************************************************************)
(* flushAll and the end of the process.                                    *)
(***************************************************************************)
StartFlush(who) == pc' = "flushing" /\ flushNext' = 1 /\ exiting' = who

\* test_runner's SHUTDOWN goes on afterwards; the end of main does not.
Flush ==
  /\ pc = "idle"
  /\ StartFlush("none")
  /\ UNCHANGED << memory, file, history >>

Shutdown ==
  /\ pc = "idle"
  /\ StartFlush("main")
  /\ UNCHANGED << memory, file, history >>

\* The handler of SIGINT takes over and does not return.
Cut == StartFlush("handler") /\ held' = NoPage

\* It interrupts the program anywhere, but not itself.
Sigint ==
  /\ pc \in {"idle", "allocating", "flushing"}
  /\ exiting # "handler"
  /\ Cut
  /\ UNCHANGED << cache, frames, totalPages, file, history >>

\* fetchPage is cut when the page is read, isDirty with it, or in putPage.
CutFetch(p) ==
  /\ pc = "idle"
  /\ p \notin Cached(cache)
  /\ \/ /\ frames' = Filled(p, LoadedDirty(p))
        /\ UNCHANGED << cache, disk >>
     \/ CutPut(Filled(p, FALSE), p)
  /\ used' = used \union {p}
  /\ Cut
  /\ UNCHANGED << totalPages, superblock, latest >>

\* allocateNewPage is cut when the page is cleared, isDirty with it, or in
\* putPage: the page is not emptied on disk.
CutAllocate ==
  /\ pc = "idle"
  /\ HasRoom
  /\ LET p == totalPages + 1
     IN  /\ \/ /\ frames' = Emptied(p, FALSE)
               /\ UNCHANGED << cache, disk >>
            \/ CutPut(Emptied(p, TRUE), p)
         /\ latest' = [latest EXCEPT ![p] = OnDisk(p)]
         /\ used' = used \union {p}
  /\ Cut
  /\ UNCHANGED << totalPages, superblock >>

\* It is cut between ++totalPages_ and writeSuperblock.
CutCount ==
  /\ pc = "allocating"
  /\ totalPages' = totalPages + 1
  /\ Cut
  /\ UNCHANGED << cache, frames, file, history >>

\* writeRow is cut before isDirty = true: unless the page was dirty before, the
\* row is not written.
CutWrite ==
  /\ pc = "idle"
  /\ held # NoPage
  /\ \E v \in Versions[held.pageId] :
       LET content == << held.pageId, v >>
       IN  /\ frames' = [frames EXCEPT ![held.frame].content = content]
           /\ latest' = [latest EXCEPT ![held.pageId] =
                           IF frames[held.frame].isDirty THEN content ELSE @]
  /\ Cut
  /\ UNCHANGED << cache, totalPages, file, used >>

FlushPage ==
  /\ pc = "flushing"
  /\ flushNext < MaxPages
  /\ cache' = Touched(cache, flushNext)
  /\ IF flushNext \in Cached(cache)
     THEN LET f == FrameIn(cache, flushNext)
          IN  /\ disk' = IF frames[f].isDirty
                         THEN [disk EXCEPT ![flushNext] = frames[f].content] ELSE disk
              /\ frames' = [frames EXCEPT ![f].isDirty = FALSE]
     ELSE UNCHANGED << disk, frames >>
  /\ flushNext' = flushNext + 1
  /\ UNCHANGED << superblock, totalPages, held, pc, exiting, history >>

\* What is left of the process, and what the next one starts with.
MemoryLost ==
  /\ cache' = EmptyCache
  /\ frames' = [f \in Frames |-> EmptyFrame]
  /\ totalPages' = 0
  /\ held' = NoPage
  /\ flushNext' = 1
  /\ exiting' = "none"

FlushDone ==
  /\ pc = "flushing"
  /\ flushNext = MaxPages
  /\ WriteSuperblock(totalPages)
  /\ UNCHANGED << disk, history >>
  /\ IF exiting # "none"
     THEN pc' = "exited" /\ MemoryLost
     ELSE /\ pc' = "idle"
          /\ flushNext' = 1
          /\ UNCHANGED << memory, exiting >>

\* A kill: nothing is flushed, and the writers must do without what they wrote.
Kill ==
  /\ pc \in {"idle", "allocating", "flushing"}
  /\ pc' = "crashed"
  /\ MemoryLost
  /\ latest' = [p \in PageIds |-> OnDisk(p)]
  /\ UNCHANGED << file, used >>

\* Mutation: the file is taken to be empty.
ReadSuperblock_Zero == 0

ReadSuperblock == superblock

\* Pager::Pager on the file that is there: readSuperblock.
Restart ==
  /\ pc \in {"exited", "crashed"}
  /\ pc' = "idle"
  /\ totalPages' = ReadSuperblock
  /\ UNCHANGED << cache, frames, held, file, flushNext, exiting, history >>

Next ==
  \/ \E p \in PageIds : FetchHit(p) \/ FetchMiss(p) \/ CutFetch(p)
  \/ WriteRow
  \/ Allocate
  \/ CountPage
  \/ Flush
  \/ Shutdown
  \/ Sigint
  \/ CutAllocate
  \/ CutCount
  \/ CutWrite
  \/ FlushPage
  \/ FlushDone
  \/ Kill
  \/ Restart

Spec == Init /\ [][Next]_vars

(***************************************************************************)
(* Properties of every page, whether it shares its frame or not.           *)
(***************************************************************************)
\* The types of the pager's state, of the file and of the process.
TypeOK ==
  /\ cache \in CacheType
  /\ frames \in [Frames -> [pageId : PageIds \union {0}, isDirty : BOOLEAN, content : Contents]]
  /\ disk \in [PageIds -> Contents \union {Unwritten}]
  /\ superblock \in 0 .. MaxPages - 1
  /\ totalPages \in 0 .. MaxPages - 1
  /\ held \in [pageId : PageIds, frame : Frames] \union {NoPage}
  /\ pc \in {"idle", "allocating", "flushing", "exited", "crashed"}
  /\ flushNext \in 1 .. MaxPages
  /\ exiting \in {"none", "main", "handler"}
  /\ latest \in [PageIds -> Contents]
  /\ used \subseteq PageIds

\* The pager never overfills its cache, every entry points to the frame of its
\* page, and the pointer a caller holds stays good until its next call: neither
\* the eviction made to hand out a page nor a flush in between drops the page
\* itself.  Only the handler, which may have cut into an eviction, can meet an
\* entry without a node.
PoolIsSound ==
  /\ exiting # "handler" => Agree(cache)
  /\ cache.size <= Capacity
  /\ \A p \in Cached(cache) : cache.hashTable[p] = [page |-> FrameOf(p), pinned |-> FALSE]
  /\ held # NoPage => /\ held.pageId \in Cached(cache)
                      /\ held.frame = FrameOf(held.pageId)

\* Whatever is lost when pages share a frame, a page only ever shows, in memory
\* or on disk, contents of the pages of its own frame.
Confined ==
  /\ \A f \in Frames : frames[f].content # Blank => FrameOf(frames[f].content[1]) = f
  /\ \A p \in PageIds : OnDisk(p) # Blank => FrameOf(OnDisk(p)[1]) = FrameOf(p)

\* flushAll asks the cache for every id in turn, so that it leaves the pages in
\* order of their ids: what was used when is forgotten, and the next victim is
\* the page with the lowest id.  (The handler's list is not used again.)
FlushForgetsRecency ==
  pc = "flushing" /\ flushNext = MaxPages /\ exiting # "handler" =>
    \A i, j \in 1 .. Len(cache.lruList) : i < j => cache.lruList[i] > cache.lruList[j]

(***************************************************************************)
(* Properties of the pages that have a frame to themselves.                *)
(***************************************************************************)
\* No other page has been in page p's frame, in this process or an earlier one.
\* Of a database of at most Capacity pages every page is alone; of a larger one,
\* the pages whose frame no page in use comes round to again.
Alone(p) == \A q \in used : FrameOf(q) = FrameOf(p) => q = p

\* What a fetch of page p returns, or would return.
View(p) == IF p \in Cached(cache) THEN frames[FrameIn(cache, p)].content ELSE Loaded(p)

\* As long as no other page uses its frame, and whatever happens to the pages
\* that do share one, a reader of a page is given what its writers last wrote:
\* after an eviction, a flush, a kill, and a SIGINT at any point of an operation,
\* which loses at most the write or the allocation it cuts into.
ReadsLatest == exiting # "handler" => \A p \in PageIds : Alone(p) => View(p) = latest[p]

\* main.cpp:39 and test_runner.cpp:161 announce it: a shutdown flushes all
\* pages to disk, so that the file then holds the latest content of each.
FlushedToDisk == pc = "exited" => \A p \in PageIds : OnDisk(p) = latest[p]

(***************************************************************************)
(* The store the pager implements.                                         *)
(***************************************************************************)
phase ==
  CASE pc \in {"exited", "crashed"} -> pc
    [] pc = "flushing" /\ exiting # "none" -> "closing"
    [] OTHER -> "open"

\* Nobody reads while the handler runs; what the exit keeps is then current.
current ==
  [p \in PageIds |-> IF ~ Alone(p) THEN Blank
                     ELSE IF exiting = "handler" THEN latest[p] ELSE View(p)]

durable == [p \in PageIds |-> IF Alone(p) THEN OnDisk(p) ELSE Blank]

Store == INSTANCE PageStore WITH
           Group <- [p \in PageIds |-> FrameOf(p)],
           total <- superblock

\* Of the pages that have a frame to themselves the pager is a page store: reads
\* see writes, a kill falls back to what was on disk, and a shutdown or a SIGINT,
\* also one that cuts into an operation or another flush, exits with them on disk.
ImplementsStore == Store!Spec
=============================================================================
