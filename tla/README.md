# NanoDB in TLA+

NanoDB is a small database engine in C++: a file of 4 KiB pages behind an LRU
page cache, a system catalog, AVL-tree indexes, a priority queue of query tasks,
a WHERE-clause evaluator and a join planner, driven by a batch of queries from
`queries.txt`.  This directory models it in TLA+, checks the models with TLC and
proves with TLAPS what cache, pager, pages, table, executor, join optimizer, queue,
indexes, query drivers, catalog and process life promise.

Source paths below are relative to the repository root (`src/storage/...`,
`include/...`, `tests/...`); `PROJECT.json` maps every definition to its lines.

Contents: 1 the system · 2 the modules · 3 the runs · 4 the proofs ·
5 what the checks found · 6 what is not modelled · 7 the plan

## 1. The system

### 1.1 How it runs

`main` (src/main.cpp) creates three singletons or locals in turn, the logger, the
catalog and the pager, sets three globals (`g_logger`, `g_catalog`, `g_pager`)
for its SIGINT handler, loads the TPC-H data if there is none, reads up to 100
queries, enqueues all of them and runs one after the other.  At the end it
flushes, saves the catalog and destroys everything.  SIGINT at any moment runs a
handler that flushes, saves and exits by itself.  There are no other threads
(on Windows the handler is one); what is concurrent is the handler with whatever
main was doing, and what is persistent is the page file and the catalog file,
which outlive kills.

### 1.2 Components

| component | state | operations | what makes it correct |
|---|---|---|---|
| Page cache: `LRUCache`, `DoublyLinkedList` | recency list, bucket table, size, pin flags, counters | getPage, putPage, pinPage, unpinPage, evictLRU | list, table and size agree; the victim is the least recently used page; a pinned page stays; the capacity holds |
| Pager | pool of Page objects, cache, superblock, file | fetchPage, allocateNewPage, writePage, flushAll, open, close | while no other page uses its frame, a reader of a page gets the last write, and a clean exit or SIGINT puts it on disk; the page count survives |
| Page, `Field`, `Row` | header, bytes, usedBytes | writeRow, readRow, serialize, deserialize | rows come back as they were; a page stays within its slot |
| Process, Logger | globals, logger instance, its mutex and file | start, shutdown, SIGINT, log | the handler meets live objects only; no line is lost; everybody's turn comes |
| Priority queue | array heap | enqueue, dequeue | a bounded priority queue, first in first out within a priority |
| Query drivers: `main`, `tests/test_runner.cpp` | position in the file, queries, next task id | read, enqueue, execute | each query runs once, in the promised order; none is dropped |
| System catalog, `HashMap` | chained hash table of schemas, catalog.bin | registerTable, loadFromDisk, saveToDisk, rehash | what is known about tables after any number of starts and kills |
| Indexes: `AVLTree`, `IndexManager` | trees in chained buckets | createIndex, dropIndex, insertEntry, removeEntry, lookupPage, rangeLookup | balance, search order, exact lookups and ranges |
| Query executor | rows per table; a clause and a page while a query runs | select, insert, update, join | a row inserted stays and its index entry leads to it; a query finds the rows its clause describes |
| Parser and evaluator | position in the text, two stacks and a queue per clause | tokenize, convert, evaluate | signs and names are cut as they were meant; grouping by precedence; operands and operators match |
| Join optimizer: `Graph`, `UnionFind`, `MSTOptimizer` | list of edges, forest of pointers | addNode, addEdge, computeMST, buildJoinPath | the tree is a minimal one; no index leaves its array; the walk ends |
| Loader, Benchmark, MemTracker, tools | - | - | - |

### 1.3 Who calls whom

* The executor asks the pager for pages, the pager its cache, and the cache, when
  it evicts a dirty page, calls back into the pager (`writePage`), **which asks the
  cache for the page it is just evicting**.  Both layers see each other half way
  through an operation.
* A page lives in frame `pageId % poolSize` of the pool, whoever else is in it: the
  cache's capacity counts entries, the pool has as many frames, and two entries can
  point to one frame.
* main, the pager and the catalog log through one mutex; the SIGINT handler calls
  all three.
* The catalog is saved by main and by the handler, into the same file.
* main puts all its queries into the queue before it takes one out; the test
  runner's `QueryExecutor::execute` puts one in and takes one out.
* The executor cuts a query into a table and a clause, has the clause tokenized and
  converted once, asks the index manager for a page or the pager for all of them,
  and gives each row that a page yields to `evaluate`.
* An insert asks the pager for page after page until one has room, writes the row
  and enters that page's id in the index; nobody tells the index when a page is
  cleared.
* A JOIN query builds a graph, has the optimizer make a tree and a path of it, prints
  the path and deletes it.

### 1.4 What is hard

Eviction in the middle of a fetch, two pages in one frame, a flush that reorders
the list, pins at a full cache (sequences of legal calls); SIGINT inside an
allocation, an eviction, a flush, a load, a save or a log call (interleaving, deadlock); kills between
the page and the superblock or in a save that has truncated its file (crash
recovery); tables registered again by every start, a rehash, garbage counts
(long sequences over restarts); full heap, full array, long lines (limits); the
boundaries of heap, page and slot (off by one); rotations after removal; an index
that is kept beside the pages it points to; chains of operators and stacks nobody
checks; path compression and a loop without a guard in the optimizer.  The list with lines and
properties is `hazards` in `PROJECT.json`.

### 1.5 The state of the repository

The code at this commit does not compile as it stands: for instance
`Pager::getPage` and `getNumPages` are called and `fetchPage` and `getTotalPages`
defined, `Queue::isFull` is used and not declared, `Tokenizer.cpp` has variables
named `or` and `not`, `HashMap<char*, TableSchema*>::hash` has no specialisation,
`Logger.cpp` casts a pointer to `unsigned int` (truncating it on 64-bit POSIX),
`SystemCatalog.cpp` reaches private members of `HashMap`,
`tests/test_runner.cpp` calls `catalog.createTable`.  The models take the smallest
change that makes a file compile (the method that exists for the one called, the
destructor of a stack of values as the no-op its comment says) and nothing else.

`SystemCatalog::getTable` compares the caller's pointer with the pointers in the
map, so that it never finds a table.  Every query therefore ends with "Table not
found", and main loads the TPC-H data again on every start.  What lies behind that
call (scans, inserts, the evaluator) is modelled as it would run if the table were
found.  `executeTask` ends with the deletion of a variable that does not exist, which
is left out, and `executeJoin` calls a private method of `Graph`, which is taken as
public.

## 2. The modules

| module | models | abstract specification |
|---|---|---|
| `LRUCacheOps` | the cache's operations as functions on a cache value | |
| `LRUCache` | the cache alone, with pins, one action per operation | |
| `Pager` (uses `LRUCacheOps`) | pager, frames, superblock, file, flush, SIGINT, kill, restart | `PageStore` |
| `PageRows` | the bytes of rows in a page and of pages in the file | |
| `Table` | where inserts put rows, and what the indexes know of them | |
| `Tokenizer` | the characters of a clause as tokens | |
| `Expressions` (uses `Tokenizer`) | convert and evaluate | |
| `Engine` (composes `Table` and `Expressions`) | the executor: routing, index or scan, select and update | `Table` |
| `Clauses` (extends `Engine`) | what a clause means, and which rows a query should find | |
| `JoinPath` | graph, union-find, spanning tree, join path | |
| `Shutdown` | main's life, the logger and the SIGINT handler on both platforms | |
| `PriorityQueue` | the heap, one swap per step | `TaskQueue` |
| `QueryBatch` (uses `TaskQueue`) | main's batch and the test runner | |
| `Catalog` | hash map, rehash, load, save, starts, kills | |
| `AVLTree`, `IndexManager` | trees and the index table | |
| `LRUCacheOps_proofs`, `LRUCache_proofs`, `Pager_proofs`, `PageRows_proofs`, `Engine_proofs` (with `Table`, `Clauses` and `JoinPath`), `PriorityQueue_proofs` (with `IndexManager`), `QueryBatch_proofs`, `Shutdown_proofs` (with `Catalog`) | theorems | |
| `MC*` | values of constants for TLC | |

### LRUCacheOps, LRUCache

A cache value is a record of `lruList` (page ids, head first), `hashTable` (page id
to entry or `NoEntry`, for 512 chained buckets) and `size`.  `GetPage`, `PutPage`,
`EvictLRU`, `SetPinned` are the methods; `Unlinked` is the part of `evictLRU` in
which the call back into the pager may move the victim to the front before the tail
is removed.  For a SIGINT there are also `MidPut`, the caches that `putPage` goes through,
one of which has an entry whose node is deleted (`Dangling`, between `removeNode` and
`removeEntry`), and `Touched`, the `getPage` of the handler, which may meet that entry: to move a
deleted node is undefined, and the model lets the process go on with the node at the front or die
(`Kill`).  `LRUCache` adds `pageFaultCount`, `evictionCount` and the flags
of the Page objects, and has the actions `Hit`, `Miss`, `Put`, `Pin`, `Unpin` (called
by any owner; the pager never pins) and `WriteRow` (a holder dirties a page).  Two history
variables: `usedSince[p]`, the pages used since `p` was, and `pinnedOnce`.

### PageStore, Pager

`Pager` owns a cache value, `frames`, `disk`, `superblock` and `totalPages`.  An
operation is one step, `Allocate` and `CountPage` (superblock) two, and a flush one step per page id
(`Flush`, `FlushPage`, `FlushDone`).  SIGINT starts the handler's flush between two steps (`Sigint`) or inside one,
which is then never finished, as the handler exits.  `CutFetch`, `CutAllocate`, `CutCount` and `CutWrite` are
`fetchPage`, `allocateNewPage` and `writeRow` up to any point at which the handler meets something
else than before: the frame read or cleared and `isDirty` not yet set to what it should be, the victim
written and not dropped, its node deleted and its entry not, the page dropped and the new one not yet put in,
the count raised and not written.  `Kill` loses memory and keeps the file, after a cut too; `Restart` opens it again.
Contents are `Blank` or a pair of the page meant and a version, so that a page
that shows another page's bytes can be told.  The grain is that of a page: it is read, written and
changed as a whole, and a pointer is moved in a list or a chain as a whole.

The pool gives page `p` frame `p % poolSize`, and the code does not look who is in it.  The
properties therefore come in two kinds.  `PoolIsSound`, `Confined` and `FlushForgetsRecency` hold of
all pages.  `ReadsLatest` and `ImplementsStore` are about a page as long as it is alone in its frame
(`Alone`): no other page id of that frame was ever fetched or allocated (`used`).  The code has 1023
page ids and 200 frames in main, 50 in the runner, so that all pages of a database of up to 200, or 50, pages
are alone, and of a larger one those whose frame has no second page in use yet.  That a page is kept whatever the
pages that share frames lose is not obvious: they take part in one recency list, one flush and one eviction.

`PageStore` is the promise: current and durable contents, any part of the current written back at any time,
a clean exit with all of it.  Its pages come in groups, and what is used takes the promise from the
others of its group (`Kept`); an operation that `phase` closes in the middle may have happened or not, an allocation cut short leaves the
page as it is on disk.  The refinement maps groups to frames, `current` to what a fetch of a page that is alone would
return and `durable` to its slot.

### PageRows

The one module with real bytes: `Encoded`, `Written`, `RowAt`, `Scan` are
`Field::serialize`, `Page::writeRow`, `Page::readRow` and the loop over it;
`Serialized`, `Deserialized`, `SlotOf` put a page with its ten-byte header into the file.
`WriteLoop`, `ReadLoop` and `ScanFrom` are the code's loops as recursive functions.  `Insert` is an
insert into the page that has room, `InsertCleared` the one that clears the last page for lack of
any.  A Row object holds up to 16 fields, a string up to 255 characters, none of them 0 (`Storable`); the
page ids are those below `MAX_PAGES`, and `PageSize` any below 64 KiB, so that an `int` which the
pager writes has only two bytes that are not 0.  What it reads is any `int` (`IntOf`), as a row that runs over its slot
lies in the next header: a `usedBytes` of more than a page is taken for a page, a negative one is kept
and handed to `fread` as a size.  Nothing is known from there on: `undefined` is set and the model stops.
Page size and margin are constants (32 and 17 in the run, 4096 and 256 in the code).

### Shutdown

`at`, `lines` and `call` say where main and the handler are, `loggers` has the two
logger objects a process can come to create, with the owner of each mutex.  `Runs` is
the difference of the platforms: on POSIX the handler runs on top of main and main
never comes back, on Windows they interleave and the lock is recursive.  A use
of a freed object sets `status = "undefined"`.  Of the tables it is told how much there is of them: `BeginLoad` and
`EndLoad` are `loadFromDisk`, with a part of the stored tables loaded in between, `OpenCatalog` and `WriteCatalog`
`saveToDisk`.  `crowded` is what `Catalog` shows of many starts: the stored tables rehash the map when they are loaded, and
then every save, main's own too, writes only those of the first 256 buckets (`Stored`).

### TaskQueue, PriorityQueue, QueryBatch

`TaskQueue` is a set of pending tasks, bounded, which loses a task enqueued when it
is full and hands out the most urgent (priority, then task id).  `PriorityQueue` is the array with
`siftUp` and `siftDown` one swap at a time; between the swaps `hole` is the index of
the task being sifted.  `QueryBatch` instantiates `TaskQueue`; it reads lines through `fgets`
in pieces (buffers of 1024 and 512 bytes, tasks of 511 characters; lengths are
counted in units of a task), skips what the program skips, enqueues and runs.
`processed` is main's count of the queries it has run, by which its loop goes and not by the
queue; the runner goes by the one task it has put in.

What should run, and in which order, is not taken from the programs but from `queries.txt` and its comments:
a line that starts with `#` is no query (test_runner.cpp:126; `QueryLines`), an ADMIN query runs before all user
queries (queries.txt:57; `ToPrecede`), and else the file's order counts.  Two things the programs do
otherwise and `RunsInOrder` therefore does not ask: ADMIN first of the runner, and that main leaves comments alone (it
runs them, and they take room in its array, `Fits`).  Both are findings.

### Catalog

The keys are pointers compared as pointers, so `insert` always adds, and a node is the
name of its table.  `hashOf` is chosen in `CatalogInit` among all functions, so no result
rests on a hash function.  `Insert` with `Rehash` and `Walk` are those of the map, `Registered` the calls of
`registerTable` one after the other, `FreshCatalog` the constructor's.  `StartUp` constructs, sets `g_catalog` and reads the
table count; each `LoadTable` is a round of `loadFromDisk`'s loop.  `SaveAndExit` is main at its end, or the handler at any
time: the map it finds may lack tables still to be loaded, or be in the middle of an insert, with a node not yet counted or half
of the nodes rehashed (`Savable`, `MidInsert`).  `KillInSave` leaves a file cut at any table, `Kill` the file as it was.  The
tableCount of a file too short to hold it is any of `Garbage`.  SIGINT between the constructor and `g_catalog = catalog` saves nothing, which is
`Kill`.  The statements are taken in the order of the source, which a compiler need not keep for a handler.  The
test runner is not in this module: it never loads the file, and its `saveToDisk()`, without a path, matches no method.

### AVLTree, IndexManager

The recursive algorithms of `AVLTree.cpp` on tree values: a node is a record with its subtrees and
the height that the code stores in it.  `Trees[n]` are the balanced trees of at most n levels whose stored
heights are true, and each algorithm is a recursive function over the trees no higher than the one it is called
with, so that a tree that is out of balance, or has a wrong height, is in none of their domains: TLC stops there,
and the proofs must show that it never happens.  `IndexManager` has the chains of the hash table
with creation at the head, drop, insertion and removal.  `entries` is the reference: the keys inserted and not
removed with their latest page.  Keys are any integers and heights have no bound, as a tree of 32 bit keys has
at most 46 levels.

### Table

A page is the sequence of the rows written to it, of all tables together, and the pages are
those of `PageStore`, each alone in its frame (no more pages than frames).  `Insert` is
the whole of `executeInsert`: the loop for a page with 256 bytes left (`WithRoom`, `Target`), the
page behind the loop, which is cleared first (`RowsAfter`), the row, the index entry
(`Entered`), `totalRows`.  `AllocatePage` is `allocateNewPage`, which the executor does not call
but an owner of the pager may; `Restart` is a clean end and a new start, with empty
indexes.  `lost` is history: the index entries whose row was cleared away.  The index is
`IndexManager`'s `entries`, a page for each key (run `index` shows that the trees are that).

### Tokenizer, Expressions

A text is a sequence of pieces: one character, a run of digits, or a run of letters and the like
that stands for a name or a keyword.  `NextToken` is the branch on the first piece,
`IdentifierOrKeyword`, `Number`, `String` and `Operator` are the readers, `TokenizeAll` the loop.

`ConvertOperand`, `ConvertOperator`, `ConvertOpening`, `ConvertClosing`,
`ConvertOther` and `ConvertEnd` are the branches of the loop of `convert`;
`EvaluateIdentifier`, `EvaluateLiteral`, `EvaluateOperator`, `EvaluateOther` and `Return` those
of `evaluate`, which runs on the same postfix tokens for row after row.  A float is a number of tenths (`Tenths`): one
digit counts behind the dot, and a product is cut to tenths.  `Trap` is the remainder by an
`int` 0, which ends the process; a float is cut to an `int` first (`CutToInt`), so that 0.5 is one too.

### Engine

`Word`, `TableAsked`, `HasWhere`, `IsRouted` are what `executeTask` and the extract functions see of
a query: the fourth word of a SELECT is its table, whatever the others are.  `Ask` starts
`executeSelect` or `executeUpdate`, `ByIndex` is `parseWhereForIndexedColumn` with `hasIndex`,
`PlanIndex` and `PlanScan` choose the pages to `visit`, `TakeRow`, `StartRow` and
`EndRow` are the loop over their rows and `EndScan`, `EndQuery` the rest.  Between two queries
the actions of `Table` run, so that every query meets a database as inserts left it.  `found` is
what the queries print.

### Clauses

`Exprs[n]` are the expressions whose operators lie at most n deep in each other, `Expr` those of depth `MaxDepth`.
`Typed` writes an expression as a user would, with as few parentheses as the grammar allows and
with or without spaces around the signs.  `Meaning`, its value on a row, is the reference for `AnswerIsExact`, in a module of
its own that translates no code and uses none of the evaluator's operations: `Meant` compares and computes
with the amounts of two numbers (`MeantComparison`, `MeantArithmetic`), a remainder is what is left when the right side is
taken from the left as often as it goes (`LeftOver`), AND and OR are those of ints (`MeantLogic`).  These are recursive functions on `Expr`.

Not everything has a meaning one could hold the code to.  `Null` is the value of a column the row lacks (it may be
a row of another table on the same page), of a number compared with a string, of a fraction taken as a truth, of a product finer than tenths
and of the remainder of a fraction.  An int compared with a float does have a meaning, by amount, which the evaluator does not
share: it holds the two to be neither equal nor in order.  Such rows are left out by name (`IsMixed`, a finding) and not by calling that
meant.  `IsAskedAbout` are the rows left: there the query must find exactly those of which the clause is true.
`Traps` says where the process may end, at a remainder whose right side is smaller than 1.  NOT and numbers with a sign are no
expressions: the code has no operator with one side, passes over NOT, and gives a minus the left side it finds, although
`evaluate` would read a sign in a number (ExpressionEvaluator.cpp:27).  The run has such texts, and what it shows of them is `TypeOK` and `StackClimbs`.

### JoinPath

`AddNode` and `AddEdge` are calls of a graph's owner after the constructor, which registers
the three default tables itself; `Sort`, `Choose` and `StartWalk`, `Walk`, `EndWalk` are `computeMST` and
`buildJoinPath` round by round.  `Found` is the path compression `find` leaves behind.  `Spin` is
a round of the walk at a node without unvisited neighbours: it changes nothing, and the loop goes
on.  An index beyond an array leads to `"undefined"`.  `Joined` is the reference: edges join two ids
if every set of ids that has the one and that no edge leaves has the other.

## 3. The runs

A run takes between a few seconds and two minutes.

| run | instance | shows |
|---|---|---|
| `lru_cache` | 4 pages, capacity 2, counters to 2 | list, table and size agree; recency order; the victim is the least recently used; overflow only after a pin; pinned pages stay |
| `pager` | 3 pages, 2 frames | cache within the pool, held pointers good, contents confined to their frame, order after a flush; a page is read as last written and kept as `PageStore` says while it is alone in its frame, through SIGINT between and inside operations, kills and restarts |
| `pager_lost_flush` (violation) | same | a shutdown does not put everything on disk when pages share a frame |
| `page_rows` | pages of 32 bytes, rows of 7, 24 and 25 bytes | scans see the rows, slots keep them, the margin is enough for small rows; headers overwritten by a large row, too large and negative |
| `engine` | 3 pages of 2 rows, 5 inserts, 2 tables, about 4000 queries | which rows a query finds, what an index knows, which rows stay |
| `join_path` | graphs for 1, 3 and 5 tables, 3 calls | minimal tree, union-find, array bounds, where the walk ends |
| `shutdown` | 2 log lines of work, 2 per flush | what is freed, logged and saved when; where it hangs and where not |
| `shutdown_stuck` (violation) | same | SIGINT in a log call waits for ever |
| `priority_queue` | 5 slots, 6 tasks | the heap implements `TaskQueue`, between any two swaps |
| `query_batch` | all files of up to 4 lines, 7 kinds of lines, 2 drivers, array of 3 | no task is lost, queries run once, all that are asked for and none before one that is to precede it, and the programs end |
| `catalog` | 2 tables, 8 buckets, 4 starts, every hash function into 5 values | nodes in their buckets; how the catalog grows with starts, rehash and SIGINT in a load included |
| `index` | 2 indexes in one bucket, 6 keys and 1 key, 2 pages | balance, exact lookups and ranges, the other index undisturbed |

Why the bounds are enough:

* **lru_cache.** Capacity 2 of 4 pages has a victim, a page that stays, one that comes in
  and one outside, and an overflow of two behind a pinned tail.  The counters only
  count; `WithinBounds` in `MCLRUCache` caps them, not the module.  The theorems of
  section 4 hold without any bound.
* **pager.** Pages 1 and 3 share frame 1, so that either is alone until the other is used, and page 2 stays
  alone: the situations there are for a page, with evictions of either kind by either kind.  A page is blank
  or has its one row, which an allocation takes away, so that an older content can be told from a newer one.
  The theorems of section 4 hold for every pool, every number of pages and of versions, main's pool of 200 frames for 1023 pages among them.
* **page_rows.** 17 of 32 bytes free is to rows of 7 bytes, header and page what 256 of 4096 is
  to the rows of the code's tables.  The large rows have 24 and 25 bytes; where they run over a slot, one leaves a
  `usedBytes` beyond a page in the next header, the other a negative one.  Two pages show
  a slot run over into the next.  The theorems of section 4 hold for every size.
* **engine.** Five inserts fill two pages of two rows and clear the third again; two rows share
  a key's page with a row of the other table, which has no index and other columns.  On every
  database a few queries are asked (by key, by a column of a table without index, without a clause); on
  one that has rows of both tables, a second page and a page no scan gets to, all of them: one operator
  of every kind on operands of all types (the floats are 0.5, 1.5 and 2.0 and a column), two on a few, three of every level in all five
  groupings, with and without spaces, and clauses with a piece missing or NOT before them.
  `MaxDepth = 3` is the depth of three operators in a row; the theorems of section 4 hold for every depth.
  `WithinBounds` in `MCEngine` caps the inserts.  Remainders by 0 and by 0.5 are among the queries: the process
  ends, and `AnswerIsExact` says that it does so only on a row for which the user asked for one.
* **join_path.** Three tables are those of TPC-H, five have room for a tree with a node of degree
  three, for one of four edges and for a graph in two parts; one table has no room for the default
  edges.  `MaxCalls` bounds the calls and is named in the module's guard; ids include some never added.
* **shutdown.** Two lines per phase: one before and one after the signal; with and without a rehash (`crowded`).
* **priority_queue.** Five slots are three levels with a last parent that has one
  child and one that has two; the sixth task finds the heap full.
* **query_batch.** `MaxQueries = 3` makes a fourth query too many; a line of three units is
  two pieces in main and three in the runner.  Four lines hold an administrator behind
  users, a SHUTDOWN in the middle and a query behind it.
* **catalog.** With 8 buckets the load factor is passed by the fourth start (in the code by
  about the 64th), so that saves before, in and after the rehash are all seen, and a SIGINT after each round of the load.
  `MaxStarts` bounds the generations; it is named in the module's guards.
* **index.** Six keys bring every rotation on the way in and on the way out, and removal of
  a node with two children whose successor is not its child.

**Deadlock** is checked except in `query_batch`, `shutdown` and `shutdown_stuck`,
whose programs end, in `engine`, where a remainder by 0 ends the process, and in `page_rows`, which stops where
the code goes on undefined.

**Fairness.** Only `Shutdown`, `QueryBatch` and `JoinPath` have any.  `Shutdown`: weak fairness of
main and of the handler, two strands the operating system schedules; SIGINT is not
fair, it may never come.  `QueryBatch`: weak fairness of the one step of the one
thread; `Interrupt` is not fair.  `JoinPath`: weak fairness of the steps of a call that runs, in
the one thread; the calls that build a graph are not fair.  Nothing else promises progress: a library
operation happens if its caller calls it.

**Mutations.** Operators named `X_Something` and commented `Mutation:` are plausible
mistakes in the code that `X` translates.  `PROJECT.json` pairs each property with one that
breaks it.  They are used by no specification.

## 4. The proofs

Eight modules, checked by tlapm.

**`LRUCacheOps_proofs`** has what the operations do to a cache value: `MoveToFront`
permutes (`NoRepeats`, same pages), `RemoveTail`, `EvictLRU`, `Insert`, `PutPage`, `GetPage`,
`SetPinned` keep `CacheType` and `Agree`, and which pages are cached after each.

**`LRUCache_proofs`** proves, for every finite or infinite set of page ids, every positive
capacity and any order of operations (assumptions: `CapacityAssumption`,
`NoEntryAssumption`, `OwnFrames`), the inductive invariant

    IInv == TypeOK /\ ListMatchesTable /\ RecencyOrder /\ PinnedPagesAreHeld
            /\ PinsAreKnown /\ OverflowOnlyAfterPin

The parts need each other: that the victim is in the table at all (the code looks the tail up in
the table, unlinks it, removes its entry and decrements `size_`) rests on `ListMatchesTable`;
that the tail is the least recently used page is `RecencyOrder`; that a cache of
capacity can evict, so that it does not grow, needs an unpinned tail, which
`PinsAreKnown` (an entry is pinned only if `pinnedOnce`) gives as long as nothing was
pinned.  `EvictionIsLRU` and `GrowthIsForGood` are action properties from the same invariant.
`GrowthIsPermanent` and the `EachTaskOnce` and `RootIsFirst` of the queue are left to the
proofs and have no run: the first is one step of arithmetic, the others are part of what
`ImplementsTaskQueue` says.

**`Pager_proofs`** builds on `LRUCacheOps_proofs` and proves, for every number of pages, every pool and every
set of contents (`PagerAssumption`, `SlotAssumption`, `CapacityAssumption`, `NoEntryAssumption`), the inductive
invariant

    IInv == TypeOK /\ PoolIsSound /\ Confined /\ Safe /\ Counted /\ Listed

`PoolIsSound` says that an entry of the cache points to its page's own frame and is not pinned, so
that a full cache always evicts and the one evicted is not the page being handed out; that list and table agree it says of all but
the handler, which may have cut into an eviction.  `Listed` is what remains then: no page has two nodes, and a
cached page is one that was used.  `Safe` is the strengthening of `ReadsLatest`: a page alone in its frame that is cached is
there as last written, one that is not cached or whose frame is clean is so on disk, a slot that was never written goes with an
empty frame (a read past the end of the file leaves the frame as it is), and a flush leaves no such
page behind it dirty.  In the handler's hands a clean frame may hold half of an operation, which is then never written: `Safe` asks
nothing of its content.  `Counted` says that the superblock has the process's count, without which
a restart after a kill between the two steps of an allocation could not be the store's `Restart`; the
handler may have one more, which its flush writes.
`Refinement` maps every step to a step of `PageStore` or a stutter: a miss and a `CutFetch` are `Use`, `Allocate` and
`CutAllocate` are `Empty`, with the pages they write out; the steps of a flush are `Persist`; `FlushDone` of a process that exits is `Exit`, for which
the last part of `Safe` gives `durable = current`.  `FlushOrder` needs one more inductive
invariant, `Passed`: behind a flush at id n the ids below n lead the list in
descending order.

**`PageRows_proofs`** proves, for every page size below 64 KiB, every margin with room for a header and
every set of rows a Row object can hold (the three assumptions of the module), the inductive invariant

    IInv == TypeOK /\ PageIsNamed /\ MarginIsEnough /\ SmallRowsFit /\ RowsAreLaid

`RowsComeBack` speaks of what a scan returns and is not inductive.  `RowsAreLaid` is: it says where the
bytes are.  `RowsLie(data, used, rs)` holds if there are offsets, from 0 to `used`, from each to the
next the length of a row, with the bytes of that row there (`RowLies`, `FieldLies`); `SlotHolds` says it of the bytes of a slot,
with the header that leads to them.  The argument has four parts.  *Writing:* after n rounds of `writeRow` the
first n fields lie behind each other unless one was left out, and the bytes before the row are as they were
(`LoopWrites`, `WrittenIs`).  *Reading:* what lies at an offset is what `deserialize`, `readRow` and a scan find there
(`FieldReads`, `RowReads`, `ScanFinds`).  *The file:* slots are apart (`SlotsApart`), so that a page that fits into its slot
leaves the others alone or, past the end of the file, makes them empty ones with a header of zeros (`SlotKept`, `SlotSaved`), and
bytes that an earlier page left in a Page object lie behind `usedBytes` (`DeserializedIs`).  *Room:* an insert needs
`Margin` bytes and a small row takes `Margin - 10` of them at most, so that the header, too, has room
(`SmallRowsFit`).  As long as that holds every header read is one the pager wrote, so that `undefined` comes only after a large row
(`MarginIsEnough`).  That the recursive functions exist at all is proved from `LoopExists`, a loop of n
rounds, and `ScanFromExists`, which goes down from the end of the page.

**`Engine_proofs`** begins with `Table`: it proves, for every number and size of pages, every set of rows and of indexed tables
(`TableAssumption`), that `TableTypeOK /\ IndexIsHonest` is inductive.  The history `lost` makes it so:
a clearing of the last page adds the entries that point to it, an insert of the same key
takes its entry out again.  `RowsStay` is an action property from the types alone:
`TargetFound`, the first page with room, is below the last, and only the last is cleared.

Then it proves of the executor, for every set of queries, texts and rows (`EngineAssumption`), the inductive invariant

    EngineInv == TypeOK /\ IndexIsHonest /\ PagesFit /\ StackClimbs /\ AtRest
                 /\ PlainIsEmpty /\ PagesInTurn /\ FoundSoFar /\ FoundOnScanned /\ PlainFindsAll

`TypeOK` needs the tokens of every text to be tokens, and `TokensFrom` is a recursive function: `TokensExist` proves
that there is one, by the least number of pieces from the end for which there is none.  `StackClimbs`, the operators
on the stack bind tighter and tighter, comes from `Kept`, the last operator that does not yield.  `PlainFindsAll` is
`AnswerIsExact` for the queries without a WHERE (or with one in lower case, which is none to the code): `PagesInTurn` says
that what is left to visit is the last of the pages below the last one, in order, and `FoundSoFar` that what lies before
the row being taken has been found.  `QueriesOnlyRead` is a refinement: every step of a query is a stutter of `Table`, so
that `IndexHonestyAmongQueries` and `RowsStayAmongQueries` follow from `Table`'s theorems.

Another part is about `JoinPath`, for every default graph, every set of tables and weights and every number of calls
(`JoinAssumption`).  `JoinInv` says, stage by stage of a call, how far it has come.  *The forest:* pointers stay among the tables
added and ranks rise along them (`RanksRise`), so that `find` ends at a root, path compression changes no root, and a `unite` of two
roots makes one group of two (`TellsApart`, and as many roots as tables less edges chosen).  *The tree:* of every edge looked at
so far, the ends are joined by chosen edges no heavier than it (`Choosing`); the list is sorted by weight, so that what is
chosen later is never lighter, and when the loop ends early, it has chosen as many edges as a tree has and all tables
are one group.  That is `MinimalTree`.  *The walk:* a path has no table twice and goes along edges of the tree,
so that it has at most one place more than there are edges chosen (`PathIsSafe`), for which the array has
room.  `IndexesAreSafe` is `InBounds`: with every table of an edge added and the graph connected no index leaves its array.

Its last part is `AnswersAreExact`: **of the rows it reads, a query finds exactly those its WHERE clause means**, wherever that is judged
(`IsJudged`), for every depth and shape of expression, with or without spaces, every schema, all rows and pages.  Two assumptions say what a query is:
`ClauseAssumption`, that a clause the user means something by is an expression and is typed as one, and
`EngineAssumption`, that a table has a column and the first field of a row is the key it is indexed by.  The argument has
a lemma for each stage, most of them by induction over expressions:

* `ExprInduction`: a set with all operands, and with the two sides of an operator the whole, has every expression.  It comes
  from the least depth at which one would be missing; the library's induction theorems cannot be used here.
  `ExprRecursion` is why `Typed`, `Meaning` and `Parts` exist as functions at all.
* *Text to tokens.* The tokenizer reads off `Typed(e, spaced)`, wherever it stands in a text, the tokens `InfixOf[e]`, provided
  no more of a word follows; what follows an operator without spaces must not be a `=`, and no expression begins with one.
* *Tokens to postfix.* `InfixIsConverted`: if the top of the stack binds less tightly than the expression (`Fits`), `convert` takes
  `InfixOf[e]` and leaves the stack as it was but for operators of at least the expression's level (`Grown`), and when these
  leave it, what has been put out is `PostfixOf[e]`.  That operators of the same level group from the left, and that a right side of the
  same level needs its parentheses, is decided here.
* *Postfix to value.* `evaluate` on `PostfixOf[e]` puts one field on its stack, what the code computes for e (`Computation`,
  `ComputationIs`), or has stopped at a remainder by an int 0 in e.
* *What is computed and what is meant.* These are two definitions, one of the evaluator's casts and `lessThan`, the other of amounts and
  order.  `JudgedIsComputed` shows that they agree on every row that is judged: `ComparisonIsPushed`, `LogicIsPushed` and
  `ArithmeticIsPushed` operator by operator, `RemainderIs` and `LeftOverIs` for `%` on either sign and on floats cut to ints, `MeantIsPushed` for all.  Conversely
  `ZeroIsTrap`: where the code divides by 0, the right side means a number between -1 and 1, or is not judged.

`ClauseInv` ties these to the executor: while a query is being executed there is a run of `convert`, or of
`evaluate`, from its beginning to the present state (`Converting`, `Evaluating`), the tokens and then the postfix are those of the
clause (`TokensAreMeant`, `PostfixIsMeant`), and of the pages to read, the rows already visited are found if and only if they are
wanted (`Searching`).  It is inductive only together with `EngineInv`, which has the pages in order.  For an indexed key, that
the page has the row is `IndexIsHonest`, and that the row is found that the clause holds of it (`ComparisonHolds`).

**`QueryBatch_proofs`** proves, for every file and both drivers, that

    IInv == BatchTypeOK /\ ReadAscending /\ QueueHolds /\ MainCounts /\ RunnerCounts
            /\ RanIsTakenOut /\ RunsOnce /\ RunsMostUrgent /\ NothingLost

is inductive.  `NothingLost` follows from the counts: in main, what is in the queue and what has run are together what was
enqueued (`MainCounts`), which is at most what was read, which is at most `MaxQueries`; in the runner there is one task between two
calls of `execute`, none otherwise (`RunnerCounts`).  `RanIsTakenOut` ties the history to the queue: a query has run if its task was
in the queue and is not any more; as `ReadAscending` makes queries, tasks and runs one to one, none runs twice (`RunsOnce`) and all have run
when the queue is empty (`EveryQueryOnce`).  `NullNever` says that `dequeue` never meets an empty queue, which main
rules out by its count alone.  `InQueueOrder` says of main's queue that administrators come first, in the order of the file
among themselves.

`RunsInOrder` speaks of the lines of the file, and needs a second invariant on top of the first:

    FollowsFile == AtPlace /\ MainFollowsFile /\ RunnerFollowsFile /\ InTurn

`AtPlace` says that a driver stands at the beginning of a piece of a line or at the end of the file.  The queries main has read are the
pieces of its batch before that place, cut off at `MaxQueries` (`MainFollowsFile`); the runner has done what the pieces
before its place ask for, or all but the last while it does that one (`RunnerFollowsFile`).  `InTurn` says exactly what has
run before what, for each driver as it is (`Batch`, `Expected`, `ComesBefore`; these are the proof's and are no specification): that reading goes from a piece
to the next with none between them, over the ends of lines and lines cut in pieces, is `UnitsApart` and what follows from it.
`RunsInOrder` follows: every query asked for has its first piece among those expected, and one that is to precede another comes before it.

**`Shutdown_proofs`** proves, for every number of lines, both platforms and a signal at any point, that

    IInv == ShutdownTypeOK /\ SetUp /\ LoggersInTurn /\ CallsInPlace /\ CallsOnLive /\ LinesInPlace
            /\ FileIsOpen /\ SignalIsSeen /\ TablesAreKept /\ MainAlone /\ Ended /\ FreedOnlyAtTheEnd

is inductive.  The first seven say which objects and pointers there are where main has come to, and that a call is on a logger that
lives and, once inside, owns its lock.  `FreedOnlyAtTheEnd` follows where main is alone or the handler runs on top of it; of two threads at work, on Windows after a
signal, the property says nothing, as the handler may meet what main has just deleted.  `LinesReachTheFile` needs `FileIsOpen`.  `CatalogKept` is `TablesAreKept` read at
the end: the file holds the tables, or after a rehash the part that a save leaves of them, except while one of the two saves; and a handler that saves
knows whether the catalog had been loaded.

The second part is about `Catalog`, for every set of names, every hash function, every number of first buckets and any number of starts,
saves and kills (`CatalogAssumption`).  `MapOk` says of a map that each node is in the chain of its own hash, that the size counts the nodes, and that
it has more than the first buckets only if it has more nodes than their load.  An insert keeps that, with a rehash or without: the walk over the
buckets visits every node once, and the inserts that a rehash makes are too few for another (`RehashIs`, `InsertIs`, `RegisteredIs`).  On top of it

    CatalogInv == MapOk(map) /\ (up => MapGrown) /\ (~ cutShort => file.count <= Len(Tables) * saved)
                  /\ (~ cutShort /\ ~ early => FileGrown) /\ types

`MapGrown` is `GrowsByStarts` of the process, round by round of the load: the size is the tables of TPC-H and those read so far.  `FileGrown` says the same of
a file that no SIGINT has saved in the middle of a load (`early`), whose count is right whether or not all its tables were
written: if the count is within the load of the first buckets, the map it came from had no others, and all tables are in the file.
After an `early` save only the bound is left: the maps there are in the middle of an insert never count more than the whole one (`MidInsert`).
Names are counted (`Tally`), not listed, as a rehash reorders them.

**`PriorityQueue_proofs`** proves, for every set of tasks and every capacity, `IInv ==
TypeOK /\ EachTaskOnce /\ HeapOrder`.  `HeapOrder` says that the heap is in order except around the
hole: `UpOrder` while a task rises (its children are already below its parent), `DownOrder` while
one sinks.  `SiftUpOrder` and `SiftDownOrder` are the steps.  `PeekIsFirst`, the root is the
most urgent of all, is not a step of that induction: from parent-before-child order it
follows by taking the least index that holds a more urgent task (`OrderedRootIsFirst`).  `Refinement`
maps every step to a step of `TaskQueue` or a stutter: sifts are stutters, enqueue and dequeue
are the abstract ones because of `EachTaskOnce` and `RootIsFirst`.

For the indexes it proves, for every set of names, any hash, all integer keys and all pages,
that

    IndexInv == ChainsInv /\ SizeInv /\ EntriesInv /\ TreesInv

is inductive: every chain has names of its bucket, each once; `size_` counts the existing ones; and the tree of each
existing name `Keeps` its `entries`: it is balanced, in order between some two bounds, a search finds in it
exactly the entries, and `nodeCount` is their number.  `RangeIsExact` and `LookupFindsEntry` alone are not inductive:
they do not say that the tree is in order, nor what it has for keys outside of `KeysOf`.  The argument:

* `Trees` and every algorithm are recursive functions, and the prover knows nothing of such a function but the equation that
  CHOOSE picks a solution of.  `LevelsExist`, `NodeFunction`, `InsertFunction`, `LeastFunction`, `RemoveFunction` and `CollectFunction`
  show that there is one, height by height; `DescentsAgree` that the solution does not depend on the height it starts at.
* `TreeInduction`: a set that has `NoNode`, and with two subtrees the tree, has all trees.  It is the least-height argument,
  for sets in the place of predicates.
* `InOrder(t, lo, hi)`, the order of the keys, is written without recursion: some set of trees with bounds has
  t and is closed downward.  `FoundBetween` and `InOrderBetween` relate it to what searches find, so that an insertion may widen the bounds.
* `RebalanceIs`: two ordered balanced trees that differ by at most two levels and a key between them.  Whichever of the four
  rotations `rebalance` chooses, the result is balanced and ordered, finds the same, and is at most one level higher than the
  higher of the two; not higher at all by the double rotations (`DoubleRight`, `DoubleLeft`).
* `InsertNodeIs` and `RemoveNodeIs` follow by induction over the tree; a removed node with two children becomes its
  successor (`FindMinIs`, `SuccessorTakesOver`), one with a single child a copy of it, which `rebalance` finds in balance.
* `RangeCollectIs`: the pages are those of the keys in range, each at the place of its rank among them (`Lists`, `ListsJoin`).
* `Pushed`, `Dropped` and `Replanted` are what creation, drop and a changed tree do to a chain, and `OthersStay` that the
  other names, in this bucket and in all others, keep their trees.

The theorems are listed in `PROJECT.json`.  **Only model-checked** are:

* liveness (`MainEnds`, `SigintEndsOutsideLog`, `Ends`, `WalkEndsOnPaths`): TLAPS does not prove it under fairness;
* that `evaluate` does something sensible with a text that is no expression: the runs have such texts, and what is
  proved of them is `EngineTypes` and `StackOrder` only.

## 5. What the checks found

Findings with a run:

* `pager_lost_flush`: two cached pages in one frame; `flushAll` writes the frame
  under the first page's id, marks it clean, and the other page is never written.
* `shutdown_stuck`: SIGINT during a log call; the handler's own log call waits for the mutex
  that the interrupted main holds.

Findings that a passing run has in its behaviours, and of which its property therefore makes an exception, by name:

* `query_batch`: `queries.txt` says at line 57 that an ADMIN query runs before all user queries.  That is so in
  main and not in the runner, which takes each query out as soon as it has put it in.  `ToPrecede` asks it of main only.
* `query_batch`: a line that starts with `#` is a comment to the runner and a query to main, which runs it and gives it
  room in its array.  `QueryLines` has no comments, `Fits` counts them.
* `engine`: INT and FLOAT compare as unequal and unordered, so that `c_acctbal > 5000`, in line 1 of `queries.txt`, never holds
  and `c_acctbal >= 5000` always does.  `IsMixed` leaves out the rows on which that is asked.

Seen on the way, without a run of their own:

* Without any signal main ends in a second walk through freed memory: `~SystemCatalog` deletes
  the map's nodes and buckets and then the map, whose destructor does it again.
  `FreedOnlyAtTheEnd` says that this is the only fault of a main that runs alone.
* On Windows the handler may exit while main has just truncated `catalog.bin`;
  `CatalogKept` is about POSIX.
* `g_catalog` is set before `loadFromDisk`: a SIGINT in between saves a fresh or half loaded catalog over the file, and the
  tables in it are gone (`loadedFirst` in `CatalogKept`, `early` in `GrowsByStarts`).
* Evictions and flushes write whichever page is in the frame; `flushAll` counts a page fault
  for each id that is not cached, and leaves the list in order of ids
  (`FlushForgetsRecency`).
* After an overflow behind a pinned page the cache stays too large
  (theorem `GrowthIsForGood`); the pager never pins, nothing else does either.
* Each start adds another copy of every table to the catalog; once the map has been
  rehashed, tables behind bucket 255 are lost by every save, also main's own at an ordinary end, and blank ones read
  in their place (`GrowsByStarts`, `crowded` in `CatalogKept`).
* `Page::deserialize` turns away a `usedBytes` that is too large and lets a negative one through to `fread`
  (`undefined` in `PageRows`); only a row too large for the margin can leave one in the file.
* A number with a minus sign is an operator without a left side: `a > -5` is evaluated as
  `nullptr > (a - 5)` and finds nothing.  NOT is dropped: `NOT x` is `x`.
  `x % 0` ends the process, and so does `x % 0.5` (`Trap`).
* No insert allocates a page: on a fresh file, where the count is 0, every insert fails; with one page
  each insert clears that page; with more, inserts fill the pages below the last and then clear the
  last one again and again (`RowsBelowLastStay` is what is left of durability).
* Loops over pages count from 0, where there is no page, to one below the count: the last page is not
  scanned.  A page's rows are read with the schema of whichever table is asked for, and behind them come rows
  without a field, which match a clause of `>=`, `<=` or `!=`.  `AnswerIsExact` says what a query finds among
  the rows it reads.
* The index is empty after every start and is not told when a page is cleared; a key it does not have ends the
  query without a scan.  It is taken on the first three tokens of a clause: in `c_custkey == 1 OR ...` one
  page is read.
* SELECT takes its fourth word as the table: `SELECT FROM customer WHERE ...`, as `queries.txt` has it, asks for a
  table `WHERE`.  `admin update` in lower case asks for a table `update`; a lower-case `where` is
  ignored and every row matches.
* `MST.cpp`, line 137: the walk never ends on a tree in which some table is joined to three others
  (`WalkEndsOnPaths`).  Line 100: the arrays have one place more than the tree has edges, too few for the ids of
  a graph in two parts; an edge of a table that was never added is looked up beyond the union-find
  (`InBounds`).  The graph of TPC-H, which `executeJoin` uses, has neither.

## 6. What is not modelled

* **Characters** within a name, a number or a string: lengths (127, 63 and 255 characters) and the loader's
  cutting of lines.  The loader calls `executeInsert` for each line, which is `Table`'s `Insert`.
* `Benchmark`, `MemTracker`, data generation, plots: no state of the engine.
* `printGraph`, `computeTotalCost`, table names and join conditions of the optimizer; `JoinExecutor` in `MST.cpp`,
  which repeats `executeJoin` and joins nothing.
* `SequentialScanner`, which searches the file for a key: changes nothing.
* `LRUCache::clear` and `HashMap::remove`: called by no one but a destructor, or by no one.
* Two threads in `Logger::getInstance`, a second SIGINT, a file that cannot be opened, allocation failures.
* What is finer than a page or a pointer: a page torn in the middle by a kill or a SIGINT, a list between two
  assignments of `moveToFront`, a row half copied.
* The locks of `malloc` and stdio: a handler that allocates, prints or writes to a file while main is inside these
  may wait for them as it does for the logger.  `SigintEndsOutsideLog` is about the logger's lock only.
* `evaluateArithmetic`: `evaluate` without the comparisons; no caller.
* The end of the stacks of 256 and the queue of 512 tokens: a clause has at most 255 characters.
* Pages that share a frame below `Table` and `Engine`: what a query then finds, in a database of more pages than frames, is
  bounded by `Confined` only.

## 7. The plan

Done: models and runs of all components listed; proofs for the cache, the pager with the store it implements,
rows in bytes and in slots, the table, the executor and what its queries find, the join optimizer, the queue, the indexes, the drivers, the catalog and
the process with its signal.

Next, in this order:

1. Pages torn by a kill or a SIGINT in the middle of their 4096 bytes, in `PageRows`.
2. `WalkEndsOnPaths` without fairness: the length of the path as a measure that every round of the walk raises.
