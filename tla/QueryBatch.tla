----------------------------- MODULE QueryBatch -----------------------------
(***************************************************************************)
(* The two programs that put the queries of queries.txt through the task   *)
(* queue: main (src/main.cpp), which reads up to MAX of them, enqueues     *)
(* them all and then takes one after the other out of the queue, and the   *)
(* test runner (tests/test_runner.cpp with QueryExecutor::execute), which  *)
(* puts each query into the queue and takes it out at once.                *)
(*                                                                         *)
(* A line of the file has a kind and a length, counted in units of what a  *)
(* QueryTask has room for (511 characters).  The runner reads into a       *)
(* buffer of one unit, main into one of two; fgets returns a longer line   *)
(* in pieces.  The queue is TaskQueue, which PriorityQueue implements.     *)
(***************************************************************************)
EXTENDS Integers, Sequences, FiniteSets

CONSTANTS
  Files,          \* the files there can be, sequences of Line
  MaxQueries,     \* 100, the queries that main reads
  QueueCapacity,  \* 1000 in main, 100 in the runner
  MaxTaskId,      \* bound on the ids of tasks
  NoTask          \* a null QueryTask*

\* "SHUTDOWN" is the line of just that word, "mention" a query it occurs in.
Kinds == {"empty", "comment", "query", "admin", "SHUTDOWN", "mention"}
Line == [kind : Kinds, length : 1 .. 3]
Drivers == {"main", "runner"}
Tasks == [priority : {0, 1}, taskId : 1 .. MaxTaskId]

ASSUME BatchAssumption ==
  /\ Files \subseteq Seq(Line)
  /\ MaxQueries \in Nat /\ MaxTaskId \in Nat
  /\ QueueCapacity \in Nat \ {0} /\ QueueCapacity >= MaxQueries
  /\ NoTask \notin Tasks

VARIABLES
  file,     \* queries.txt
  driver,   \* the program that runs
  at,       \* where it has read the file to
  queries,  \* the queries read: main's array, or those the runner has made tasks of
  phase,    \* what the program is doing
  enqueued, \* how many of the queries have been enqueued
  processed, \* main's count of the tasks it has taken out of the queue
  pending, count, result, lost,  \* the task queue
  ran       \* history: the queries that were executed, and the saves, in order

queue == << pending, count, result, lost >>
vars == << file, driver, at, queries, phase, enqueued, processed, queue, ran >>

Queue == INSTANCE TaskQueue WITH Capacity <- QueueCapacity

Init ==
  /\ file \in Files
  /\ driver \in Drivers
  /\ at = [line |-> 1, unit |-> 1]
  /\ queries = << >>
  /\ phase = "reading"
  /\ enqueued = 0
  /\ processed = 0
  /\ Queue!Init
  /\ ran = << >>

(***************************************************************************)
(* Reading.                                                                *)
(***************************************************************************)
BufferUnits == IF driver = "main" THEN 2 ELSE 1

AtEnd == at.line > Len(file)

\* What fgets returns: what is left of a long line is a query of some kind.
Piece ==
  [line |-> at.line, unit |-> at.unit,
   kind |-> IF at.unit = 1 THEN file[at.line].kind ELSE "query"]

NextPiece ==
  IF at.unit + BufferUnits <= file[at.line].length
  THEN [at EXCEPT !.unit = @ + BufferUnits] ELSE [line |-> at.line + 1, unit |-> 1]

\* Mutation: <= for <.
HasRoom_OffByOne == Len(queries) <= MaxQueries

\* The runner has no array to fill.
HasRoom == driver = "main" => Len(queries) < MaxQueries

\* Mutation: a line that is skipped is read again.
Skipped_Again == at

Skipped == NextPiece

\* A line that the program passes over.
Skip ==
  /\ phase = "reading"
  /\ ~ AtEnd /\ HasRoom
  /\ \/ Piece.kind = "empty"
     \/ Piece.kind = "comment" /\ driver = "runner"
  /\ at' = Skipped
  /\ UNCHANGED << file, driver, queries, phase, enqueued, processed, queue, ran >>

IsQuery(kind) ==
  kind \in IF driver = "main" THEN {"comment", "query", "admin", "mention"} ELSE {"query", "admin"}

\* main fills its array, the runner goes on with the task made of the query.
ReadQuery ==
  /\ phase = "reading"
  /\ ~ AtEnd /\ HasRoom
  /\ IsQuery(Piece.kind)
  /\ queries' = Append(queries, Piece)
  /\ at' = NextPiece
  /\ phase' = IF driver = "main" THEN "reading" ELSE "enqueuing"
  /\ UNCHANGED << file, driver, enqueued, processed, queue, ran >>

\* main's loop ends with the file, with SHUTDOWN, or with a line it has no room for.
ReadAll ==
  /\ phase = "reading"
  /\ \/ AtEnd
     \/ ~ AtEnd /\ ~ HasRoom
     \/ ~ AtEnd /\ driver = "main" /\ Piece.kind = "SHUTDOWN"
  /\ phase' = IF driver = "main" THEN "enqueuing" ELSE "done"
  /\ UNCHANGED << file, driver, at, queries, enqueued, processed, queue, ran >>

\* A SHUTDOWN in whatever letters and wherever in the line makes the runner flush
\* and save, and go on.
SaveAndGoOn ==
  /\ phase = "reading"
  /\ driver = "runner" /\ ~ AtEnd
  /\ Piece.kind \in {"SHUTDOWN", "mention"}
  /\ ran' = Append(ran, [event |-> "save", line |-> at.line])
  /\ at' = NextPiece
  /\ UNCHANGED << file, driver, queries, phase, enqueued, processed, queue >>

(***************************************************************************)
(* The queue.                                                              *)
(***************************************************************************)
\* Mutation: ADMIN is not looked for.
TaskOf_AllUsers(i) == [priority |-> 1, taskId |-> i]

\* The QueryTask of the ith query, which holds its first unit: main's taskId is
\* i + 1 for i from 0, the executor counts from 1.
TaskOf(i) == [priority |-> IF queries[i].kind = "admin" THEN 0 ELSE 1, taskId |-> i]

Enqueue ==
  /\ phase = "enqueuing"
  /\ enqueued < Len(queries)
  /\ Queue!Enqueue(TaskOf(enqueued + 1))
  /\ enqueued' = enqueued + 1
  /\ phase' = IF driver = "main" THEN phase ELSE "processing"
  /\ UNCHANGED << file, driver, at, queries, processed, ran >>

EnqueuedAll ==
  /\ phase = "enqueuing"
  /\ enqueued = Len(queries)
  /\ phase' = "processing"
  /\ UNCHANGED << file, driver, at, queries, enqueued, processed, queue, ran >>

\* main has taken out as many tasks as it has read queries.
Processed == processed = Len(queries)

\* dequeue and executeTask: the queries of today change nothing of the database,
\* so that a query that runs is no more than an event here.  The runner takes one
\* task for every one it has put in, main goes by its count.  A null pointer from
\* the queue would end main's loop and the runner's execute; see NothingLost.
Execute ==
  /\ phase = "processing"
  /\ driver = "main" => ~ Processed
  /\ IF pending = {}
     THEN /\ Queue!DequeueNothing
          /\ phase' = IF driver = "main" THEN "done" ELSE "reading"
          /\ UNCHANGED << processed, ran >>
     ELSE /\ Queue!Dequeue
          /\ LET q == queries[CHOOSE i \in 1 .. Len(queries) : TaskOf(i) = result']
             IN  ran' = Append(ran, [event |-> "run", line |-> q.line, unit |-> q.unit])
          /\ phase' = IF driver = "main" THEN phase ELSE "reading"
          /\ processed' = IF driver = "main" THEN processed + 1 ELSE processed
  /\ UNCHANGED << file, driver, at, queries, enqueued >>

ProcessedAll ==
  /\ phase = "processing"
  /\ driver = "main" /\ Processed
  /\ phase' = "done"
  /\ UNCHANGED << file, driver, at, queries, enqueued, processed, queue, ran >>

\* SIGINT: the handler exits and the queue is gone.
Interrupt ==
  /\ phase \notin {"done", "interrupted"}
  /\ phase' = "interrupted"
  /\ pending' = {} /\ count' = 0
  /\ UNCHANGED << file, driver, at, queries, enqueued, processed, result, lost, ran >>

Step ==
  \/ Skip
  \/ ReadQuery
  \/ ReadAll
  \/ SaveAndGoOn
  \/ Enqueue
  \/ EnqueuedAll
  \/ Execute
  \/ ProcessedAll

Next == Step \/ Interrupt

\* The program goes on by itself; SIGINT may never come.
Spec == Init /\ [][Next]_vars /\ WF_vars(Step)

(***************************************************************************)
(* Properties.                                                             *)
(***************************************************************************)
\* No task ever finds the queue full: main reads at most as many queries as the
\* queue has room for, and the runner has one in it at a time.  A task that did
\* would be dropped without a word, and main would stop at the null pointer that
\* the empty queue returns one query too early.
NothingLost == lost = {}

\* p is before q in the file.
Earlier(p, q) == p.line < q.line \/ (p.line = q.line /\ p.unit < q.unit)

\* The pieces that fgets makes of line i with a buffer of b units, and of the file.
PieceOf(i, u) ==
  [line |-> i, unit |-> u, kind |-> IF u = 1 THEN file[i].kind ELSE "query"]

PiecesOf(i, b) == {PieceOf(i, u) : u \in {v \in 1 .. file[i].length : (v - 1) % b = 0}}

AllPieces(b) == UNION {PiecesOf(i, b) : i \in 1 .. Len(file)}

RunOf(p) == [event |-> "run", line |-> p.line, unit |-> p.unit]

\* The lines that hold a query; a comment is none (test_runner.cpp:126), whatever
\* main makes of it.
QueryLines == {i \in DOMAIN file : file[i].kind \in {"query", "admin", "mention"}}

\* Query i has been executed as the kth event, for as much of it as a task holds.
Ran(k, i) == ran[k] = [event |-> "run", line |-> i, unit |-> 1]

BehindShutdown(i) == \E j \in 1 .. i : file[j].kind = "SHUTDOWN"

\* The array still has room for line i, in which comments take room too and a long
\* line takes as much as fgets makes pieces of it.
Fits(i) ==
  Cardinality({p \in AllPieces(2) : p.line < i /\ p.kind # "empty"}) < MaxQueries

\* The queries a driver is to have run in the end.  The runner saves at a query that
\* mentions SHUTDOWN.
Asked ==
  IF driver = "main" THEN {i \in QueryLines : ~ BehindShutdown(i) /\ Fits(i)}
  ELSE {i \in QueryLines : file[i].kind # "mention"}

\* Query j is to run before query i: an ADMIN query before all user queries
\* (queries.txt:57), and else in the order of the file.  For the runner the first
\* does not hold, and it is not asked for: its queries never wait for one another.
ToPrecede(j, i) ==
  IF (file[j].kind = "admin") # (file[i].kind = "admin")
  THEN driver = "main" /\ file[j].kind = "admin" ELSE j < i

\* Whenever it is looked at or interrupted, a program has executed no query twice,
\* none before one that is to precede it, and nothing behind SHUTDOWN in main; at
\* its end it has executed all queries it was asked to.
RunsInOrder ==
  /\ \A k, l \in DOMAIN ran : ran[k].event = "run" /\ ran[k] = ran[l] => k = l
  /\ \A k, l \in DOMAIN ran : \A i, j \in QueryLines :
       Ran(k, i) /\ Ran(l, j) /\ ToPrecede(j, i) => l < k
  /\ driver = "main" => \A k \in DOMAIN ran : ~ BehindShutdown(ran[k].line)
  /\ phase = "done" => \A i \in Asked : \E k \in DOMAIN ran : Ran(k, i)

\* A program that is not interrupted comes to the end of its file.
Ends == <>(phase \in {"done", "interrupted"})
=============================================================================
