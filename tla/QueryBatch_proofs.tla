------------------------- MODULE QueryBatch_proofs -------------------------
(***************************************************************************)
(* QueryBatch for every file, every number of queries main reads and every *)
(* queue that has room for them: no task is lost, the queue is never found *)
(* empty, and what was read is run, each query once, by main in the order  *)
(* of the queue.  Then what the lines of a file make of the queries: both  *)
(* programs execute what their file asks for, in order and to its end.     *)
(***************************************************************************)
EXTENDS QueryBatch, FiniteSetTheorems, TLAPS

Query == [line : Nat, unit : Nat, kind : Kinds]

Phases == {"reading", "enqueuing", "processing", "done", "interrupted"}

BatchTypeOK ==
  /\ file \in Seq(Line)
  /\ driver \in Drivers
  /\ at \in [line : Nat \ {0}, unit : Nat \ {0}]
  /\ queries \in Seq(Query)
  /\ phase \in Phases
  /\ enqueued \in 0 .. Len(queries)
  /\ processed \in Nat
  /\ ran \in Seq([event : {"save"}, line : Nat] \union [event : {"run"}, line : Nat, unit : Nat])

\* Every piece of the file is read at most once.
ReadAscending ==
  /\ \A i \in 1 .. Len(queries) : Earlier(queries[i], at)
  /\ \A i, j \in 1 .. Len(queries) : i < j => Earlier(queries[i], queries[j])

\* Only tasks made of the queries are in the queue, and count counts them.
QueueHolds ==
  /\ \A t \in pending : \E i \in 1 .. enqueued : t = TaskOf(i)
  /\ IsFiniteSet(pending)
  /\ count = Cardinality(pending)

\* main: as many tasks are in the queue as are enqueued and not taken out.
MainCounts ==
  driver = "main" =>
    /\ Len(queries) <= MaxQueries
    /\ phase = "reading" => enqueued = 0
    /\ phase \in {"processing", "done"} => enqueued = Len(queries)
    /\ phase # "interrupted" => processed + count = enqueued
    /\ phase = "done" => processed = Len(queries)

\* The runner: a task is in the queue only between execute's two calls of it.
RunnerCounts ==
  driver = "runner" =>
    /\ phase \in {"reading", "enqueuing", "done"} => count = 0
    /\ phase = "processing" => count = 1
    /\ phase = "enqueuing" => enqueued + 1 = Len(queries)
    /\ phase \in {"reading", "processing", "done"} => enqueued = Len(queries)

\* Entry k of the history is the run of query i.
IsRun(k, i) == ran[k] = RunOf(queries[i])

\* A query has run if its task has been in the queue and is not any more.
RanIsTakenOut ==
  /\ \A k \in DOMAIN ran : ran[k].event = "run" =>
       \E i \in 1 .. enqueued : TaskOf(i) \notin pending /\ IsRun(k, i)
  /\ phase # "interrupted" =>
       \A i \in 1 .. enqueued : TaskOf(i) \in pending \/ \E k \in DOMAIN ran : IsRun(k, i)

\* No query runs twice.
RunsOnce ==
  \A k, l \in DOMAIN ran : ran[k].event = "run" /\ ran[k] = ran[l] => k = l

\* What main has run is more urgent than what it runs later, and than what waits.
RunsMostUrgent ==
  driver = "main" =>
    /\ phase \in {"reading", "enqueuing"} => ran = << >>
    /\ \A k \in DOMAIN ran, i \in 1 .. Len(queries) :
         IsRun(k, i) => \A t \in pending : Queue!Before(TaskOf(i), t)
    /\ \A k, l \in DOMAIN ran : \A i, j \in 1 .. Len(queries) :
         k < l /\ IsRun(k, i) /\ IsRun(l, j) => Queue!Before(TaskOf(i), TaskOf(j))

IInv ==
  /\ BatchTypeOK
  /\ ReadAscending
  /\ QueueHolds
  /\ MainCounts
  /\ RunnerCounts
  /\ RanIsTakenOut
  /\ RunsOnce
  /\ RunsMostUrgent
  /\ NothingLost

(***************************************************************************)
(* Reading.                                                                *)
(***************************************************************************)
LEMMA EarlierIsTransitive ==
  ASSUME NEW p, NEW q, NEW r,
         p.line \in Nat, q.line \in Nat, r.line \in Nat,
         p.unit \in Nat, q.unit \in Nat, r.unit \in Nat,
         Earlier(p, q), Earlier(q, r)
  PROVE  Earlier(p, r)
  BY DEF Earlier

\* The place in the file moves on.
LEMMA NextPieceIsLater ==
  ASSUME BatchTypeOK, ~ AtEnd
  PROVE  /\ NextPiece \in [line : Nat \ {0}, unit : Nat \ {0}]
         /\ Earlier(at, NextPiece)
         /\ Piece \in Query /\ Piece.line = at.line /\ Piece.unit = at.unit
<1>1. at.line \in Nat \ {0} /\ at.unit \in Nat \ {0} /\ file[at.line] \in Line
  BY DEF BatchTypeOK, AtEnd
<1>2. [at EXCEPT !.unit = @ + BufferUnits] = [line |-> at.line, unit |-> at.unit + BufferUnits]
  BY DEF BatchTypeOK
<1>3. BufferUnits \in {1, 2}
  BY DEF BufferUnits
<1>4. \/ NextPiece = [line |-> at.line, unit |-> at.unit + BufferUnits]
      \/ NextPiece = [line |-> at.line + 1, unit |-> 1]
  BY <1>2 DEF NextPiece
<1>5. NextPiece \in [line : Nat \ {0}, unit : Nat \ {0}] /\ Earlier(at, NextPiece)
  BY <1>1, <1>3, <1>4 DEF Earlier
<1>6. Piece \in Query /\ Piece.line = at.line /\ Piece.unit = at.unit
  BY <1>1 DEF Piece, Query, Line, Kinds
<1> QED
  BY <1>5, <1>6

\* What was read so far is before the place the file is read to, and stays so.
LEMMA ReadStaysBefore ==
  ASSUME BatchTypeOK, ReadAscending, NEW next \in [line : Nat \ {0}, unit : Nat \ {0}],
         Earlier(at, next), NEW i \in 1 .. Len(queries)
  PROVE  Earlier(queries[i], next)
<1>1. queries[i] \in Query /\ Earlier(queries[i], at)
  BY DEF BatchTypeOK, ReadAscending
<1> QED
  BY <1>1, EarlierIsTransitive DEF BatchTypeOK, Query

\* Queries of different places are different, and so are their runs.
LEMMA RunIsOfOne ==
  ASSUME BatchTypeOK, ReadAscending,
         NEW i \in 1 .. Len(queries), NEW j \in 1 .. Len(queries),
         RunOf(queries[i]) = RunOf(queries[j])
  PROVE  i = j
<1>1. queries[i] \in Query /\ queries[j] \in Query
  BY DEF BatchTypeOK
<1>2. queries[i].line = queries[j].line /\ queries[i].unit = queries[j].unit
  BY DEF RunOf
<1>3. ~ (i < j) /\ ~ (j < i)
  BY <1>1, <1>2 DEF ReadAscending, Earlier, Query
<1> QED
  BY <1>3

LEMMA InitOK ==
  ASSUME Init
  PROVE  IInv
<1>1. pending = {} /\ count = 0 /\ lost = {}
  BY DEF Init, Queue!Init
<1>2. IsFiniteSet(pending) /\ Cardinality(pending) = 0
  BY <1>1, FS_EmptySet
<1> USE DEF Init
<1>3. BatchTypeOK
  BY BatchAssumption DEF BatchTypeOK, Phases
<1>4. ReadAscending /\ QueueHolds /\ MainCounts /\ RunnerCounts /\ NothingLost
  BY <1>1, <1>2, BatchAssumption DEF ReadAscending, QueueHolds, MainCounts, RunnerCounts, NothingLost
<1>5. RanIsTakenOut /\ RunsOnce /\ RunsMostUrgent
  BY <1>1 DEF RanIsTakenOut, RunsOnce, RunsMostUrgent
<1> QED
  BY <1>3, <1>4, <1>5 DEF IInv

LEMMA SkipKeeps ==
  ASSUME IInv, Skip
  PROVE  IInv'
<1> USE DEF Skip, queue
<1>1. at' \in [line : Nat \ {0}, unit : Nat \ {0}] /\ Earlier(at, at')
  BY NextPieceIsLater DEF IInv, Skipped
<1>2. BatchTypeOK'
  BY <1>1 DEF IInv, BatchTypeOK
<1>3. ReadAscending'
  <2>1. \A i \in 1 .. Len(queries) : Earlier(queries[i], at')
    BY <1>1, ReadStaysBefore DEF IInv
  <2> QED
    BY <2>1 DEF IInv, ReadAscending, Earlier
<1>4. QueueHolds' /\ MainCounts' /\ RunnerCounts' /\ NothingLost'
  BY DEF IInv, QueueHolds, MainCounts, RunnerCounts, NothingLost, TaskOf
<1>5. RanIsTakenOut' /\ RunsOnce' /\ RunsMostUrgent'
  BY DEF IInv, RanIsTakenOut, RunsOnce, RunsMostUrgent, IsRun, TaskOf
<1> QED
  BY <1>2, <1>3, <1>4, <1>5 DEF IInv

LEMMA ReadQueryKeeps ==
  ASSUME IInv, ReadQuery
  PROVE  IInv'
<1> DEFINE n == Len(queries)
<1>1. /\ phase = "reading"
      /\ at' = NextPiece /\ queries' = Append(queries, Piece)
      /\ UNCHANGED << file, driver, enqueued, processed, pending, count, result, lost, ran >>
      /\ HasRoom /\ ~ AtEnd
  BY DEF ReadQuery, queue
<1>2. at' \in [line : Nat \ {0}, unit : Nat \ {0}] /\ Earlier(at, at')
  BY <1>1, NextPieceIsLater DEF IInv
<1>3. Piece \in Query /\ Piece.line = at.line /\ Piece.unit = at.unit
  BY <1>1, NextPieceIsLater DEF IInv
<1>4. /\ queries' \in Seq(Query) /\ Len(queries') = n + 1
      /\ \A i \in 1 .. n : queries'[i] = queries[i]
      /\ queries'[n + 1] = Piece
      /\ n \in Nat /\ queries \in Seq(Query)
  BY <1>1, <1>3 DEF IInv, BatchTypeOK
<1>5. BatchTypeOK'
  BY <1>1, <1>2, <1>4 DEF IInv, BatchTypeOK, ReadQuery, Phases
<1>6. ReadAscending'
  <2>1. ASSUME NEW i \in 1 .. n + 1
        PROVE  Earlier(queries'[i], at')
    <3>1. CASE i = n + 1
      BY <1>2, <1>3, <1>4, <3>1 DEF Earlier
    <3>2. CASE i # n + 1
      BY <1>2, <1>4, <3>2, ReadStaysBefore DEF IInv
    <3> QED
      BY <3>1, <3>2
  <2>2. ASSUME NEW i \in 1 .. n + 1, NEW j \in 1 .. n + 1, i < j
        PROVE  Earlier(queries'[i], queries'[j])
    <3>1. CASE j = n + 1
      BY <1>3, <1>4, <2>2, <3>1 DEF IInv, ReadAscending, Earlier
    <3>2. CASE j # n + 1
      BY <1>4, <2>2, <3>2 DEF IInv, ReadAscending
    <3> QED
      BY <3>1, <3>2
  <2> QED
    BY <1>4, <2>1, <2>2 DEF ReadAscending, Earlier
<1>7. \A i \in 1 .. n : TaskOf(i)' = TaskOf(i)
  BY <1>4 DEF TaskOf
<1>8. QueueHolds'
  BY <1>1, <1>4, <1>7 DEF IInv, BatchTypeOK, QueueHolds
<1>9. MainCounts'
  BY <1>1, <1>4, BatchAssumption DEF IInv, MainCounts, HasRoom, ReadQuery
<1>10. RunnerCounts'
  BY <1>1, <1>4 DEF IInv, RunnerCounts, ReadQuery
<1>11. RanIsTakenOut'
  <2>1. enqueued \in 0 .. n /\ enqueued' = enqueued
    BY <1>1 DEF IInv, BatchTypeOK
  <2>2. \A i \in 1 .. enqueued : TaskOf(i)' = TaskOf(i) /\ queries'[i] = queries[i]
    BY <1>4, <1>7, <2>1
  <2> QED
    BY <1>1, <2>1, <2>2 DEF IInv, RanIsTakenOut, IsRun, ReadQuery
<1>12. RunsOnce' /\ NothingLost'
  BY <1>1 DEF IInv, RunsOnce, NothingLost
<1>13. RunsMostUrgent'
  BY <1>1 DEF IInv, RunsMostUrgent
<1> QED
  BY <1>5, <1>6, <1>8, <1>9, <1>10, <1>11, <1>12, <1>13 DEF IInv

\* A save is no run.
LEMMA SaveAndGoOnKeeps ==
  ASSUME IInv, SaveAndGoOn
  PROVE  IInv'
<1> DEFINE e == [event |-> "save", line |-> at.line]
<1>1. /\ phase = "reading" /\ driver = "runner"
      /\ at' = NextPiece /\ ran' = Append(ran, e)
      /\ UNCHANGED << file, driver, queries, phase, enqueued, processed, pending, count, result, lost >>
      /\ ~ AtEnd
  BY DEF SaveAndGoOn, queue
<1>2. at' \in [line : Nat \ {0}, unit : Nat \ {0}] /\ Earlier(at, at')
  BY <1>1, NextPieceIsLater DEF IInv
<1>3. e \in [event : {"save"}, line : Nat] /\ e.event # "run"
  BY DEF IInv, BatchTypeOK
<1>4. BatchTypeOK'
  BY <1>1, <1>2, <1>3 DEF IInv, BatchTypeOK
<1>5. ReadAscending'
  <2>1. \A i \in 1 .. Len(queries) : Earlier(queries[i], at')
    BY <1>2, ReadStaysBefore DEF IInv
  <2> QED
    BY <1>1, <2>1 DEF IInv, ReadAscending, Earlier
<1>6. QueueHolds' /\ MainCounts' /\ RunnerCounts' /\ NothingLost'
  BY <1>1 DEF IInv, QueueHolds, MainCounts, RunnerCounts, NothingLost, TaskOf
<1>7. /\ DOMAIN ran' = DOMAIN ran \union {Len(ran) + 1}
      /\ \A k \in DOMAIN ran : ran'[k] = ran[k]
      /\ ran'[Len(ran) + 1].event # "run"
  <2> HIDE DEF e
  <2> QED
    BY <1>1, <1>3 DEF IInv, BatchTypeOK
<1>8. RanIsTakenOut' /\ RunsOnce'
  BY <1>1, <1>7 DEF IInv, RanIsTakenOut, RunsOnce, IsRun, TaskOf
<1>9. RunsMostUrgent'
  BY <1>1 DEF RunsMostUrgent
<1> QED
  BY <1>4, <1>5, <1>6, <1>8, <1>9 DEF IInv

\* The steps of the program that change nothing but its phase.
LEMMA PhaseKeeps ==
  ASSUME IInv, ReadAll \/ EnqueuedAll \/ ProcessedAll
  PROVE  IInv'
<1> USE DEF ReadAll, EnqueuedAll, ProcessedAll, queue
<1>1. UNCHANGED << file, driver, at, queries, enqueued, processed, pending, count, lost, ran >>
  OBVIOUS
<1>2. BatchTypeOK'
  BY DEF IInv, BatchTypeOK, Phases
<1>3. ReadAscending' /\ QueueHolds' /\ RunsOnce' /\ NothingLost'
  BY <1>1 DEF IInv, ReadAscending, QueueHolds, RunsOnce, NothingLost, TaskOf
<1>4. MainCounts' /\ RunnerCounts'
  BY DEF IInv, BatchTypeOK, MainCounts, RunnerCounts, Drivers, Processed
<1>5. RanIsTakenOut'
  BY DEF IInv, RanIsTakenOut, IsRun, TaskOf
<1>6. RunsMostUrgent'
  BY DEF IInv, RunsMostUrgent, IsRun, TaskOf
<1> QED
  BY <1>2, <1>3, <1>4, <1>5, <1>6 DEF IInv

(***************************************************************************)
(* The queue.                                                              *)
(***************************************************************************)
\* The queue has room for the task: main has read no more queries than it has
\* room for, the runner finds it empty.
LEMMA QueueHasRoom ==
  ASSUME IInv, Enqueue
  PROVE  count < QueueCapacity
<1>1. count \in Nat
  BY FS_CardinalityType DEF IInv, QueueHolds
<1>2. CASE driver = "main"
  BY <1>1, <1>2, BatchAssumption DEF IInv, BatchTypeOK, MainCounts, Enqueue
<1>3. CASE driver = "runner"
  BY <1>3, BatchAssumption DEF IInv, RunnerCounts, Enqueue
<1> QED
  BY <1>2, <1>3 DEF IInv, BatchTypeOK, Drivers

LEMMA EnqueueKeeps ==
  ASSUME IInv, Enqueue
  PROVE  IInv'
<1> DEFINE t == TaskOf(enqueued + 1)
<1>1. /\ phase = "enqueuing" /\ enqueued < Len(queries)
      /\ enqueued' = enqueued + 1
      /\ phase' = IF driver = "main" THEN phase ELSE "processing"
      /\ UNCHANGED << file, driver, at, queries, processed, ran >>
  BY DEF Enqueue
<1>2. /\ t \notin pending
      /\ pending' = pending \union {t} /\ count' = count + 1
      /\ lost' = lost
  BY QueueHasRoom DEF Enqueue, Queue!Enqueue
<1>3. BatchTypeOK'
  BY <1>1 DEF IInv, BatchTypeOK, Phases
<1>4. \A i : TaskOf(i)' = TaskOf(i)
  BY <1>1 DEF TaskOf
<1>5. ReadAscending' /\ RunsOnce' /\ NothingLost'
  BY <1>1, <1>2 DEF IInv, ReadAscending, RunsOnce, NothingLost
<1>6. QueueHolds'
  <2>1. IsFiniteSet(pending') /\ Cardinality(pending') = Cardinality(pending) + 1
    BY <1>2, FS_AddElement DEF IInv, QueueHolds
  <2>2. \A u \in pending' : \E i \in 1 .. enqueued' : u = TaskOf(i)
    BY <1>1, <1>2 DEF IInv, BatchTypeOK, QueueHolds
  <2> QED
    BY <1>2, <1>4, <2>1, <2>2 DEF IInv, QueueHolds
<1>7. MainCounts'
  <2>1. count \in Nat
    BY FS_CardinalityType DEF IInv, QueueHolds
  <2> QED
    BY <1>1, <1>2, <2>1 DEF IInv, BatchTypeOK, MainCounts
<1>8. RunnerCounts'
  BY <1>1, <1>2 DEF IInv, BatchTypeOK, RunnerCounts
<1>9. RanIsTakenOut'
  <2>1. ASSUME NEW k \in DOMAIN ran, ran[k].event = "run"
        PROVE  \E i \in 1 .. enqueued' : TaskOf(i) \notin pending' /\ IsRun(k, i)
    <3>1. PICK i \in 1 .. enqueued : TaskOf(i) \notin pending /\ IsRun(k, i)
      BY <2>1 DEF IInv, RanIsTakenOut
    <3>2. TaskOf(i) # t
      BY DEF TaskOf, IInv, BatchTypeOK
    <3> QED
      BY <1>1, <1>2, <3>1, <3>2 DEF IInv, BatchTypeOK
  <2>2. ASSUME NEW i \in 1 .. enqueued'
        PROVE  TaskOf(i) \in pending' \/ \E k \in DOMAIN ran : IsRun(k, i)
    BY <1>1, <1>2 DEF IInv, BatchTypeOK, RanIsTakenOut
  <2> QED
    BY <1>1, <1>4, <2>1, <2>2 DEF RanIsTakenOut, IsRun
<1>10. RunsMostUrgent'
  BY <1>1 DEF IInv, RunsMostUrgent
<1> QED
  BY <1>3, <1>5, <1>6, <1>7, <1>8, <1>9, <1>10 DEF IInv

\* The queue is never found empty: the null pointer that would end main's loop
\* before its count does, and the runner's execute without a run, never comes.
LEMMA QueueIsNotEmpty ==
  ASSUME IInv, phase = "processing", driver = "main" => ~ Processed
  PROVE  pending # {}
<1>1. count # 0
  <2>1. CASE driver = "main"
    BY <2>1 DEF IInv, BatchTypeOK, MainCounts, Processed
  <2>2. CASE driver = "runner"
    BY <2>2 DEF IInv, RunnerCounts
  <2> QED
    BY <2>1, <2>2 DEF IInv, BatchTypeOK, Drivers
<1> QED
  BY <1>1, FS_EmptySet DEF IInv, QueueHolds

\* What Execute does: it takes the most urgent task t out of the queue and runs
\* the query i that t was made of.
LEMMA ExecuteRunsOne ==
  ASSUME IInv, Execute
  PROVE  \E i \in 1 .. enqueued :
           /\ TaskOf(i) \in pending
           /\ \A u \in pending : ~ Queue!Before(u, TaskOf(i))
           /\ pending' = pending \ {TaskOf(i)} /\ count' = count - 1
           /\ ran' = Append(ran, RunOf(queries[i]))
           /\ phase' = IF driver = "main" THEN phase ELSE "reading"
           /\ processed' = IF driver = "main" THEN processed + 1 ELSE processed
           /\ UNCHANGED << file, driver, at, queries, enqueued, lost >>
<1>1. pending # {}
  BY QueueIsNotEmpty DEF Execute
<1>2. /\ Queue!Dequeue
      /\ ran' = Append(ran, RunOf(queries[CHOOSE i \in 1 .. Len(queries) : TaskOf(i) = result']))
      /\ phase' = IF driver = "main" THEN phase ELSE "reading"
      /\ processed' = IF driver = "main" THEN processed + 1 ELSE processed
      /\ UNCHANGED << file, driver, at, queries, enqueued >>
  BY <1>1 DEF Execute, RunOf
<1>3. PICK t \in pending :
        /\ \A u \in pending : ~ Queue!Before(u, t)
        /\ pending' = pending \ {t} /\ count' = count - 1
        /\ result' = t /\ lost' = lost
  BY <1>2 DEF Queue!Dequeue
<1>4. PICK i \in 1 .. enqueued : t = TaskOf(i)
  BY DEF IInv, QueueHolds
<1>5. i \in 1 .. Len(queries)
  BY DEF IInv, BatchTypeOK
<1>6. \A j \in 1 .. Len(queries) : TaskOf(j) = t <=> j = i
  BY <1>4, <1>5 DEF TaskOf
<1>7. (CHOOSE j \in 1 .. Len(queries) : TaskOf(j) = result') = i
  BY <1>3, <1>5, <1>6
<1> QED
  BY <1>2, <1>3, <1>4, <1>7

LEMMA ExecuteKeeps ==
  ASSUME IInv, Execute
  PROVE  IInv'
<1>1. phase = "processing" /\ (driver = "main" => ~ Processed)
  BY DEF Execute
<1>2. PICK i \in 1 .. enqueued :
        /\ TaskOf(i) \in pending
        /\ \A u \in pending : ~ Queue!Before(u, TaskOf(i))
        /\ pending' = pending \ {TaskOf(i)} /\ count' = count - 1
        /\ ran' = Append(ran, RunOf(queries[i]))
        /\ phase' = IF driver = "main" THEN phase ELSE "reading"
        /\ processed' = IF driver = "main" THEN processed + 1 ELSE processed
        /\ UNCHANGED << file, driver, at, queries, enqueued, lost >>
  BY ExecuteRunsOne
<1> DEFINE n == Len(ran) + 1
<1>3. /\ i \in 1 .. Len(queries) /\ queries[i] \in Query
      /\ \A j \in 1 .. enqueued : j \in 1 .. Len(queries)
      /\ \A j : TaskOf(j)' = TaskOf(j)
  BY <1>2 DEF IInv, BatchTypeOK, TaskOf
<1>4. RunOf(queries[i]) \in [event : {"run"}, line : Nat, unit : Nat]
  BY <1>3 DEF RunOf, Query
<1>5. /\ DOMAIN ran' = DOMAIN ran \union {n} /\ n \notin DOMAIN ran
      /\ \A k \in DOMAIN ran : ran'[k] = ran[k] /\ k < n
      /\ ran'[n] = RunOf(queries[i])
      /\ DOMAIN ran \subseteq Nat /\ n \in Nat
  BY <1>2, <1>4, SMTT(30) DEF IInv, BatchTypeOK
<1>6. \A j \in 1 .. Len(queries) : RunOf(queries[j]) = RunOf(queries[i]) => j = i
  BY <1>3, RunIsOfOne DEF IInv
\* Query i has not run before: it was in the queue.
<1>7. \A k \in DOMAIN ran : ran[k] # RunOf(queries[i])
  <2>1. SUFFICES ASSUME NEW k \in DOMAIN ran, ran[k] = RunOf(queries[i])
                 PROVE  FALSE
    OBVIOUS
  <2>2. ran[k].event = "run"
    BY <2>1 DEF RunOf
  <2>3. PICK j \in 1 .. enqueued : TaskOf(j) \notin pending /\ IsRun(k, j)
    BY <2>2 DEF IInv, RanIsTakenOut
  <2>4. j = i
    BY <1>3, <1>6, <2>1, <2>3 DEF IsRun
  <2> QED
    BY <1>2, <2>3, <2>4
<1>8. BatchTypeOK'
  <2>1. ran' \in Seq([event : {"save"}, line : Nat] \union [event : {"run"}, line : Nat, unit : Nat])
    BY <1>2, <1>4 DEF IInv, BatchTypeOK
  <2> QED
    BY <1>2, <2>1 DEF IInv, BatchTypeOK, Phases
<1>9. ReadAscending' /\ NothingLost'
  BY <1>2 DEF IInv, ReadAscending, NothingLost
<1>10. QueueHolds'
  <2>1. IsFiniteSet(pending') /\ Cardinality(pending') = Cardinality(pending) - 1
    BY <1>2, FS_RemoveElement DEF IInv, QueueHolds
  <2> QED
    BY <1>2, <1>3, <2>1 DEF IInv, QueueHolds
<1>11. MainCounts' /\ RunnerCounts'
  <2>1. count \in Nat
    BY FS_CardinalityType DEF IInv, QueueHolds
  <2>2. CASE driver = "main"
    BY <1>1, <1>2, <2>1, <2>2 DEF IInv, BatchTypeOK, MainCounts, RunnerCounts
  <2>3. CASE driver = "runner"
    BY <1>1, <1>2, <2>1, <2>3 DEF IInv, BatchTypeOK, MainCounts, RunnerCounts
  <2> QED
    BY <2>2, <2>3 DEF IInv, BatchTypeOK, Drivers
<1>12. RanIsTakenOut'
  <2>1. ASSUME NEW k \in DOMAIN ran', ran'[k].event = "run"
        PROVE  \E j \in 1 .. enqueued : TaskOf(j) \notin pending' /\ ran'[k] = RunOf(queries[j])
    <3>1. CASE k = n
      BY <1>2, <1>5, <3>1
    <3>2. CASE k \in DOMAIN ran
      BY <1>2, <1>5, <2>1, <3>2 DEF IInv, RanIsTakenOut, IsRun
    <3> QED
      BY <1>5, <3>1, <3>2
  <2>2. ASSUME NEW j \in 1 .. enqueued
        PROVE  TaskOf(j) \in pending' \/ \E k \in DOMAIN ran' : ran'[k] = RunOf(queries[j])
    <3>1. CASE TaskOf(j) = TaskOf(i)
      BY <1>5, <3>1 DEF TaskOf
    <3>2. CASE TaskOf(j) # TaskOf(i)
      BY <1>1, <1>2, <1>5, <3>2 DEF IInv, RanIsTakenOut, IsRun
    <3> QED
      BY <3>1, <3>2
  <2> QED
    BY <1>2, <1>3, <2>1, <2>2 DEF RanIsTakenOut, IsRun, RunOf
<1>13. RunsOnce'
  BY <1>5, <1>7 DEF IInv, RunsOnce
<1>14. RunsMostUrgent'
  <2>1. SUFFICES ASSUME driver = "main"
                 PROVE  RunsMostUrgent'
    BY <1>2 DEF RunsMostUrgent
  <2>2. phase' = "processing"
    BY <1>1, <1>2, <2>1
  \* Two tasks are never equally urgent.
  <2>3. \A u \in pending : u # TaskOf(i) => Queue!Before(TaskOf(i), u)
    <3>1. SUFFICES ASSUME NEW u \in pending, u # TaskOf(i)
                   PROVE  Queue!Before(TaskOf(i), u)
      OBVIOUS
    <3>2. PICK j \in 1 .. enqueued : u = TaskOf(j)
      BY DEF IInv, QueueHolds
    <3>3. ~ Queue!Before(u, TaskOf(i))
      BY <1>2
    <3> QED
      BY <3>1, <3>2, <3>3 DEF TaskOf, Queue!Before, IInv, BatchTypeOK
  <2>4. ASSUME NEW k \in DOMAIN ran', NEW j \in 1 .. Len(queries), ran'[k] = RunOf(queries[j]),
               NEW u \in pending'
        PROVE  Queue!Before(TaskOf(j), u)
    <3>1. CASE k = n
      BY <1>2, <1>5, <1>6, <2>3, <2>4, <3>1
    <3>2. CASE k \in DOMAIN ran
      BY <1>2, <1>5, <2>1, <2>4, <3>2 DEF IInv, RunsMostUrgent, IsRun
    <3> QED
      BY <1>5, <3>1, <3>2
  <2>5. ASSUME NEW k \in DOMAIN ran', NEW l \in DOMAIN ran', k < l,
               NEW j \in 1 .. Len(queries), NEW m \in 1 .. Len(queries),
               ran'[k] = RunOf(queries[j]), ran'[l] = RunOf(queries[m])
        PROVE  Queue!Before(TaskOf(j), TaskOf(m))
    <3>1. k \in DOMAIN ran /\ ran[k] = RunOf(queries[j])
      BY <1>5, <2>5
    <3>2. CASE l = n
      <4>1. m = i
        BY <1>5, <1>6, <2>5, <3>2
      <4> QED
        BY <1>2, <2>1, <3>1, <4>1 DEF IInv, RunsMostUrgent, IsRun
    <3>3. CASE l \in DOMAIN ran
      BY <1>5, <2>1, <2>5, <3>1, <3>3 DEF IInv, RunsMostUrgent, IsRun
    <3> QED
      BY <1>5, <3>2, <3>3
  <2>6. /\ Len(queries') = Len(queries)
        /\ \A k, j : IsRun(k, j)' <=> ran'[k] = RunOf(queries[j])
    BY <1>2 DEF IsRun, RunOf
  <2>7. \A k \in DOMAIN ran', j \in 1 .. Len(queries') :
          IsRun(k, j)' => \A u \in pending' : Queue!Before(TaskOf(j)', u)
    BY <1>3, <2>4, <2>6
  <2>8. \A k, l \in DOMAIN ran' : \A j, m \in 1 .. Len(queries') :
          k < l /\ IsRun(k, j)' /\ IsRun(l, m)' => Queue!Before(TaskOf(j)', TaskOf(m)')
    BY <1>3, <2>5, <2>6
  <2> QED
    BY <2>2, <2>7, <2>8 DEF RunsMostUrgent, Queue!Before
<1> QED
  BY <1>8, <1>9, <1>10, <1>11, <1>12, <1>13, <1>14 DEF IInv

LEMMA InterruptKeeps ==
  ASSUME IInv, Interrupt
  PROVE  IInv'
<1>1. /\ phase' = "interrupted" /\ pending' = {} /\ count' = 0
      /\ UNCHANGED << file, driver, at, queries, enqueued, processed, result, lost, ran >>
  BY DEF Interrupt
<1>2. BatchTypeOK' /\ ReadAscending' /\ RunsOnce' /\ NothingLost'
  BY <1>1 DEF IInv, BatchTypeOK, ReadAscending, RunsOnce, NothingLost, Phases
<1>3. QueueHolds'
  BY <1>1, FS_EmptySet DEF QueueHolds
<1>4. MainCounts' /\ RunnerCounts' /\ RunsMostUrgent'
  BY <1>1 DEF IInv, MainCounts, RunnerCounts, RunsMostUrgent, IsRun, TaskOf
<1>5. RanIsTakenOut'
  BY <1>1 DEF IInv, RanIsTakenOut, IsRun, TaskOf
<1> QED
  BY <1>2, <1>3, <1>4, <1>5 DEF IInv

LEMMA StutterKeeps ==
  ASSUME IInv, UNCHANGED vars
  PROVE  IInv'
<1> USE DEF vars, queue
<1>1. BatchTypeOK' /\ ReadAscending' /\ QueueHolds' /\ RunsOnce' /\ NothingLost'
  BY DEF IInv, BatchTypeOK, ReadAscending, QueueHolds, RunsOnce, NothingLost, TaskOf
<1>2. MainCounts' /\ RunnerCounts' /\ RanIsTakenOut' /\ RunsMostUrgent'
  BY DEF IInv, MainCounts, RunnerCounts, RanIsTakenOut, RunsMostUrgent, IsRun, TaskOf
<1> QED
  BY <1>1, <1>2 DEF IInv

(***************************************************************************)
(* Theorems.                                                               *)
(***************************************************************************)
\* The counts of the two programs, what is in the queue and what has run agree
\* at every moment (main.cpp:198-275, QueryExecutor::execute).
THEOREM Invariance == Spec => []IInv
<1>1. Init => IInv
  BY InitOK
<1>2. IInv /\ [Next]_vars => IInv'
  <2> SUFFICES ASSUME IInv, [Next]_vars
               PROVE  IInv'
    OBVIOUS
  <2>1. CASE Skip
    BY <2>1, SkipKeeps
  <2>2. CASE ReadQuery
    BY <2>2, ReadQueryKeeps
  <2>3. CASE ReadAll \/ EnqueuedAll \/ ProcessedAll
    BY <2>3, PhaseKeeps
  <2>4. CASE SaveAndGoOn
    BY <2>4, SaveAndGoOnKeeps
  <2>5. CASE Enqueue
    BY <2>5, EnqueueKeeps
  <2>6. CASE Execute
    BY <2>6, ExecuteKeeps
  <2>7. CASE Interrupt
    BY <2>7, InterruptKeeps
  <2>8. CASE UNCHANGED vars
    BY <2>8, StutterKeeps
  <2> QED
    BY <2>1, <2>2, <2>3, <2>4, <2>5, <2>6, <2>7, <2>8 DEF Next, Step
<1> QED
  BY <1>1, <1>2, PTL DEF Spec

\* No task finds the queue full and is dropped without a word.
THEOREM QueueTakesEveryTask == Spec => []NothingLost
<1>1. IInv => NothingLost
  BY DEF IInv
<1> QED
  BY <1>1, Invariance, PTL

\* The queue is never found empty while main's count, or the one call of execute,
\* asks for a task: main's loop never breaks off with queries left.
NullNever == phase = "processing" /\ (driver = "main" => ~ Processed) => pending # {}

THEOREM QueueGivesEveryTask == Spec => []NullNever
<1>1. IInv => NullNever
  BY QueueIsNotEmpty DEF NullNever
<1> QED
  BY <1>1, Invariance, PTL

\* A program that is done has run every query it has read, and none twice; at no
\* moment has it run anything else.
EveryQueryOnce ==
  /\ \A k, l \in DOMAIN ran : ran[k].event = "run" /\ ran[k] = ran[l] => k = l
  /\ \A k \in DOMAIN ran : ran[k].event = "run" => \E i \in 1 .. Len(queries) : IsRun(k, i)
  /\ phase = "done" => \A i \in 1 .. Len(queries) : \E k \in DOMAIN ran : IsRun(k, i)

THEOREM RunsEveryQueryOnce == Spec => []EveryQueryOnce
<1>1. ASSUME IInv
      PROVE  EveryQueryOnce
  <2>1. \A i \in 1 .. enqueued : i \in 1 .. Len(queries)
    BY <1>1 DEF IInv, BatchTypeOK
  <2>2. phase = "done" => enqueued = Len(queries) /\ pending = {}
    <3>1. SUFFICES ASSUME phase = "done"
                   PROVE  enqueued = Len(queries) /\ count = 0
      BY <1>1, FS_EmptySet DEF IInv, QueueHolds
    <3>2. count \in Nat
      BY <1>1, FS_CardinalityType DEF IInv, QueueHolds
    <3>3. CASE driver = "main"
      BY <1>1, <3>1, <3>2, <3>3 DEF IInv, BatchTypeOK, MainCounts
    <3>4. CASE driver = "runner"
      BY <1>1, <3>1, <3>4 DEF IInv, RunnerCounts
    <3> QED
      BY <1>1, <3>3, <3>4 DEF IInv, BatchTypeOK, Drivers
  <2>3. phase = "done" => \A i \in 1 .. Len(queries) : \E k \in DOMAIN ran : IsRun(k, i)
    BY <1>1, <2>2 DEF IInv, RanIsTakenOut
  <2> QED
    BY <1>1, <2>1, <2>3 DEF IInv, EveryQueryOnce, RunsOnce, RanIsTakenOut
<1> QED
  BY <1>1, Invariance, PTL

\* What main runs later is never more urgent than what it ran before: the
\* administrators' queries come first, and each kind in the order it was read.
InQueueOrder ==
  driver = "main" =>
    \A k, l \in DOMAIN ran : \A i, j \in 1 .. Len(queries) :
      k < l /\ IsRun(k, i) /\ IsRun(l, j) =>
        \/ queries[i].kind = "admin" /\ queries[j].kind # "admin"
        \/ (queries[i].kind = "admin" <=> queries[j].kind = "admin") /\ i < j

THEOREM MainRunsInQueueOrder == Spec => []InQueueOrder
<1>1. ASSUME IInv
      PROVE  InQueueOrder
  <2>1. ASSUME NEW i \in 1 .. Len(queries), NEW j \in 1 .. Len(queries),
               Queue!Before(TaskOf(i), TaskOf(j))
        PROVE  \/ queries[i].kind = "admin" /\ queries[j].kind # "admin"
               \/ (queries[i].kind = "admin" <=> queries[j].kind = "admin") /\ i < j
    BY <2>1 DEF Queue!Before, TaskOf
  <2> QED
    BY <1>1, <2>1 DEF IInv, RunsMostUrgent, InQueueOrder
<1> QED
  BY <1>1, Invariance, PTL

(***************************************************************************)
(* What the file makes of the queries.                                     *)
(***************************************************************************)
\* What main executes: of the pieces before the first SHUTDOWN the first
\* MaxQueries that are not empty.
Batch ==
  {p \in AllPieces(2) :
     p.kind # "empty" /\ \A q \in AllPieces(2) : q.kind = "SHUTDOWN" => Earlier(p, q)}

ExpectedOfMain == {p \in Batch : Cardinality({q \in Batch : Earlier(q, p)}) < MaxQueries}

\* What the runner does something for: every piece that is not empty or a comment.
ExpectedOfRunner == {p \in AllPieces(1) : p.kind \notin {"empty", "comment"}}

Expected == IF driver = "main" THEN ExpectedOfMain ELSE ExpectedOfRunner

\* q comes before p: in main administrators first, else as they are in the file.
ComesBefore(q, p) ==
  IF driver = "main" /\ (q.kind = "admin") # (p.kind = "admin")
  THEN q.kind = "admin" ELSE Earlier(q, p)

EventOf(p) ==
  IF driver = "runner" /\ p.kind \in {"SHUTDOWN", "mention"}
  THEN [event |-> "save", line |-> p.line] ELSE RunOf(p)

EventsOf(pieces) == {EventOf(p) : p \in pieces}

\* Every event is that of a piece, and those that come before it have all happened.
InTurn ==
  \A k \in DOMAIN ran : \E p \in Expected :
    /\ ran[k] = EventOf(p)
    /\ {ran[l] : l \in 1 .. k - 1} = EventsOf({q \in Expected : ComesBefore(q, p)})

Pieces == AllPieces(BufferUnits)

\* The place in the file is that of a piece, or the end.
AtPlace ==
  IF AtEnd THEN at.line = Len(file) + 1 /\ at.unit = 1
  ELSE at.unit <= file[at.line].length /\ (at.unit - 1) % BufferUnits = 0

LEMMA LinesAre ==
  ASSUME BatchTypeOK
  PROVE  /\ Len(file) \in Nat /\ BufferUnits \in {1, 2}
         /\ \A i \in 1 .. Len(file) : file[i].length \in 1 .. 3 /\ file[i].kind \in Kinds
<1>1. file \in Seq(Line) /\ Len(file) \in Nat
  BY DEF BatchTypeOK
<1>2. \A i \in 1 .. Len(file) : file[i] \in Line
  BY <1>1
<1>3. \A l \in Line : l.length \in 1 .. 3 /\ l.kind \in Kinds
  BY DEF Line
<1> QED
  BY <1>1, <1>2, <1>3 DEF BufferUnits

\* The place of a piece that there is.
LEMMA PlaceIs ==
  ASSUME BatchTypeOK, AtPlace, ~ AtEnd
  PROVE  /\ at.line \in 1 .. Len(file) /\ at.unit \in Nat \ {0}
         /\ at.unit <= file[at.line].length /\ (at.unit - 1) % BufferUnits = 0
<1>1. at.line \in Nat \ {0} /\ at.unit \in Nat \ {0}
  BY DEF BatchTypeOK
<1>2. at.line \in 1 .. Len(file)
  BY <1>1, LinesAre DEF AtEnd
<1> QED
  BY <1>1, <1>2 DEF AtPlace

LEMMA PiecesAre ==
  ASSUME BatchTypeOK
  PROVE  /\ \A p \in Pieces :
              /\ p \in Query /\ p.line \in 1 .. Len(file) /\ p.unit \in 1 .. file[p.line].length
              /\ (p.unit - 1) % BufferUnits = 0
              /\ p = PieceOf(p.line, p.unit)
         /\ \A i \in 1 .. Len(file), u \in Nat \ {0} :
              u <= file[i].length /\ (u - 1) % BufferUnits = 0 => PieceOf(i, u) \in Pieces
<1>1. /\ Len(file) \in Nat /\ BufferUnits \in {1, 2}
      /\ \A i \in 1 .. Len(file) : file[i].length \in 1 .. 3 /\ file[i].kind \in Kinds
  BY LinesAre
<1>2. ASSUME NEW p \in Pieces
      PROVE  /\ p \in Query /\ p.line \in 1 .. Len(file) /\ p.unit \in 1 .. file[p.line].length
             /\ (p.unit - 1) % BufferUnits = 0
             /\ p = PieceOf(p.line, p.unit)
  <2>1. PICK i \in 1 .. Len(file) : p \in PiecesOf(i, BufferUnits)
    BY DEF Pieces, AllPieces
  <2>2. PICK u \in 1 .. file[i].length : (u - 1) % BufferUnits = 0 /\ p = PieceOf(i, u)
    BY <2>1 DEF PiecesOf
  <2>3. p.line = i /\ p.unit = u
    BY <2>2 DEF PieceOf
  <2>4. p \in Query
    BY <1>1, <2>2 DEF PieceOf, Query, Kinds
  <2> QED
    BY <2>2, <2>3, <2>4
<1>3. ASSUME NEW i \in 1 .. Len(file), NEW u \in Nat \ {0},
             u <= file[i].length, (u - 1) % BufferUnits = 0
      PROVE  PieceOf(i, u) \in Pieces
  <2>1. u \in 1 .. file[i].length
    BY <1>1, <1>3
  <2>2. PieceOf(i, u) \in PiecesOf(i, BufferUnits)
    BY <1>3, <2>1 DEF PiecesOf
  <2> QED
    BY <2>2 DEF Pieces, AllPieces
<1> QED
  BY <1>2, <1>3

\* No two pieces are at the same place.
LEMMA PiecesInOrder ==
  ASSUME BatchTypeOK, NEW p \in Pieces, NEW q \in Pieces
  PROVE  Earlier(p, q) \/ Earlier(q, p) \/ p = q
<1>1. /\ p.line \in Nat /\ p.unit \in Nat /\ q.line \in Nat /\ q.unit \in Nat
      /\ p = PieceOf(p.line, p.unit) /\ q = PieceOf(q.line, q.unit)
  BY PiecesAre DEF Query
<1>2. CASE p.line = q.line /\ p.unit = q.unit
  BY <1>1, <1>2
<1>3. CASE ~ (p.line = q.line /\ p.unit = q.unit)
  BY <1>1, <1>3 DEF Earlier
<1> QED
  BY <1>2, <1>3

\* Pieces of a line are as long as the buffer.
LEMMA UnitsApart ==
  ASSUME NEW b \in {1, 2}, NEW u \in Nat \ {0}, NEW v \in Nat \ {0},
         (u - 1) % b = 0, (v - 1) % b = 0, u < v
  PROVE  u + b <= v
<1>1. CASE b = 1
  BY <1>1
<1>2. CASE b = 2
  <2>1. SUFFICES ASSUME v = u + 1
                 PROVE  FALSE
    BY <1>2
  <2>2. (u - 1) % 2 = 0 /\ ((u - 1) + 1) % 2 = 0
    BY <1>2, <2>1
  <2> DEFINE w == u - 1
  <2>3. w \in Nat
    OBVIOUS
  <2> HIDE DEF w
  <2>4. w % 2 = 0 => (w + 1) % 2 = 1
    BY <2>3
  <2> QED
    BY <2>2, <2>4 DEF w
<1> QED
  BY <1>1, <1>2

\* A piece is read and the place moves on to the next one.
LEMMA PieceIsRead ==
  ASSUME BatchTypeOK, AtPlace, ~ AtEnd
  PROVE  /\ Piece \in Pieces /\ Piece.line = at.line /\ Piece.unit = at.unit
         /\ \A p \in Pieces : Earlier(p, NextPiece) <=> Earlier(p, at) \/ p = Piece
         /\ \A p \in Pieces : Earlier(p, Piece) <=> Earlier(p, at)
<1> DEFINE i == at.line
           u == at.unit
           len == file[i].length
<1>1. /\ i \in 1 .. Len(file) /\ u \in Nat \ {0} /\ len \in 1 .. 3 /\ Len(file) \in Nat
      /\ u <= len /\ (u - 1) % BufferUnits = 0 /\ BufferUnits \in {1, 2}
  BY LinesAre, PlaceIs
<1>2. Piece = PieceOf(i, u)
  BY DEF Piece, PieceOf
<1>3. Piece \in Pieces /\ Piece.line = i /\ Piece.unit = u
  BY <1>1, <1>2, PiecesAre DEF PieceOf
<1>4. ASSUME NEW p \in Pieces
      PROVE  Earlier(p, NextPiece) <=> Earlier(p, at) \/ p = Piece
  <2>1. /\ p.line \in 1 .. Len(file) /\ p.unit \in 1 .. file[p.line].length
        /\ (p.unit - 1) % BufferUnits = 0
        /\ p.line = i /\ p.unit = u => p = Piece
    BY <1>2, PiecesAre
  <2>2. file[p.line].length \in 1 .. 3 /\ p.unit \in Nat
    BY <2>1, LinesAre
  <2>3. p = Piece => p.line = i /\ p.unit = u
    BY <1>3
  <2>4. CASE u + BufferUnits <= len
    <3>1. NextPiece.line = i /\ NextPiece.unit = u + BufferUnits
      BY <2>4 DEF NextPiece, BatchTypeOK
    <3>2. ~ (p.line = i /\ u < p.unit /\ p.unit < u + BufferUnits)
      <4>1. p.unit \in Nat \ {0} /\ u \in Nat \ {0} /\ BufferUnits \in Nat
        BY <1>1, <2>1, <2>2
      <4>2. u < p.unit => u + BufferUnits <= p.unit
        BY <1>1, <2>1, <4>1, UnitsApart
      <4> QED
        BY <4>1, <4>2
    <3> QED
      BY <1>1, <2>1, <2>2, <2>3, <3>1, <3>2 DEF Earlier
  <2>5. CASE ~ (u + BufferUnits <= len)
    <3>1. NextPiece.line = i + 1 /\ NextPiece.unit = 1
      BY <2>5 DEF NextPiece
    <3>2. ~ (p.line = i /\ u < p.unit)
      <4>1. SUFFICES ASSUME p.line = i, u < p.unit
                     PROVE  FALSE
        OBVIOUS
      <4>2. p.unit <= len /\ p.unit \in Nat \ {0}
        BY <1>1, <2>1, <2>2, <4>1
      <4>3. u + BufferUnits <= p.unit
        BY <1>1, <2>1, <4>1, <4>2, UnitsApart
      <4> QED
        BY <1>1, <2>5, <4>2, <4>3
    <3> QED
      BY <1>1, <2>1, <2>2, <2>3, <3>1, <3>2 DEF Earlier
  <2> QED
    BY <2>4, <2>5
<1>5. ASSUME NEW p \in Pieces
      PROVE  Earlier(p, Piece) <=> Earlier(p, at)
  BY <1>3 DEF Earlier
<1> QED
  BY <1>3, <1>4, <1>5

LEMMA NextPlaceIs ==
  ASSUME BatchTypeOK, AtPlace, ~ AtEnd, at' = NextPiece, UNCHANGED << file, driver >>
  PROVE  AtPlace'
<1>1. /\ at.line \in 1 .. Len(file) /\ at.unit \in Nat \ {0} /\ Len(file) \in Nat
      /\ at.unit <= file[at.line].length /\ (at.unit - 1) % BufferUnits = 0 /\ BufferUnits \in {1, 2}
      /\ file[at.line].length \in 1 .. 3
  BY LinesAre, PlaceIs
<1>2. BufferUnits' = BufferUnits /\ file' = file
  BY DEF BufferUnits
<1>3. CASE at.unit + BufferUnits <= file[at.line].length
  <2>1. at'.line = at.line /\ at'.unit = at.unit + BufferUnits
    BY <1>3 DEF NextPiece, BatchTypeOK
  <2>2. (at'.unit - 1) % BufferUnits = 0
    BY <1>1, <2>1
  <2> QED
    BY <1>1, <1>2, <1>3, <2>1, <2>2 DEF AtPlace, AtEnd
<1>4. CASE ~ (at.unit + BufferUnits <= file[at.line].length)
  <2>1. at'.line = at.line + 1 /\ at'.unit = 1
    BY <1>4 DEF NextPiece
  <2>2. at'.line \in 1 .. Len(file) => 1 <= file[at'.line].length
    BY LinesAre
  <2>3. (1 - 1) % BufferUnits = 0
    BY <1>1
  <2> QED
    BY <1>1, <1>2, <2>1, <2>2, <2>3 DEF AtPlace, AtEnd
<1> QED
  BY <1>3, <1>4

LEMMA AtEndAllRead ==
  ASSUME BatchTypeOK, AtEnd, NEW p \in Pieces
  PROVE  Earlier(p, at)
<1>1. p.line \in 1 .. Len(file)
  BY PiecesAre
<1> QED
  BY <1>1 DEF AtEnd, Earlier, BatchTypeOK

LEMMA PiecesAreFinite ==
  ASSUME BatchTypeOK
  PROVE  IsFiniteSet(Pieces)
<1> DEFINE Parts == {PiecesOf(i, BufferUnits) : i \in 1 .. Len(file)}
<1>1. IsFiniteSet(1 .. Len(file))
  BY LinesAre, FS_Interval
<1>2. IsFiniteSet(Parts)
  <2> DEFINE f == [i \in 1 .. Len(file) |-> PiecesOf(i, BufferUnits)]
  <2>1. f \in Surjection(1 .. Len(file), Parts)
    BY DEF Surjection
  <2> HIDE DEF f, Parts
  <2> QED
    BY <1>1, <2>1, FS_Surjection
<1>3. ASSUME NEW T \in Parts
      PROVE  IsFiniteSet(T)
  <2>1. PICK i \in 1 .. Len(file) : T = PiecesOf(i, BufferUnits)
    OBVIOUS
  <2> DEFINE U == {v \in 1 .. file[i].length : (v - 1) % BufferUnits = 0}
             f == [u \in U |-> PieceOf(i, u)]
  <2>2. IsFiniteSet(1 .. file[i].length)
    <3>1. file[i].length \in 1 .. 3
      BY LinesAre
    <3>2. file[i].length \in Int /\ 1 \in Int
      BY <3>1
    <3> QED
      BY <3>2, FS_Interval
  <2>3. IsFiniteSet(U)
    BY <2>2, FS_Subset
  <2>4. f \in Surjection(U, T)
    BY <2>1 DEF Surjection, PiecesOf
  <2> HIDE DEF f, U
  <2> QED
    BY <2>3, <2>4, FS_Surjection
<1>4. Pieces = UNION Parts
  BY DEF Pieces, AllPieces
<1> HIDE DEF Parts
<1> QED
  BY <1>2, <1>3, <1>4, FS_UNION

\* The first n queries read.
First(n) == {queries[i] : i \in 1 .. n}

LEMMA FirstAreSoMany ==
  ASSUME BatchTypeOK, ReadAscending, NEW n \in 0 .. Len(queries)
  PROVE  IsFiniteSet(First(n)) /\ Cardinality(First(n)) = n
<1> DEFINE f == [i \in 1 .. n |-> queries[i]]
<1>1. n \in Nat /\ \A i \in 1 .. n : i \in 1 .. Len(queries)
  BY DEF BatchTypeOK
<1>2. f \in Bijection(1 .. n, First(n))
  <2>1. f \in [1 .. n -> First(n)] /\ \A q \in First(n) : \E i \in 1 .. n : f[i] = q
    BY DEF First
  <2>2. \A i, j \in 1 .. n : f[i] = f[j] => i = j
    BY <1>1, RunIsOfOne
  <2> HIDE DEF f
  <2>3. f \in Injection(1 .. n, First(n)) /\ f \in Surjection(1 .. n, First(n))
    BY <2>1, <2>2 DEF Injection, IsInjective, Surjection
  <2> QED
    BY <2>3 DEF Bijection
<1>3. IsFiniteSet(1 .. n) /\ Cardinality(1 .. n) = n
  <2>1. IsFiniteSet(1 .. n) /\ Cardinality(1 .. n) = IF 1 > n THEN 0 ELSE n - 1 + 1
    BY <1>1, FS_Interval
  <2> QED
    BY <1>1, <2>1
<1> HIDE DEF f
<1> QED
  BY <1>2, <1>3, FS_Bijection DEF ExistsBijection

\* The queries main has read when it stops are those it is to run.
LEMMA TakenIs ==
  ASSUME BatchTypeOK, ReadAscending, driver = "main", Len(queries) <= MaxQueries,
         First(Len(queries)) = {p \in Batch : Earlier(p, at)},
         Len(queries) = MaxQueries \/ \A p \in Batch : Earlier(p, at)
  PROVE  First(Len(queries)) = ExpectedOfMain
<1> DEFINE n == Len(queries)
           Before(p) == {q \in Batch : Earlier(q, p)}
<1>1. /\ Batch \subseteq Pieces /\ \A p \in Pieces : p.line \in Nat /\ p.unit \in Nat
      /\ at.line \in Nat /\ at.unit \in Nat /\ n \in Nat /\ MaxQueries \in Nat
  <2>1. Pieces = AllPieces(2)
    BY DEF Pieces, BufferUnits
  <2> QED
    BY <2>1, PiecesAre, BatchAssumption DEF BatchTypeOK, Batch, Query
<1>2. ASSUME NEW i \in 1 .. n
      PROVE  queries[i] \in ExpectedOfMain
  <2>1. queries[i] \in Batch /\ Earlier(queries[i], at)
    BY DEF First
  <2>2. ASSUME NEW q \in Before(queries[i])
        PROVE  q \in First(i - 1)
    <3>1. Earlier(q, at)
      BY <1>1, <2>1, EarlierIsTransitive
    <3>2. PICK j \in 1 .. n : q = queries[j]
      BY <3>1 DEF First
    <3>3. ~ (i < j) /\ i # j
      BY <1>1, <2>1, <2>2, <3>2 DEF ReadAscending, Earlier
    <3>4. j \in 1 .. i - 1
      BY <1>1, <3>3
    <3> QED
      BY <3>2, <3>4 DEF First
  <2>3. ASSUME NEW j \in 1 .. i - 1
        PROVE  queries[j] \in Before(queries[i])
    <3>1. j \in 1 .. n /\ j < i
      BY <1>1
    <3>2. queries[j] \in Batch
      BY <3>1 DEF First
    <3> QED
      BY <3>1, <3>2 DEF ReadAscending
  <2>4. Before(queries[i]) = First(i - 1)
    BY <2>2, <2>3 DEF First
  <2>5. i - 1 \in 0 .. n /\ i - 1 < MaxQueries
    BY <1>1
  <2>6. Cardinality(Before(queries[i])) < MaxQueries
    BY <2>4, <2>5, FirstAreSoMany
  <2> QED
    BY <2>1, <2>6 DEF ExpectedOfMain
<1>3. ASSUME NEW p \in ExpectedOfMain
      PROVE  p \in First(n)
  <2>1. p \in Batch /\ Cardinality(Before(p)) < MaxQueries
    BY DEF ExpectedOfMain
  <2>2. SUFFICES ASSUME ~ Earlier(p, at)
                 PROVE  FALSE
    BY <2>1
  <2>3. n = MaxQueries
    BY <2>1, <2>2
  <2>4. ASSUME NEW q \in First(n)
        PROVE  q \in Before(p)
    <3>1. q \in Batch /\ Earlier(q, at)
      OBVIOUS
    <3>2. Earlier(p, q) => Earlier(p, at)
      BY <1>1, <2>1, <3>1, EarlierIsTransitive
    <3> QED
      BY <1>1, <2>1, <2>2, <3>1, <3>2, PiecesInOrder
  <2>5. IsFiniteSet(Before(p))
    <3>1. Before(p) \subseteq Pieces
      BY <1>1
    <3> QED
      BY <3>1, PiecesAreFinite, FS_Subset
  <2>6. n \in 0 .. n
    BY <1>1
  <2>7. Cardinality(First(n)) = n
    BY <2>6, FirstAreSoMany
  <2>8. First(n) \subseteq Before(p)
    BY <2>4
  <2> HIDE DEF Before
  <2>9. Cardinality(First(n)) <= Cardinality(Before(p)) /\ Cardinality(Before(p)) \in Nat
    BY <2>5, <2>8, FS_Subset, FS_CardinalityType
  <2> QED
    BY <1>1, <2>1, <2>3, <2>7, <2>9
<1> QED
  BY <1>2, <1>3 DEF First

(***************************************************************************)
(* The second invariant, of the file: main has read the pieces of its      *)
(* batch that are before its place, the runner has done those and its      *)
(* place is behind them, or behind the one it is doing.                    *)
(***************************************************************************)
MainFollowsFile ==
  driver = "main" =>
    /\ phase = "reading" =>
         /\ First(Len(queries)) = {p \in Batch : Earlier(p, at)}
         /\ \A q \in Pieces : q.kind = "SHUTDOWN" => ~ Earlier(q, at)
    /\ phase \in {"enqueuing", "processing", "done"} => First(Len(queries)) = Expected

\* What has happened is what the pieces in P ask for.
Happened(P) == {ran[k] : k \in DOMAIN ran} = EventsOf(P)

Upto(p) == {q \in Expected : Earlier(q, p)}

\* The runner is doing the last query it has read.
Doing ==
  LET last == queries[Len(queries)]
  IN  /\ Len(queries) # 0
      /\ last \in Expected /\ last.kind \in {"query", "admin"}
      /\ Upto(at) = Upto(last) \union {last}
      /\ Happened(Upto(last))

RunnerFollowsFile ==
  driver = "runner" =>
    /\ phase \in {"reading", "done"} => Happened(Upto(at))
    /\ phase \in {"enqueuing", "processing"} => Doing
    /\ phase = "processing" => pending = {TaskOf(Len(queries))}
    /\ phase = "done" => AtEnd

FollowsFile == AtPlace /\ MainFollowsFile /\ RunnerFollowsFile /\ InTurn

\* The file is the same in the next state, and so is what is expected.
LEMMA SameFile ==
  ASSUME UNCHANGED << file, driver >>
  PROVE  /\ Batch' = Batch /\ Pieces' = Pieces /\ Expected' = Expected
         /\ \A P : EventsOf(P)' = EventsOf(P)
         /\ \A q, p : ComesBefore(q, p)' <=> ComesBefore(q, p)
BY DEF Batch, Pieces, BufferUnits, AllPieces, PiecesOf, PieceOf, Expected, ExpectedOfMain, ExpectedOfRunner,
       EventsOf, EventOf, RunOf, ComesBefore, Earlier

LEMMA ExpectedIs ==
  ASSUME BatchTypeOK
  PROVE  /\ Batch \subseteq Pieces \/ driver # "main"
         /\ Expected \subseteq Pieces
         /\ driver = "runner" => Expected = {p \in Pieces : p.kind \notin {"empty", "comment"}}
         /\ driver = "main" => Expected = ExpectedOfMain /\ Expected \subseteq Batch
BY DEF Expected, ExpectedOfMain, ExpectedOfRunner, Batch, Pieces, BufferUnits, BatchTypeOK, Drivers

\* InTurn of any history.
InTurnOf(r) ==
  \A k \in DOMAIN r : \E p \in Expected :
    /\ r[k] = EventOf(p)
    /\ {r[l] : l \in 1 .. k - 1} = EventsOf({q \in Expected : ComesBefore(q, p)})

LEMMA NextTurn ==
  ASSUME UNCHANGED << file, driver >>, InTurnOf(ran')
  PROVE  InTurn'
<1>1. \A P : EventsOf(P)' = EventsOf(P)
  BY SameFile
<1>2. \A p : EventOf(p)' = EventOf(p)
  BY DEF EventOf, RunOf
<1>3. \A p : {q \in Expected : ComesBefore(q, p)}' = {q \in Expected : ComesBefore(q, p)}
  BY SameFile
<1> QED
  BY <1>1, <1>2, <1>3, SameFile DEF InTurn, InTurnOf

\* What is to come before p, and what is in a history.
Ahead(p) == {q \in Expected : ComesBefore(q, p)}

EventsIn(r) == {r[k] : k \in DOMAIN r}

LEMMA TurnOfOneMore ==
  ASSUME NEW E, NEW r \in Seq(E), InTurnOf(r), NEW p \in Expected, EventOf(p) \in E,
         EventsIn(r) = EventsOf(Ahead(p))
  PROVE  /\ InTurnOf(Append(r, EventOf(p)))
         /\ EventsIn(Append(r, EventOf(p))) = EventsIn(r) \union {EventOf(p)}
<1> DEFINE e == EventOf(p)
           s == Append(r, e)
           n == Len(r)
<1>1. /\ n \in Nat /\ DOMAIN r = 1 .. n /\ DOMAIN s = 1 .. n + 1
      /\ \A k \in 1 .. n : s[k] = r[k]
      /\ s[n + 1] = e
  BY DEF e
<1> HIDE DEF s, e, n
<1>2. \A m \in 0 .. n : {s[l] : l \in 1 .. m} = {r[l] : l \in 1 .. m}
  <2> TAKE m \in 0 .. n
  <2>1. \A l \in 1 .. m : s[l] = r[l]
    BY <1>1
  <2> QED
    BY <2>1
<1>3. ASSUME NEW k \in 1 .. n + 1
      PROVE  \E q \in Expected :
               /\ s[k] = EventOf(q)
               /\ {s[l] : l \in 1 .. k - 1} = EventsOf({x \in Expected : ComesBefore(x, q)})
  <2>1. k - 1 \in 0 .. n
    BY <1>1
  <2>2. CASE k = n + 1
    <3>1. {s[l] : l \in 1 .. n} = {r[l] : l \in 1 .. n}
      BY <1>1, <1>2
    <3>2. k - 1 = n
      BY <1>1, <2>2
    <3>3. {r[l] : l \in 1 .. n} = EventsOf({x \in Expected : ComesBefore(x, p)})
      BY <1>1 DEF EventsIn, Ahead
    <3> QED
      BY <1>1, <2>2, <3>1, <3>2, <3>3 DEF e
  <2>3. CASE k # n + 1
    <3>1. k \in 1 .. n
      BY <1>1, <2>3
    <3>2. PICK q \in Expected :
            /\ r[k] = EventOf(q)
            /\ {r[l] : l \in 1 .. k - 1} = EventsOf({x \in Expected : ComesBefore(x, q)})
      BY <1>1, <3>1 DEF InTurnOf
    <3> QED
      BY <1>1, <1>2, <2>1, <3>1, <3>2
  <2> QED
    BY <2>2, <2>3
<1>4. {s[k] : k \in 1 .. n + 1} = {r[k] : k \in 1 .. n} \union {e}
  <2>1. \A k \in 1 .. n + 1 : k \in 1 .. n \/ k = n + 1
    BY <1>1
  <2>2. \A k \in 1 .. n : k \in 1 .. n + 1
    BY <1>1
  <2>3. n + 1 \in 1 .. n + 1
    BY <1>1
  <2> QED
    BY <1>1, <2>1, <2>2, <2>3
<1> QED
  BY <1>1, <1>3, <1>4 DEF s, e, InTurnOf, EventsIn

LEMMA FollowsInit ==
  ASSUME Init, BatchTypeOK
  PROVE  FollowsFile
<1>1. /\ at.line = 1 /\ at.unit = 1 /\ queries = << >> /\ ran = << >> /\ phase = "reading"
  BY DEF Init
<1>2. \A p \in Pieces : ~ Earlier(p, at)
  <2>1. \A p \in Pieces : p.line \in 1 .. Len(file) /\ p.unit \in Nat /\ p.unit >= 1
    <3> TAKE p \in Pieces
    <3>1. p.line \in 1 .. Len(file) /\ p.unit \in 1 .. file[p.line].length
      BY PiecesAre
    <3> QED
      BY <3>1, LinesAre
  <2> QED
    BY <1>1, <2>1 DEF Earlier
<1>3. AtPlace
  BY <1>1, LinesAre DEF AtPlace, AtEnd
<1>4. First(Len(queries)) = {} /\ Upto(at) = {} /\ (driver = "main" => {p \in Batch : Earlier(p, at)} = {})
  BY <1>1, <1>2, ExpectedIs DEF First, Upto
<1>5. MainFollowsFile
  BY <1>1, <1>2, <1>4 DEF MainFollowsFile
<1>6. {ran[k] : k \in DOMAIN ran} = {} /\ EventsOf({}) = {}
  BY <1>1 DEF EventsOf
<1>7. RunnerFollowsFile
  BY <1>1, <1>4, <1>6 DEF RunnerFollowsFile, Happened
<1>8. InTurn
  BY <1>1 DEF InTurn
<1> QED
  BY <1>3, <1>5, <1>7, <1>8 DEF FollowsFile

\* Steps that leave the history as it is.
LEMMA TurnIsKept ==
  ASSUME InTurn, UNCHANGED << file, driver, ran >>
  PROVE  InTurn'
<1>1. InTurnOf(ran')
  BY DEF InTurn, InTurnOf
<1> QED
  BY <1>1, NextTurn

LEMMA PlaceIsKept ==
  ASSUME AtPlace, UNCHANGED << file, driver, at >>
  PROVE  AtPlace'
BY DEF AtPlace, AtEnd, BufferUnits

LEMMA FollowsSkip ==
  ASSUME IInv, FollowsFile, Skip
  PROVE  FollowsFile'
<1>1. /\ phase = "reading" /\ phase' = "reading" /\ ~ AtEnd
      /\ Piece.kind = "empty" \/ (Piece.kind = "comment" /\ driver = "runner")
      /\ at' = NextPiece
      /\ UNCHANGED << file, driver, queries, ran >>
  BY DEF Skip, Skipped
<1>2. BatchTypeOK /\ AtPlace
  BY DEF IInv, FollowsFile
<1>3. /\ Piece \in Pieces
      /\ \A p \in Pieces : Earlier(p, at') <=> Earlier(p, at) \/ p = Piece
  BY <1>1, <1>2, PieceIsRead
<1>4. AtPlace'
  BY <1>1, <1>2, NextPlaceIs
<1>5. InTurn'
  BY <1>1, TurnIsKept DEF FollowsFile
<1>6. MainFollowsFile'
  <2>1. SUFFICES ASSUME driver = "main"
                 PROVE  MainFollowsFile'
    BY <1>1 DEF MainFollowsFile
  <2>2. First(Len(queries)) = {p \in Batch : Earlier(p, at)}
    BY <1>1, <2>1 DEF FollowsFile, MainFollowsFile
  <2>3. \A q \in Pieces : q.kind = "SHUTDOWN" => ~ Earlier(q, at)
    BY <1>1, <2>1 DEF FollowsFile, MainFollowsFile
  <2>4. Piece \notin Batch
    BY <1>1, <2>1 DEF Batch
  <2>5. {p \in Batch : Earlier(p, at')} = {p \in Batch : Earlier(p, at)}
    BY <1>2, <1>3, <2>1, <2>4, ExpectedIs
  <2>6. \A q \in Pieces : q.kind = "SHUTDOWN" => ~ Earlier(q, at')
    BY <1>1, <1>3, <2>1, <2>3
  <2>7. First(Len(queries))' = First(Len(queries)) /\ Batch' = Batch /\ Pieces' = Pieces
    BY <1>1, SameFile DEF First
  <2> QED
    BY <1>1, <2>2, <2>5, <2>6, <2>7 DEF MainFollowsFile, Earlier
<1>7. RunnerFollowsFile'
  <2>1. SUFFICES ASSUME driver = "runner"
                 PROVE  RunnerFollowsFile'
    BY <1>1 DEF RunnerFollowsFile
  <2>2. Happened(Upto(at))
    BY <1>1, <2>1 DEF FollowsFile, RunnerFollowsFile
  <2>3. Piece \notin Expected
    BY <1>1, <1>2, <2>1, ExpectedIs
  <2>4. {p \in Expected : Earlier(p, at')} = Upto(at)
    BY <1>2, <1>3, <2>3, ExpectedIs DEF Upto
  <2>5. Expected' = Expected /\ \A P : EventsOf(P)' = EventsOf(P)
    BY <1>1, SameFile
  <2>6. Upto(at)' = Upto(at)
    BY <2>4, <2>5 DEF Upto, Earlier
  <2>7. Happened(Upto(at))'
    BY <1>1, <2>2, <2>5, <2>6 DEF Happened
  <2> QED
    BY <1>1, <2>7 DEF RunnerFollowsFile
<1> QED
  BY <1>4, <1>5, <1>6, <1>7 DEF FollowsFile

LEMMA FollowsReadQuery ==
  ASSUME IInv, FollowsFile, ReadQuery
  PROVE  FollowsFile'
<1> DEFINE n == Len(queries)
<1>1. /\ phase = "reading" /\ ~ AtEnd /\ HasRoom /\ IsQuery(Piece.kind)
      /\ queries' = Append(queries, Piece) /\ at' = NextPiece
      /\ phase' = IF driver = "main" THEN "reading" ELSE "enqueuing"
      /\ UNCHANGED << file, driver, ran >>
  BY DEF ReadQuery
<1>2. BatchTypeOK /\ AtPlace /\ queries \in Seq(Query)
  BY DEF IInv, FollowsFile, BatchTypeOK
<1>3. /\ Piece \in Pieces /\ Piece \in Query
      /\ \A p \in Pieces : Earlier(p, at') <=> Earlier(p, at) \/ p = Piece
      /\ \A p \in Pieces : Earlier(p, Piece) <=> Earlier(p, at)
  BY <1>1, <1>2, PieceIsRead, NextPieceIsLater
<1>4. /\ Len(queries') = n + 1 /\ queries'[n + 1] = Piece /\ n \in Nat
      /\ \A i \in 1 .. n : queries'[i] = queries[i]
  BY <1>1, <1>2, <1>3
<1>5. AtPlace'
  BY <1>1, <1>2, NextPlaceIs
<1>6. InTurn'
  BY <1>1, TurnIsKept DEF FollowsFile
<1>7. MainFollowsFile'
  <2>1. SUFFICES ASSUME driver = "main"
                 PROVE  MainFollowsFile'
    BY <1>1 DEF MainFollowsFile
  <2>2. First(n) = {p \in Batch : Earlier(p, at)}
    BY <1>1, <2>1 DEF FollowsFile, MainFollowsFile
  <2>3. \A q \in Pieces : q.kind = "SHUTDOWN" => ~ Earlier(q, at)
    BY <1>1, <2>1 DEF FollowsFile, MainFollowsFile
  <2>4. Piece.kind \notin {"empty", "SHUTDOWN"}
    BY <1>1, <2>1 DEF IsQuery
  <2>5. Piece \in Batch
    <3>1. Pieces = AllPieces(2)
      BY <2>1 DEF Pieces, BufferUnits
    <3>2. ASSUME NEW q \in Pieces, q.kind = "SHUTDOWN"
          PROVE  Earlier(Piece, q)
      BY <1>2, <1>3, <2>3, <2>4, <3>2, PiecesInOrder
    <3> QED
      BY <1>3, <2>4, <3>1, <3>2 DEF Batch
  <2>6. {p \in Batch : Earlier(p, at')} = {p \in Batch : Earlier(p, at)} \union {Piece}
    BY <1>2, <1>3, <2>1, <2>5, ExpectedIs
  <2>7. \A q \in Pieces : q.kind = "SHUTDOWN" => ~ Earlier(q, at')
    BY <1>3, <2>3, <2>4
  <2>8. {queries'[i] : i \in 1 .. n + 1} = First(n) \union {Piece}
    <3>1. \A i \in 1 .. n + 1 : i \in 1 .. n \/ i = n + 1
      BY <1>4
    <3>2. n + 1 \in 1 .. n + 1 /\ \A i \in 1 .. n : i \in 1 .. n + 1
      BY <1>4
    <3> QED
      BY <1>4, <3>1, <3>2 DEF First
  <2>9. First(Len(queries))' = First(n) \union {Piece}
    BY <1>4, <2>8 DEF First
  <2>10. Batch' = Batch /\ Pieces' = Pieces
    BY <1>1, SameFile
  <2>11. phase' = "reading"
    BY <1>1, <2>1
  <2> QED
    BY <2>2, <2>6, <2>7, <2>9, <2>10, <2>11 DEF MainFollowsFile, Earlier
<1>8. RunnerFollowsFile'
  <2>1. SUFFICES ASSUME driver = "runner"
                 PROVE  RunnerFollowsFile'
    BY <1>1 DEF RunnerFollowsFile
  <2>2. Happened(Upto(at))
    BY <1>1, <2>1 DEF FollowsFile, RunnerFollowsFile
  <2>3. Piece.kind \in {"query", "admin"}
    BY <1>1, <2>1 DEF IsQuery
  <2>4. Piece \in Expected
    BY <1>2, <1>3, <2>1, <2>3, ExpectedIs
  <2>5. Expected \subseteq Pieces
    BY <1>2, ExpectedIs
  <2>6. {q \in Expected : Earlier(q, at')} = {q \in Expected : Earlier(q, Piece)} \union {Piece}
    BY <1>3, <2>4, <2>5
  <2>7. {q \in Expected : Earlier(q, Piece)} = Upto(at)
    BY <1>3, <2>5 DEF Upto
  <2>8. Expected' = Expected /\ \A P : EventsOf(P)' = EventsOf(P)
    BY <1>1, SameFile
  <2>9. queries[Len(queries)]' = Piece /\ Len(queries)' # 0
    BY <1>4
  <2>10. Upto(at)' = {q \in Expected : Earlier(q, at')}
    BY <2>8 DEF Upto, Earlier
  <2>11. Upto(queries[Len(queries)])' = {q \in Expected : Earlier(q, Piece)}
    BY <2>8, <2>9 DEF Upto, Earlier
  <2>12. Happened(Upto(queries[Len(queries)]))'
    BY <1>1, <2>2, <2>7, <2>8, <2>11 DEF Happened
  <2>13. Doing'
    BY <2>3, <2>4, <2>6, <2>8, <2>9, <2>10, <2>11, <2>12 DEF Doing
  <2>14. phase' = "enqueuing"
    BY <1>1, <2>1
  <2> QED
    BY <2>13, <2>14 DEF RunnerFollowsFile
<1> QED
  BY <1>5, <1>6, <1>7, <1>8 DEF FollowsFile

LEMMA FollowsSave ==
  ASSUME IInv, FollowsFile, SaveAndGoOn
  PROVE  FollowsFile'
<1> DEFINE E == [event : {"save"}, line : Nat] \union [event : {"run"}, line : Nat, unit : Nat]
<1>1. /\ phase = "reading" /\ phase' = phase /\ driver = "runner" /\ ~ AtEnd
      /\ Piece.kind \in {"SHUTDOWN", "mention"}
      /\ ran' = Append(ran, [event |-> "save", line |-> at.line])
      /\ at' = NextPiece
      /\ UNCHANGED << file, driver >>
  BY DEF SaveAndGoOn
<1>2. BatchTypeOK /\ AtPlace /\ ran \in Seq(E) /\ at.line \in Nat
  BY DEF IInv, FollowsFile, BatchTypeOK
<1>3. /\ Piece \in Pieces /\ Piece.line = at.line
      /\ \A p \in Pieces : Earlier(p, at') <=> Earlier(p, at) \/ p = Piece
      /\ \A p \in Pieces : Earlier(p, Piece) <=> Earlier(p, at)
  BY <1>1, <1>2, PieceIsRead
<1>4. EventOf(Piece) = [event |-> "save", line |-> at.line]
  BY <1>1, <1>3 DEF EventOf
<1>5. EventOf(Piece) \in E
  BY <1>2, <1>4
<1>6. Piece \in Expected /\ Expected \subseteq Pieces
  BY <1>1, <1>2, <1>3, ExpectedIs
<1>7. EventsIn(ran) = EventsOf(Upto(at))
  BY <1>1 DEF FollowsFile, RunnerFollowsFile, Happened, EventsIn
<1>8. Ahead(Piece) = Upto(at)
  BY <1>1, <1>3, <1>6 DEF ComesBefore, Ahead, Upto
<1>9. InTurnOf(ran)
  BY DEF FollowsFile, InTurn, InTurnOf
<1> HIDE DEF E
<1>10. /\ InTurnOf(Append(ran, EventOf(Piece)))
       /\ EventsIn(Append(ran, EventOf(Piece))) = EventsIn(ran) \union {EventOf(Piece)}
  BY <1>2, <1>5, <1>6, <1>7, <1>8, <1>9, TurnOfOneMore
<1>11. ran' = Append(ran, EventOf(Piece))
  BY <1>1, <1>4
<1>12. InTurn'
  BY <1>1, <1>10, <1>11, NextTurn
<1>13. AtPlace'
  BY <1>1, <1>2, NextPlaceIs
<1>14. MainFollowsFile'
  BY <1>1 DEF MainFollowsFile
<1>15. RunnerFollowsFile'
  <2>1. {q \in Expected : Earlier(q, at')} = Upto(at) \union {Piece}
    BY <1>3, <1>6 DEF Upto
  <2>2. EventsOf(Upto(at) \union {Piece}) = EventsOf(Upto(at)) \union {EventOf(Piece)}
    BY DEF EventsOf
  <2>3. Expected' = Expected /\ \A P : EventsOf(P)' = EventsOf(P)
    BY <1>1, SameFile
  <2>4. Upto(at)' = Upto(at) \union {Piece}
    BY <2>1, <2>3 DEF Upto, Earlier
  <2>5. Happened(Upto(at))'
    <3>1. EventsIn(ran') = EventsOf(Upto(at) \union {Piece})
      BY <1>7, <1>10, <1>11, <2>2
    <3> QED
      BY <2>3, <2>4, <3>1 DEF Happened, EventsIn
  <2> QED
    BY <1>1, <2>5 DEF RunnerFollowsFile
<1> QED
  BY <1>12, <1>13, <1>14, <1>15 DEF FollowsFile

\* main stops reading: at the end, at a SHUTDOWN, or when its array is full.
LEMMA FollowsReadAll ==
  ASSUME IInv, FollowsFile, ReadAll
  PROVE  FollowsFile'
<1>1. /\ phase = "reading" /\ phase' = IF driver = "main" THEN "enqueuing" ELSE "done"
      /\ UNCHANGED << file, driver, at, queries, ran >>
  BY DEF ReadAll
<1>2. AtEnd \/ (~ AtEnd /\ ~ HasRoom) \/ (~ AtEnd /\ driver = "main" /\ Piece.kind = "SHUTDOWN")
  BY DEF ReadAll
<1>3. BatchTypeOK /\ ReadAscending /\ AtPlace
  BY DEF IInv, FollowsFile
<1>4. AtPlace' /\ InTurn'
  BY <1>1, PlaceIsKept, TurnIsKept DEF FollowsFile
<1>5. Expected' = Expected /\ \A P : EventsOf(P)' = EventsOf(P)
  BY <1>1, SameFile
<1>6. MainFollowsFile'
  <2>1. SUFFICES ASSUME driver = "main"
                 PROVE  MainFollowsFile'
    BY <1>1 DEF MainFollowsFile
  <2>2. First(Len(queries)) = {p \in Batch : Earlier(p, at)}
    BY <1>1, <2>1 DEF FollowsFile, MainFollowsFile
  <2>3. Len(queries) <= MaxQueries /\ Len(queries) \in Nat /\ MaxQueries \in Nat
    BY <2>1, BatchAssumption DEF IInv, MainCounts, BatchTypeOK
  <2>4. Batch \subseteq Pieces
    BY <1>3, <2>1, ExpectedIs
  <2>5. Len(queries) = MaxQueries \/ \A p \in Batch : Earlier(p, at)
    <3>1. CASE AtEnd
      BY <1>3, <2>4, <3>1, AtEndAllRead
    <3>2. CASE ~ HasRoom
      BY <2>3, <3>2 DEF HasRoom
    <3>3. CASE ~ AtEnd /\ Piece.kind = "SHUTDOWN"
      <4>1. Piece \in Pieces /\ \A p \in Pieces : Earlier(p, Piece) <=> Earlier(p, at)
        BY <1>3, <3>3, PieceIsRead
      <4>2. \A p \in Batch : Earlier(p, Piece)
        <5>1. Pieces = AllPieces(2)
          BY <2>1 DEF Pieces, BufferUnits
        <5> QED
          BY <3>3, <4>1, <5>1 DEF Batch
      <4> QED
        BY <2>4, <4>1, <4>2
    <3> QED
      BY <1>2, <3>1, <3>2, <3>3
  <2>6. First(Len(queries)) = Expected
    <3>1. First(Len(queries)) = ExpectedOfMain
      BY <1>3, <2>1, <2>2, <2>3, <2>5, TakenIs
    <3> QED
      BY <2>1, <3>1 DEF Expected
  <2>7. First(Len(queries))' = First(Len(queries))
    BY <1>1 DEF First
  <2>8. phase' = "enqueuing"
    BY <1>1, <2>1
  <2> QED
    BY <1>5, <2>6, <2>7, <2>8 DEF MainFollowsFile
<1>7. RunnerFollowsFile'
  <2>1. SUFFICES ASSUME driver = "runner"
                 PROVE  RunnerFollowsFile'
    BY <1>1 DEF RunnerFollowsFile
  <2>2. Happened(Upto(at))
    BY <1>1, <2>1 DEF FollowsFile, RunnerFollowsFile
  <2>3. AtEnd'
    BY <1>1, <1>2, <2>1 DEF HasRoom, AtEnd
  <2>4. Upto(at)' = Upto(at)
    BY <1>1, <1>5 DEF Upto, Earlier
  <2>5. Happened(Upto(at))'
    BY <1>1, <1>5, <2>2, <2>4 DEF Happened
  <2>6. phase' = "done"
    BY <1>1, <2>1
  <2> QED
    BY <2>3, <2>5, <2>6 DEF RunnerFollowsFile
<1> QED
  BY <1>4, <1>6, <1>7 DEF FollowsFile

\* main is past the reading and goes on to a phase past it.
LEMMA MainGoesOn ==
  ASSUME MainFollowsFile, phase \in {"enqueuing", "processing"},
         driver = "main" => phase' \in {"enqueuing", "processing", "done"},
         UNCHANGED << file, driver, queries >>
  PROVE  MainFollowsFile'
<1>1. Expected' = Expected
  BY SameFile
<1>2. First(Len(queries))' = First(Len(queries))
  BY DEF First
<1> QED
  BY <1>1, <1>2 DEF MainFollowsFile

\* The runner goes on doing what it does.
LEMMA DoingIsKept ==
  ASSUME Doing, UNCHANGED << file, driver, at, queries, ran >>
  PROVE  Doing'
<1>1. Expected' = Expected /\ \A P : EventsOf(P)' = EventsOf(P)
  BY SameFile
<1>2. queries[Len(queries)]' = queries[Len(queries)] /\ Len(queries)' = Len(queries)
  OBVIOUS
<1>3. Upto(at)' = Upto(at) /\ Upto(queries[Len(queries)])' = Upto(queries[Len(queries)])
  BY <1>1, <1>2 DEF Upto, Earlier
<1>4. Happened(Upto(queries[Len(queries)]))'
  BY <1>1, <1>3 DEF Doing, Happened
<1> QED
  BY <1>1, <1>2, <1>3, <1>4 DEF Doing

LEMMA FollowsEnqueue ==
  ASSUME IInv, FollowsFile, Enqueue
  PROVE  FollowsFile'
<1>1. /\ phase = "enqueuing" /\ phase' = IF driver = "main" THEN phase ELSE "processing"
      /\ UNCHANGED << file, driver, at, queries, ran >>
  BY DEF Enqueue
<1>2. AtPlace' /\ InTurn'
  BY <1>1, PlaceIsKept, TurnIsKept DEF FollowsFile
<1>3. MainFollowsFile'
  BY <1>1, MainGoesOn DEF FollowsFile
<1>4. RunnerFollowsFile'
  <2>1. SUFFICES ASSUME driver = "runner"
                 PROVE  RunnerFollowsFile'
    BY <1>1 DEF RunnerFollowsFile
  <2>2. Doing
    BY <1>1, <2>1 DEF FollowsFile, RunnerFollowsFile
  <2>3. Doing'
    BY <1>1, <2>2, DoingIsKept
  <2>4. pending = {}
    <3>1. count = 0
      BY <1>1, <2>1 DEF IInv, RunnerCounts
    <3> QED
      BY <3>1, FS_EmptySet DEF IInv, QueueHolds
  <2>5. enqueued + 1 = Len(queries)
    BY <1>1, <2>1 DEF IInv, RunnerCounts
  <2>6. pending' = {TaskOf(Len(queries))}
    BY <2>4, <2>5, QueueHasRoom DEF Enqueue, Queue!Enqueue
  <2>7. TaskOf(Len(queries))' = TaskOf(Len(queries))
    BY <1>1 DEF TaskOf
  <2>8. phase' = "processing"
    BY <1>1, <2>1
  <2> QED
    BY <2>3, <2>6, <2>7, <2>8 DEF RunnerFollowsFile
<1> QED
  BY <1>2, <1>3, <1>4 DEF FollowsFile

LEMMA FollowsPhase ==
  ASSUME IInv, FollowsFile, EnqueuedAll \/ ProcessedAll
  PROVE  FollowsFile'
<1>1. /\ phase \in {"enqueuing", "processing"} /\ phase' \in {"processing", "done"}
      /\ UNCHANGED << file, driver, at, queries, ran >>
  BY DEF EnqueuedAll, ProcessedAll
<1>2. AtPlace' /\ InTurn'
  BY <1>1, PlaceIsKept, TurnIsKept DEF FollowsFile
<1>3. MainFollowsFile'
  BY <1>1, MainGoesOn DEF FollowsFile
<1>4. driver # "runner"
  BY DEF IInv, BatchTypeOK, RunnerCounts, EnqueuedAll, ProcessedAll
<1>5. RunnerFollowsFile'
  BY <1>1, <1>4 DEF RunnerFollowsFile
<1> QED
  BY <1>2, <1>3, <1>5 DEF FollowsFile

\* The program is gone, or nothing has changed.
LEMMA FollowsInterrupt ==
  ASSUME IInv, FollowsFile, Interrupt
  PROVE  FollowsFile'
<1>1. phase' = "interrupted" /\ UNCHANGED << file, driver, at, queries, ran >>
  BY DEF Interrupt
<1>2. AtPlace' /\ InTurn'
  BY <1>1, PlaceIsKept, TurnIsKept DEF FollowsFile
<1>3. MainFollowsFile' /\ RunnerFollowsFile'
  BY <1>1 DEF MainFollowsFile, RunnerFollowsFile
<1> QED
  BY <1>2, <1>3 DEF FollowsFile

LEMMA FollowsStutter ==
  ASSUME FollowsFile, UNCHANGED vars
  PROVE  FollowsFile'
<1>1. UNCHANGED << file, driver, at, queries, ran, phase, pending >>
  BY DEF vars, queue
<1>2. AtPlace' /\ InTurn'
  BY <1>1, PlaceIsKept, TurnIsKept DEF FollowsFile
<1>3. /\ Batch' = Batch /\ Pieces' = Pieces /\ Expected' = Expected
      /\ \A P : EventsOf(P)' = EventsOf(P)
  BY <1>1, SameFile
<1>4. First(Len(queries))' = First(Len(queries)) /\ TaskOf(Len(queries))' = TaskOf(Len(queries))
  BY <1>1 DEF First, TaskOf
<1>5. MainFollowsFile'
  BY <1>1, <1>3, <1>4 DEF FollowsFile, MainFollowsFile, Earlier
<1>6. Upto(at)' = Upto(at) /\ AtEnd' = AtEnd
  BY <1>1, <1>3 DEF Upto, Earlier, AtEnd
<1>7. Happened(Upto(at)) => Happened(Upto(at))'
  BY <1>1, <1>3, <1>6 DEF Happened
<1>8. Doing => Doing'
  BY <1>1, DoingIsKept
<1>9. RunnerFollowsFile'
  BY <1>1, <1>4, <1>6, <1>7, <1>8 DEF FollowsFile, RunnerFollowsFile
<1> QED
  BY <1>2, <1>5, <1>9 DEF FollowsFile

\* main runs the query of the most urgent task: those that have run come before it,
\* and those that come before it have run, as their tasks are in the queue no more.
LEMMA MainIsInTurn ==
  ASSUME IInv, FollowsFile, driver = "main", phase = "processing",
         NEW i \in 1 .. enqueued, TaskOf(i) \in pending,
         \A u \in pending : ~ Queue!Before(u, TaskOf(i))
  PROVE  /\ queries[i] \in Expected
         /\ EventsIn(ran) = EventsOf(Ahead(queries[i]))
<1> DEFINE n == Len(queries)
           p == queries[i]
<1>1. /\ enqueued = n /\ n \in Nat /\ i \in 1 .. n /\ First(n) = Expected
      /\ \A j \in 1 .. n : queries[j] \in Query /\ queries[j] \in Expected
  <2>1. First(n) = Expected /\ enqueued = n
    BY DEF FollowsFile, MainFollowsFile, IInv, MainCounts
  <2> QED
    BY <2>1 DEF IInv, BatchTypeOK, First
<1>2. \A q \in Expected : \E j \in 1 .. n : q = queries[j]
  BY <1>1 DEF First
<1>3. ASSUME NEW j \in 1 .. n
      PROVE  Queue!Before(TaskOf(j), TaskOf(i)) <=> ComesBefore(queries[j], p)
  <2>1. j < i <=> Earlier(queries[j], p)
    <3>1. j < i => Earlier(queries[j], p)
      BY <1>1 DEF IInv, ReadAscending
    <3>2. i < j => ~ Earlier(queries[j], p)
      <4>1. i < j => Earlier(p, queries[j])
        BY <1>1 DEF IInv, ReadAscending
      <4> QED
        BY <1>1, <4>1 DEF Earlier, Query
    <3>3. i = j => ~ Earlier(queries[j], p)
      BY <1>1 DEF Earlier, Query
    <3>4. j < i \/ i < j \/ i = j
      BY <1>1
    <3> QED
      BY <1>1, <3>1, <3>2, <3>3, <3>4
  <2>2. /\ TaskOf(j).taskId = j /\ TaskOf(i).taskId = i
        /\ TaskOf(j).priority = IF queries[j].kind = "admin" THEN 0 ELSE 1
        /\ TaskOf(i).priority = IF p.kind = "admin" THEN 0 ELSE 1
    BY DEF TaskOf
  <2>3. CASE p.kind = "admin" /\ queries[j].kind = "admin"
    BY <2>1, <2>2, <2>3 DEF Queue!Before, ComesBefore
  <2>4. CASE p.kind = "admin" /\ queries[j].kind # "admin"
    BY <2>2, <2>4 DEF Queue!Before, ComesBefore
  <2>5. CASE p.kind # "admin" /\ queries[j].kind = "admin"
    BY <2>2, <2>5 DEF Queue!Before, ComesBefore
  <2>6. CASE p.kind # "admin" /\ queries[j].kind # "admin"
    BY <2>1, <2>2, <2>6 DEF Queue!Before, ComesBefore
  <2> QED
    BY <2>3, <2>4, <2>5, <2>6
<1>4. \A q : EventOf(q) = RunOf(q)
  BY DEF EventOf
<1>5. ASSUME NEW k \in DOMAIN ran
      PROVE  ran[k] \in EventsOf(Ahead(p))
  <2>1. PICK q \in Expected : ran[k] = EventOf(q)
    BY DEF FollowsFile, InTurn
  <2>2. PICK j \in 1 .. n : q = queries[j]
    BY <1>2
  <2>3. IsRun(k, j)
    BY <1>4, <2>1, <2>2 DEF IsRun
  <2>4. Queue!Before(TaskOf(j), TaskOf(i))
    BY <2>3 DEF IInv, RunsMostUrgent
  <2>5. q \in Ahead(p)
    BY <1>3, <2>2, <2>4 DEF Ahead
  <2> QED
    BY <2>1, <2>5 DEF EventsOf
<1>6. ASSUME NEW q \in Ahead(p)
      PROVE  \E k \in DOMAIN ran : ran[k] = EventOf(q)
  <2>1. PICK j \in 1 .. n : q = queries[j]
    BY <1>2 DEF Ahead
  <2>2. Queue!Before(TaskOf(j), TaskOf(i))
    BY <1>3, <2>1 DEF Ahead
  <2>3. TaskOf(j) \notin pending
    BY <2>2
  <2>4. PICK k \in DOMAIN ran : IsRun(k, j)
    BY <1>1, <2>3 DEF IInv, RanIsTakenOut
  <2> QED
    BY <1>4, <2>1, <2>4 DEF IsRun
<1>7. EventsIn(ran) = EventsOf(Ahead(p))
  BY <1>5, <1>6 DEF EventsIn, EventsOf
<1> QED
  BY <1>1, <1>7

LEMMA FollowsExecute ==
  ASSUME IInv, FollowsFile, Execute
  PROVE  FollowsFile'
<1> DEFINE E == [event : {"save"}, line : Nat] \union [event : {"run"}, line : Nat, unit : Nat]
<1>1. phase = "processing"
  BY DEF Execute
<1>2. PICK i \in 1 .. enqueued :
        /\ TaskOf(i) \in pending
        /\ \A u \in pending : ~ Queue!Before(u, TaskOf(i))
        /\ ran' = Append(ran, RunOf(queries[i]))
        /\ phase' = IF driver = "main" THEN phase ELSE "reading"
        /\ UNCHANGED << file, driver, at, queries >>
  BY ExecuteRunsOne
<1> DEFINE p == queries[i]
<1>3. driver = "runner" => p = queries[Len(queries)] /\ Doing
  <2>1. SUFFICES ASSUME driver = "runner"
                 PROVE  p = queries[Len(queries)] /\ Doing
    OBVIOUS
  <2>2. pending = {TaskOf(Len(queries))} /\ Doing
    BY <1>1, <2>1 DEF FollowsFile, RunnerFollowsFile
  <2>3. TaskOf(i).taskId = i /\ TaskOf(Len(queries)).taskId = Len(queries)
    BY DEF TaskOf
  <2>4. i = Len(queries)
    BY <1>2, <2>2, <2>3
  <2> QED
    BY <2>2, <2>4
<1>4. p \in Expected /\ EventsIn(ran) = EventsOf(Ahead(p)) /\ EventOf(p) = RunOf(p)
  <2>1. CASE driver = "main"
    <3>1. p \in Expected /\ EventsIn(ran) = EventsOf(Ahead(p))
      BY <1>1, <1>2, <2>1, MainIsInTurn
    <3> QED
      BY <2>1, <3>1 DEF EventOf
  <2>2. CASE driver = "runner"
    <3>1. p \in Expected /\ p.kind \in {"query", "admin"} /\ Happened(Upto(p))
      BY <1>3, <2>2 DEF Doing
    <3>2. Ahead(p) = Upto(p)
      BY <2>2 DEF Ahead, Upto, ComesBefore
    <3> QED
      BY <3>1, <3>2 DEF EventOf, Happened, EventsIn
  <2> QED
    BY <2>1, <2>2 DEF IInv, BatchTypeOK, Drivers
<1>5. ran \in Seq(E) /\ RunOf(p) \in E
  <2>1. p \in Query
    BY DEF IInv, BatchTypeOK
  <2> QED
    BY <2>1 DEF IInv, BatchTypeOK, RunOf, Query
<1>6. InTurnOf(ran)
  BY DEF FollowsFile, InTurn, InTurnOf
<1> HIDE DEF E, p
<1>7. InTurnOf(Append(ran, EventOf(p))) /\ EventsIn(Append(ran, EventOf(p))) = EventsIn(ran) \union {EventOf(p)}
  BY <1>4, <1>5, <1>6, TurnOfOneMore
<1>8. ran' = Append(ran, EventOf(p))
  BY <1>2, <1>4 DEF p
<1>9. InTurn'
  BY <1>2, <1>7, <1>8, NextTurn
<1>10. AtPlace'
  BY <1>2, PlaceIsKept DEF FollowsFile
<1>11. MainFollowsFile'
  BY <1>1, <1>2, MainGoesOn DEF FollowsFile
<1>12. RunnerFollowsFile'
  <2>1. SUFFICES ASSUME driver = "runner"
                 PROVE  RunnerFollowsFile'
    BY <1>2 DEF RunnerFollowsFile
  <2>2. Upto(at) = Upto(p) \union {p} /\ EventsIn(ran) = EventsOf(Upto(p))
    BY <1>3, <2>1 DEF Doing, Happened, EventsIn
  <2>3. EventsOf(Upto(p) \union {p}) = EventsOf(Upto(p)) \union {EventOf(p)}
    BY DEF EventsOf
  <2>4. EventsIn(ran') = EventsOf(Upto(at))
    BY <1>7, <1>8, <2>2, <2>3
  <2>5. Expected' = Expected /\ \A P : EventsOf(P)' = EventsOf(P)
    BY <1>2, SameFile
  <2>6. Upto(at)' = Upto(at)
    BY <1>2, <2>5 DEF Upto, Earlier
  <2>7. Happened(Upto(at))'
    BY <2>4, <2>5, <2>6 DEF Happened, EventsIn
  <2>8. phase' = "reading"
    BY <1>2, <2>1
  <2> QED
    BY <2>7, <2>8 DEF RunnerFollowsFile
<1> QED
  BY <1>9, <1>10, <1>11, <1>12 DEF FollowsFile

\* main has read the pieces of its batch that are before its place in the file, the
\* runner has done those behind its place, and both do each of them in its turn.
THEOREM FileInvariance == Spec => []FollowsFile
<1>1. Init => FollowsFile
  BY FollowsInit, InitOK DEF IInv
<1>2. IInv /\ FollowsFile /\ [Next]_vars => FollowsFile'
  <2> SUFFICES ASSUME IInv, FollowsFile, [Next]_vars
               PROVE  FollowsFile'
    OBVIOUS
  <2>1. CASE Skip
    BY <2>1, FollowsSkip
  <2>2. CASE ReadQuery
    BY <2>2, FollowsReadQuery
  <2>3. CASE ReadAll
    BY <2>3, FollowsReadAll
  <2>4. CASE SaveAndGoOn
    BY <2>4, FollowsSave
  <2>5. CASE Enqueue
    BY <2>5, FollowsEnqueue
  <2>6. CASE EnqueuedAll \/ ProcessedAll
    BY <2>6, FollowsPhase
  <2>7. CASE Execute
    BY <2>7, FollowsExecute
  <2>8. CASE Interrupt
    BY <2>8, FollowsInterrupt
  <2>9. CASE UNCHANGED vars
    BY <2>9, FollowsStutter
  <2> QED
    BY <2>1, <2>2, <2>3, <2>4, <2>5, <2>6, <2>7, <2>8, <2>9 DEF Next, Step
<1> QED
  BY <1>1, <1>2, Invariance, PTL DEF Spec

\* What both programs have executed when they end is all that their file makes them.
LEMMA AllHappens ==
  ASSUME IInv, FollowsFile, EveryQueryOnce, phase = "done"
  PROVE  {ran[k] : k \in DOMAIN ran} = EventsOf(Expected)
<1>1. CASE driver = "main"
  <2>1. First(Len(queries)) = Expected
    BY <1>1 DEF FollowsFile, MainFollowsFile
  <2>2. ASSUME NEW q \in Expected
        PROVE  \E k \in DOMAIN ran : ran[k] = EventOf(q)
    <3>1. PICK i \in 1 .. Len(queries) : q = queries[i]
      BY <2>1 DEF First
    <3>2. PICK k \in DOMAIN ran : IsRun(k, i)
      BY DEF EveryQueryOnce
    <3> QED
      BY <1>1, <3>1, <3>2 DEF IsRun, EventOf
  <2>3. \A k \in DOMAIN ran : \E q \in Expected : ran[k] = EventOf(q)
    BY DEF FollowsFile, InTurn
  <2> QED
    BY <2>2, <2>3 DEF EventsOf
<1>2. CASE driver = "runner"
  <2>1. Happened(Upto(at)) /\ AtEnd
    BY <1>2 DEF FollowsFile, RunnerFollowsFile
  <2>2. BatchTypeOK
    BY DEF IInv
  <2>3. \A q \in Expected : Earlier(q, at)
    BY <2>1, <2>2, ExpectedIs, AtEndAllRead
  <2>4. Upto(at) = Expected
    BY <2>3 DEF Upto
  <2> QED
    BY <2>1, <2>4 DEF Happened
<1> QED
  BY <1>1, <1>2 DEF IInv, BatchTypeOK, Drivers

\* The run of a query is that of the first piece of its line.
LEMMA RanIsOfFirst ==
  ASSUME IInv, FollowsFile, NEW k \in DOMAIN ran, NEW i \in QueryLines, Ran(k, i)
  PROVE  \E p \in Expected :
           /\ p.line = i /\ p.unit = 1 /\ p.kind = file[i].kind
           /\ ran[k] = EventOf(p)
           /\ {ran[l] : l \in 1 .. k - 1} = EventsOf({q \in Expected : ComesBefore(q, p)})
<1>1. PICK p \in Expected :
        /\ ran[k] = EventOf(p)
        /\ {ran[l] : l \in 1 .. k - 1} = EventsOf({q \in Expected : ComesBefore(q, p)})
  BY DEF FollowsFile, InTurn
<1>2. EventOf(p) = RunOf(p)
  BY <1>1 DEF EventOf, Ran
<1>3. p.line = i /\ p.unit = 1
  BY <1>1, <1>2 DEF Ran, RunOf
<1>4. p = PieceOf(i, 1)
  <2>1. p \in Pieces /\ BatchTypeOK
    BY ExpectedIs DEF IInv
  <2> QED
    BY <1>3, <2>1, PiecesAre
<1>5. p.kind = file[i].kind
  BY <1>4 DEF PieceOf
<1> QED
  BY <1>1, <1>3, <1>5

\* A query that is asked for is one of the pieces that are executed.
LEMMA AskedIsExpected ==
  ASSUME IInv, NEW i \in Asked
  PROVE  PieceOf(i, 1) \in Expected /\ EventOf(PieceOf(i, 1)) = RunOf(PieceOf(i, 1))
<1> DEFINE p == PieceOf(i, 1)
<1>1. /\ i \in 1 .. Len(file) /\ file[i].kind \in {"query", "admin", "mention"}
      /\ driver = "main" => ~ BehindShutdown(i) /\ Fits(i)
      /\ driver # "main" => file[i].kind # "mention"
  BY DEF Asked, QueryLines, IInv, BatchTypeOK
<1>2. BatchTypeOK
  BY DEF IInv
<1>3. p.line = i /\ p.unit = 1 /\ p.kind = file[i].kind
  BY DEF PieceOf
<1>4. p \in Pieces
  <2>1. BufferUnits \in {1, 2} /\ 1 <= file[i].length /\ 1 \in Nat \ {0} /\ (1 - 1) % BufferUnits = 0
    BY <1>1, <1>2, LinesAre
  <2> QED
    BY <1>1, <1>2, <2>1, PiecesAre
<1> HIDE DEF p
<1>5. EventOf(p) = RunOf(p)
  BY <1>1, <1>3 DEF EventOf
<1>6. CASE driver = "main"
  <2>1. Pieces = AllPieces(2)
    BY <1>6 DEF Pieces, BufferUnits
  <2>2. \A q \in Pieces : /\ q.line \in 1 .. Len(file) /\ q.unit \in Nat /\ q.unit >= 1
                          /\ q.kind = "SHUTDOWN" => file[q.line].kind = "SHUTDOWN"
    <3> TAKE q \in Pieces
    <3>1. q.line \in 1 .. Len(file) /\ q.unit \in 1 .. file[q.line].length /\ q = PieceOf(q.line, q.unit)
      BY <1>2, PiecesAre
    <3>2. file[q.line].length \in 1 .. 3
      BY <1>2, <3>1, LinesAre
    <3>3. q.kind = IF q.unit = 1 THEN file[q.line].kind ELSE "query"
      BY <3>1 DEF PieceOf
    <3> QED
      BY <3>1, <3>2, <3>3
  <2>3. \A j \in 1 .. i : file[j].kind # "SHUTDOWN"
    BY <1>1, <1>6 DEF BehindShutdown
  <2>4. \A q \in Pieces : q.kind = "SHUTDOWN" => q.line > i
    BY <1>1, <2>2, <2>3
  <2>5. \A q \in Pieces : q.kind = "SHUTDOWN" => Earlier(p, q)
    BY <1>3, <2>4 DEF Earlier
  <2>6. \A q \in Pieces : Earlier(q, p) <=> q.line < i
    BY <1>1, <1>3, <2>2 DEF Earlier
  <2>7. p \in Batch
    BY <1>1, <1>3, <1>4, <2>1, <2>5 DEF Batch
  <2>8. \A q \in Pieces : q.line < i =>
          \A r \in Pieces : r.kind = "SHUTDOWN" => Earlier(q, r)
    <3> TAKE q \in Pieces
    <3> HAVE q.line < i
    <3> TAKE r \in Pieces
    <3> HAVE r.kind = "SHUTDOWN"
    <3>1. q.line \in Nat /\ r.line \in Nat /\ r.line > i /\ i \in Nat
      BY <1>1, <2>2, <2>4
    <3> QED
      BY <3>1 DEF Earlier
  <2>9. {q \in Batch : Earlier(q, p)} = {q \in AllPieces(2) : q.line < i /\ q.kind # "empty"}
    BY <2>1, <2>6, <2>8 DEF Batch
  <2>10. Cardinality({q \in Batch : Earlier(q, p)}) < MaxQueries
    BY <1>1, <1>6, <2>9 DEF Fits
  <2>11. p \in Expected
    BY <1>6, <2>7, <2>10 DEF Expected, ExpectedOfMain
  <2> QED
    BY <1>5, <2>11 DEF p
<1>7. CASE driver = "runner"
  <2>1. p \in Expected
    BY <1>1, <1>2, <1>3, <1>4, <1>7, ExpectedIs
  <2>2. EventOf(p) = RunOf(p)
    BY <1>1, <1>3, <1>7 DEF EventOf
  <2> QED
    BY <2>1, <2>2 DEF p
<1> QED
  BY <1>2, <1>6, <1>7 DEF BatchTypeOK, Drivers

\* Both programs run no query of the file twice, each after those that are to precede
\* it, and in the end every one they are asked for: main those before SHUTDOWN that
\* its array has room for, ADMIN queries first (main.cpp:198-275), the runner all but
\* those it takes for SHUTDOWN (test_runner.cpp:113-184).
THEOREM FileIsRunInOrder == Spec => []RunsInOrder
<1>1. ASSUME IInv, FollowsFile, EveryQueryOnce
      PROVE  RunsInOrder
  <2>1. \A k, l \in DOMAIN ran : ran[k].event = "run" /\ ran[k] = ran[l] => k = l
    BY <1>1 DEF EveryQueryOnce
  <2>2. ASSUME NEW k \in DOMAIN ran, NEW l \in DOMAIN ran, NEW i \in QueryLines, NEW j \in QueryLines,
               Ran(k, i), Ran(l, j), ToPrecede(j, i)
        PROVE  l < k
    <3>1. PICK p \in Expected :
            /\ p.line = i /\ p.unit = 1 /\ p.kind = file[i].kind
            /\ ran[k] = EventOf(p)
            /\ {ran[m] : m \in 1 .. k - 1} = EventsOf({q \in Expected : ComesBefore(q, p)})
      BY <1>1, <2>2, RanIsOfFirst
    <3>2. PICK q \in Expected :
            q.line = j /\ q.unit = 1 /\ q.kind = file[j].kind /\ ran[l] = EventOf(q)
      BY <1>1, <2>2, RanIsOfFirst
    <3>3. ComesBefore(q, p)
      <4>1. CASE (file[j].kind = "admin") # (file[i].kind = "admin")
        BY <2>2, <3>1, <3>2, <4>1 DEF ToPrecede, ComesBefore
      <4>2. CASE ~ ((file[j].kind = "admin") # (file[i].kind = "admin"))
        BY <2>2, <3>1, <3>2, <4>2 DEF ToPrecede, ComesBefore, Earlier
      <4> QED
        BY <4>1, <4>2
    <3>4. ran[l] \in {ran[m] : m \in 1 .. k - 1}
      BY <3>1, <3>2, <3>3 DEF EventsOf
    <3>5. PICK m \in 1 .. k - 1 : ran[m] = ran[l]
      BY <3>4
    <3>6. k \in 1 .. Len(ran) /\ l \in 1 .. Len(ran) /\ Len(ran) \in Nat
      BY <1>1 DEF IInv, BatchTypeOK
    <3>7. m \in DOMAIN ran /\ m < k
      BY <1>1, <3>5, <3>6 DEF IInv, BatchTypeOK
    <3>8. ran[l].event = "run"
      BY <2>2 DEF Ran
    <3>9. l = m
      BY <2>1, <3>5, <3>7, <3>8
    <3> QED
      BY <3>7, <3>9
  <2>3. ASSUME driver = "main", NEW k \in DOMAIN ran
        PROVE  ~ BehindShutdown(ran[k].line)
    <3>1. PICK p \in Expected : ran[k] = EventOf(p)
      BY <1>1 DEF FollowsFile, InTurn
    <3>2. p \in Batch /\ p \in Pieces /\ Pieces = AllPieces(2) /\ ran[k].line = p.line /\ BatchTypeOK
      BY <1>1, <2>3, <3>1, ExpectedIs DEF IInv, EventOf, RunOf, Pieces, BufferUnits
    <3>3. p.line \in 1 .. Len(file) /\ p.unit \in Nat /\ p.unit >= 1
      <4>1. p.line \in 1 .. Len(file) /\ p.unit \in 1 .. file[p.line].length
        BY <3>2, PiecesAre
      <4>2. file[p.line].length \in 1 .. 3
        BY <3>2, <4>1, LinesAre
      <4> QED
        BY <4>1, <4>2
    <3>4. ASSUME NEW j \in 1 .. p.line, file[j].kind = "SHUTDOWN"
          PROVE  FALSE
      <4>1. j \in 1 .. Len(file) /\ Len(file) \in Nat
        BY <3>2, <3>3, LinesAre
      <4>2. PieceOf(j, 1) \in Pieces
        <5>1. BufferUnits \in {1, 2} /\ 1 <= file[j].length /\ 1 \in Nat \ {0} /\ (1 - 1) % BufferUnits = 0
          BY <3>2, <4>1, LinesAre
        <5> QED
          BY <3>2, <4>1, <5>1, PiecesAre
      <4>3. PieceOf(j, 1).kind = "SHUTDOWN" /\ PieceOf(j, 1).line = j /\ PieceOf(j, 1).unit = 1
        BY <3>4 DEF PieceOf
      <4>4. Earlier(p, PieceOf(j, 1))
        BY <3>2, <4>2, <4>3 DEF Batch
      <4> QED
        BY <3>3, <4>1, <4>3, <4>4 DEF Earlier
    <3> QED
      BY <3>2, <3>4 DEF BehindShutdown
  <2>4. ASSUME phase = "done", NEW i \in Asked
        PROVE  \E k \in DOMAIN ran : Ran(k, i)
    <3>1. PieceOf(i, 1) \in Expected /\ EventOf(PieceOf(i, 1)) = RunOf(PieceOf(i, 1))
      BY <1>1, <2>4, AskedIsExpected
    <3>2. RunOf(PieceOf(i, 1)) \in {ran[k] : k \in DOMAIN ran}
      BY <1>1, <2>4, <3>1, AllHappens DEF EventsOf
    <3>3. RunOf(PieceOf(i, 1)) = [event |-> "run", line |-> i, unit |-> 1]
      BY DEF RunOf, PieceOf
    <3> QED
      BY <3>2, <3>3 DEF Ran
  <2> QED
    BY <2>1, <2>2, <2>3, <2>4 DEF RunsInOrder
<1> QED
  BY <1>1, Invariance, FileInvariance, RunsEveryQueryOnce, PTL
=============================================================================
