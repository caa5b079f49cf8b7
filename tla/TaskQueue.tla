----------------------------- MODULE TaskQueue -----------------------------
(***************************************************************************)
(* What PriorityQueue promises: a bounded set of tasks of which the most   *)
(* urgent one is taken next, administrators first and then in the order    *)
(* of their ids.  A task that finds the queue full is lost.                *)
(***************************************************************************)
EXTENDS Integers

CONSTANTS
  Tasks,     \* the QueryTasks there can be
  Capacity,  \* capacity_
  NoTask     \* a null QueryTask*

VARIABLES
  pending,  \* the tasks in the queue
  count,    \* how many they are
  result,   \* what the last dequeue returned
  lost      \* the tasks that were refused

vars == << pending, count, result, lost >>

\* a is to be run before b.
Before(a, b) == \/ a.priority < b.priority
                \/ a.priority = b.priority /\ a.taskId < b.taskId

Init ==
  /\ pending = {}
  /\ count = 0
  /\ result = NoTask
  /\ lost = {}

Enqueue(t) ==
  /\ t \notin pending
  /\ IF count < Capacity
     THEN pending' = pending \union {t} /\ count' = count + 1 /\ UNCHANGED lost
     ELSE lost' = lost \union {t} /\ UNCHANGED << pending, count >>
  /\ UNCHANGED result

Dequeue ==
  \E t \in pending :
    /\ \A u \in pending : ~ Before(u, t)
    /\ pending' = pending \ {t}
    /\ count' = count - 1
    /\ result' = t
    /\ UNCHANGED lost

DequeueNothing ==
  /\ pending = {}
  /\ result' = NoTask
  /\ UNCHANGED << pending, count, lost >>

Next == Dequeue \/ DequeueNothing \/ \E t \in Tasks : Enqueue(t)

Spec == Init /\ [][Next]_vars
=============================================================================
