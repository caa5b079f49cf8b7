--------------------------- MODULE PriorityQueue ---------------------------
(***************************************************************************)
(* The binary heap of src/engine/PriorityQueue.cpp, one step per round of  *)
(* the loops in siftUp and siftDown.  Slots are numbered from 0 as in the  *)
(* code.                                                                   *)
(***************************************************************************)
EXTENDS Integers

CONSTANTS
  Tasks,     \* the QueryTasks there can be
  Capacity,  \* capacity_
  NoTask     \* a null QueryTask*

ADMIN == 0
USER == 1

\* Ids are given out once, so that two tasks in the queue never compare equal.
ASSUME TaskAssumption ==
  /\ Tasks \subseteq [priority : {ADMIN, USER}, taskId : Nat]
  /\ \A s, t \in Tasks : s.taskId = t.taskId => s = t
  /\ NoTask \notin Tasks
ASSUME SlotsAssumption == Capacity \in Nat \ {0}

VARIABLES
  heap,      \* heap_
  heapSize,  \* heapSize_
  pc,        \* "idle", or "up" in siftUp, "down" in siftDown
  index,     \* index in those loops
  result,    \* what the last dequeue returned
  lost       \* history: the tasks enqueue refused; nobody frees them

vars == << heap, heapSize, pc, index, result, lost >>

Slots == 0 .. Capacity - 1

Init ==
  /\ heap = [i \in Slots |-> NoTask]
  /\ heapSize = 0
  /\ pc = "idle"
  /\ index = 0
  /\ result = NoTask
  /\ lost = {}

Parent(i) == (i - 1) \div 2
LeftChild(i) == 2 * i + 1
RightChild(i) == 2 * i + 2

\* Mutation: the ids are not compared.
HasHigherPriority_NoId(a, b) == a.priority < b.priority

\* hasHigherPriority of two tasks, neither of them null.
HasHigherPriority(a, b) == \/ a.priority < b.priority
                           \/ a.priority = b.priority /\ a.taskId < b.taskId

Swapped(i, j) == [heap EXCEPT ![i] = heap[j], ![j] = heap[i]]

\* The slots in use: siftUp runs before heapSize_ is incremented.
Used == 0 .. (IF pc = "up" THEN heapSize ELSE heapSize - 1)
Pending == {heap[i] : i \in Used}

\* Mutation: > for >=, which writes behind the array.
Full_OffByOne == heapSize > Capacity

Full == heapSize >= Capacity

\* enqueue; a full queue drops the task without a word to the caller.
Enqueue(t) ==
  /\ pc = "idle"
  /\ t \notin Pending
  /\ IF Full
     THEN /\ lost' = lost \union {t}
          /\ UNCHANGED << heap, pc, index >>
     ELSE /\ heap' = [heap EXCEPT ![heapSize] = t]
          /\ pc' = "up"
          /\ index' = heapSize
          /\ UNCHANGED lost
  /\ UNCHANGED << heapSize, result >>

SiftUp ==
  /\ pc = "up"
  /\ index > 0
  /\ HasHigherPriority(heap[index], heap[Parent(index)])
  /\ heap' = Swapped(index, Parent(index))
  /\ index' = Parent(index)
  /\ UNCHANGED << heapSize, pc, result, lost >>

Enqueued ==
  /\ pc = "up"
  /\ index > 0 => ~ HasHigherPriority(heap[index], heap[Parent(index)])
  /\ heapSize' = heapSize + 1
  /\ pc' = "idle"
  /\ index' = 0
  /\ UNCHANGED << heap, result, lost >>

DequeueNothing ==
  /\ pc = "idle"
  /\ heapSize = 0
  /\ result' = NoTask
  /\ UNCHANGED << heap, heapSize, pc, index, lost >>

\* The last task goes to the root, and its slot is cleared.
LastMoved == [heap EXCEPT ![0] = heap[heapSize - 1], ![heapSize - 1] = NoTask]

Dequeue ==
  /\ pc = "idle"
  /\ heapSize > 0
  /\ result' = heap[0]
  /\ heap' = LastMoved
  /\ heapSize' = heapSize - 1
  /\ pc' = IF heapSize > 1 THEN "down" ELSE "idle"
  /\ index' = 0
  /\ UNCHANGED lost

\* Mutation: the right child is compared with the parent only.
Smallest_OneChild(i) ==
  IF LeftChild(i) < heapSize /\ HasHigherPriority(heap[LeftChild(i)], heap[i])
  THEN LeftChild(i)
  ELSE IF RightChild(i) < heapSize /\ HasHigherPriority(heap[RightChild(i)], heap[i])
  THEN RightChild(i)
  ELSE i

\* The slot among i and its children that holds the most urgent task.
Smallest(i) ==
  LET left == IF LeftChild(i) < heapSize /\ HasHigherPriority(heap[LeftChild(i)], heap[i])
              THEN LeftChild(i) ELSE i
  IN  IF RightChild(i) < heapSize /\ HasHigherPriority(heap[RightChild(i)], heap[left])
      THEN RightChild(i) ELSE left

SiftDown ==
  /\ pc = "down"
  /\ Smallest(index) # index
  /\ heap' = Swapped(index, Smallest(index))
  /\ index' = Smallest(index)
  /\ UNCHANGED << heapSize, pc, result, lost >>

Dequeued ==
  /\ pc = "down"
  /\ Smallest(index) = index
  /\ pc' = "idle"
  /\ index' = 0
  /\ UNCHANGED << heap, heapSize, result, lost >>

Step == SiftUp \/ Enqueued \/ SiftDown \/ Dequeued

Next ==
  \/ Step
  \/ Dequeue
  \/ DequeueNothing
  \/ \E t \in Tasks : Enqueue(t)

Spec == Init /\ [][Next]_vars

(***************************************************************************)
(* Properties.                                                             *)
(***************************************************************************)
Child(i, j) == j = LeftChild(i) \/ j = RightChild(i)

\* The types, and where index may be while a task is sifted.
TypeOK ==
  /\ heap \in [Slots -> Tasks \union {NoTask}]
  /\ heapSize \in 0 .. Capacity
  /\ pc \in {"idle", "up", "down"}
  /\ pc = "up" => heapSize < Capacity /\ index \in 0 .. heapSize
  /\ pc = "down" => index \in 0 .. heapSize - 1
  /\ pc = "idle" => index = 0
  /\ result \in Tasks \union {NoTask}
  /\ lost \subseteq Tasks

\* The slots in use hold the tasks, each once, and the others are null, also
\* between two swaps: no task is lost or run twice.
EachTaskOnce ==
  /\ \A i \in Slots : heap[i] # NoTask <=> i \in Used
  /\ \A i, j \in Used : heap[i] = heap[j] => i = j

\* The heap is in order but for the task being sifted, and on either side of it
\* the tasks are in order as well, which is what lets a single path of swaps
\* restore the order.
HeapOrder ==
  /\ \A i, j \in Used :
       Child(i, j) /\ ~ (pc = "up" /\ j = index) /\ ~ (pc = "down" /\ i = index)
         => ~ HasHigherPriority(heap[j], heap[i])
  /\ pc # "idle" => \A i, j \in Used :
       Child(i, index) /\ Child(index, j) => ~ HasHigherPriority(heap[j], heap[i])

\* Between operations peek and dequeue see the most urgent task of all.
RootIsFirst ==
  pc = "idle" => \A i \in Used : ~ HasHigherPriority(heap[i], heap[0])

\* The heap is a priority queue: what dequeue returns is the most urgent task,
\* and nothing but a full queue loses one.
Abstract == INSTANCE TaskQueue WITH
              pending <- Pending,
              count <- IF pc = "up" THEN heapSize + 1 ELSE heapSize
ImplementsTaskQueue == Abstract!Spec
=============================================================================
