------------------------ MODULE PriorityQueue_proofs ------------------------
(***************************************************************************)
(* The two ordered trees the program keeps in memory.  The heap keeps its  *)
(* order and its tasks, and implements TaskQueue, for every capacity and   *)
(* every set of tasks.  The AVL trees of the indexes stay balanced and     *)
(* ordered and answer lookups and ranges exactly, for every set of         *)
(* indexes, keys and pages.                                                *)
(***************************************************************************)
EXTENDS PriorityQueue, IndexManager, FiniteSetTheorems, SequenceTheorems, WellFoundedInduction,
        TLAPS

(***************************************************************************)
(* The order of the tasks and the shape of the heap.                       *)
(***************************************************************************)
\* hasHigherPriority is a strict total order of the tasks.
LEMMA PriorityOrder ==
  /\ \A a, b \in Tasks : HasHigherPriority(a, b) => ~ HasHigherPriority(b, a)
  /\ \A a, b \in Tasks : a # b => HasHigherPriority(a, b) \/ HasHigherPriority(b, a)
  /\ \A a, b, c \in Tasks :
       ~ HasHigherPriority(b, a) /\ ~ HasHigherPriority(c, b) => ~ HasHigherPriority(c, a)
<1>1. \A t \in Tasks : t.priority \in Int /\ t.taskId \in Int
  BY TaskAssumption DEF ADMIN, USER
<1>2. \A a, b \in Tasks : a # b => a.taskId # b.taskId
  BY TaskAssumption
<1> QED
  BY <1>1, <1>2 DEF HasHigherPriority

\* parent, leftChild and rightChild fit together.
LEMMA ParentOfChild ==
  /\ \A j \in Nat \ {0} : Parent(j) \in 0 .. j - 1 /\ Child(Parent(j), j)
  /\ \A i, j \in Nat : Child(i, j) => i < j
  /\ \A i, k, j \in Nat : Child(i, j) /\ Child(k, j) => i = k
  BY DEF Parent, Child, LeftChild, RightChild

\* Order of h on the slots below n, but for the tasks below slot k, or slot k and
\* its parent.
Ordered(h, n) == \A i, j \in 0 .. n - 1 : Child(i, j) => ~ HasHigherPriority(h[j], h[i])

Around(h, n, k) == \A i, j \in 0 .. n - 1 :
                     Child(i, k) /\ Child(k, j) => ~ HasHigherPriority(h[j], h[i])

UpOrder(h, n, k) ==
  /\ \A i, j \in 0 .. n - 1 : Child(i, j) /\ j # k => ~ HasHigherPriority(h[j], h[i])
  /\ Around(h, n, k)

DownOrder(h, n, k) ==
  /\ \A i, j \in 0 .. n - 1 : Child(i, j) /\ i # k => ~ HasHigherPriority(h[j], h[i])
  /\ Around(h, n, k)

\* g is h with slots i and j swapped.
Swap(h, g, n, i, j) ==
  /\ g[i] = h[j]
  /\ g[j] = h[i]
  /\ \A k \in 0 .. n - 1 : k # i /\ k # j => g[k] = h[k]

\* A round of siftUp moves the exception to the parent.
LEMMA SiftUpOrder ==
  ASSUME NEW n \in Nat, NEW h, NEW g, NEW k \in 0 .. n - 1, NEW p \in 0 .. n - 1,
         \A i \in 0 .. n - 1 : h[i] \in Tasks,
         UpOrder(h, n, k), Child(p, k), HasHigherPriority(h[k], h[p]), Swap(h, g, n, k, p)
  PROVE  UpOrder(g, n, p)
<1>1. p < k /\ p # k
  BY ParentOfChild
<1>2. ASSUME NEW i \in 0 .. n - 1, NEW j \in 0 .. n - 1, Child(i, j), j # p
      PROVE  ~ HasHigherPriority(g[j], g[i])
  <2>1. i < j
    BY <1>2, ParentOfChild
  <2>2. CASE j = k
    <3>1. i = p
      BY <1>2, <2>2, ParentOfChild
    <3> QED
      BY <2>2, <3>1, PriorityOrder DEF Swap
  <2>3. CASE j # k /\ i = k
    <3>1. ~ HasHigherPriority(h[j], h[p])
      BY <1>2, <2>3 DEF UpOrder, Around
    <3> QED
      BY <1>1, <1>2, <2>1, <2>3, <3>1 DEF Swap
  <2>4. CASE j # k /\ i = p
    <3>1. ~ HasHigherPriority(h[j], h[p]) /\ ~ HasHigherPriority(h[p], h[k])
      BY <1>2, <2>4, PriorityOrder DEF UpOrder
    <3>2. ~ HasHigherPriority(h[j], h[k])
      BY <3>1, PriorityOrder
    <3> QED
      BY <1>2, <2>4, <3>2 DEF Swap
  <2>5. CASE j # k /\ i # k /\ i # p
    BY <1>2, <2>5 DEF Swap, UpOrder
  <2> QED
    BY <2>2, <2>3, <2>4, <2>5
<1>3. ASSUME NEW i \in 0 .. n - 1, NEW j \in 0 .. n - 1, Child(i, p), Child(p, j)
      PROVE  ~ HasHigherPriority(g[j], g[i])
  <2>1. i < p /\ p < j
    BY <1>3, ParentOfChild
  <2>2. ~ HasHigherPriority(h[p], h[i]) /\ g[i] = h[i]
    BY <1>1, <1>3, <2>1 DEF UpOrder, Swap
  <2>3. CASE j = k
    BY <2>2, <2>3 DEF Swap
  <2>4. CASE j # k
    <3>1. ~ HasHigherPriority(h[j], h[p]) /\ g[j] = h[j]
      BY <1>3, <2>1, <2>4 DEF UpOrder, Swap
    <3> QED
      BY <2>2, <3>1, PriorityOrder
  <2> QED
    BY <2>3, <2>4
<1> QED
  BY <1>2, <1>3 DEF UpOrder, Around

\* A round of siftDown moves the exception to the child.
LEMMA SiftDownOrder ==
  ASSUME NEW n \in Nat, NEW h, NEW g, NEW k \in 0 .. n - 1, NEW m \in 0 .. n - 1,
         \A i \in 0 .. n - 1 : h[i] \in Tasks,
         DownOrder(h, n, k), Child(k, m), HasHigherPriority(h[m], h[k]),
         \A j \in 0 .. n - 1 : Child(k, j) => ~ HasHigherPriority(h[j], h[m]),
         Swap(h, g, n, k, m)
  PROVE  DownOrder(g, n, m)
<1>1. k < m /\ k # m
  BY ParentOfChild
<1>2. ASSUME NEW i \in 0 .. n - 1, NEW j \in 0 .. n - 1, Child(i, j), i # m
      PROVE  ~ HasHigherPriority(g[j], g[i])
  <2>1. i < j
    BY <1>2, ParentOfChild
  <2>2. CASE i = k
    <3>1. CASE j = m
      BY <2>2, <3>1, PriorityOrder DEF Swap
    <3>2. CASE j # m
      <4>1. j # k /\ g[j] = h[j] /\ g[i] = h[m]
        BY <2>1, <2>2, <3>2 DEF Swap
      <4> QED
        BY <1>2, <2>2, <4>1
    <3> QED
      BY <3>1, <3>2
  <2>3. CASE i # k /\ j = k
    <3>1. ~ HasHigherPriority(h[m], h[i])
      BY <1>2, <2>3 DEF DownOrder, Around
    <3> QED
      BY <1>2, <2>3, <3>1 DEF Swap
  <2>4. CASE i # k /\ j # k
    <3>1. j # m
      BY <1>2, <2>4, ParentOfChild
    <3> QED
      BY <1>2, <2>4, <3>1 DEF Swap, DownOrder
  <2> QED
    BY <2>2, <2>3, <2>4
<1>3. ASSUME NEW i \in 0 .. n - 1, NEW j \in 0 .. n - 1, Child(i, m), Child(m, j)
      PROVE  ~ HasHigherPriority(g[j], g[i])
  <2>1. i = k /\ m < j
    BY <1>3, ParentOfChild
  <2>2. ~ HasHigherPriority(h[j], h[m])
    BY <1>1, <1>3 DEF DownOrder
  <2> QED
    BY <1>1, <2>1, <2>2 DEF Swap
<1> QED
  BY <1>2, <1>3 DEF DownOrder, Around

\* In an ordered heap nothing is more urgent than the root: the least slot that
\* were would be more urgent than its parent.
LEMMA OrderedRootIsFirst ==
  ASSUME NEW n \in Nat, NEW h, \A i \in 0 .. n - 1 : h[i] \in Tasks, Ordered(h, n)
  PROVE  \A i \in 0 .. n - 1 : ~ HasHigherPriority(h[i], h[0])
<1> DEFINE Bad == {i \in 0 .. n - 1 : HasHigherPriority(h[i], h[0])}
<1>1. SUFFICES ASSUME Bad # {} PROVE FALSE
  OBVIOUS
<1>2. PICK b \in Bad : \A c \in Bad : ~ (c < b)
  <2> DEFINE R == OpToRel(<, Nat)
  <2>1. IsWellFoundedOn(R, Nat)
    BY NatLessThanWellFounded
  <2>2. Bad \subseteq Nat
    OBVIOUS
  <2> HIDE DEF Bad
  <2>3. PICK b \in Bad : \A c \in Bad : ~ (<< c, b >> \in R)
    <3> HIDE DEF R
    <3> QED
      BY <1>1, <2>1, <2>2, WFMin
  <2>4. \A c \in Bad : c < b => << c, b >> \in R
    BY <2>2 DEF OpToRel
  <2> QED
    BY <2>3, <2>4
<1>3. b \in 0 .. n - 1 /\ HasHigherPriority(h[b], h[0])
  OBVIOUS
<1>4. b # 0
  BY <1>3, PriorityOrder
<1>5. Parent(b) \in 0 .. b - 1 /\ Child(Parent(b), b)
  BY <1>3, <1>4, ParentOfChild
<1>6. Parent(b) \in 0 .. n - 1 /\ Parent(b) < b
  BY <1>3, <1>5
<1>7. ~ HasHigherPriority(h[b], h[Parent(b)])
  BY <1>3, <1>5, <1>6 DEF Ordered
<1>8. ~ HasHigherPriority(h[Parent(b)], h[0])
  BY <1>2, <1>6
<1> QED
  BY <1>3, <1>6, <1>7, <1>8, PriorityOrder

(***************************************************************************)
(* The inductive invariant.                                                *)
(***************************************************************************)
IInv == TypeOK /\ EachTaskOnce /\ HeapOrder

\* The number of slots in use.
Count == IF pc = "up" THEN heapSize + 1 ELSE heapSize

\* The slots in use are the first Count ones, and hold tasks.
LEMMA UsedSlots ==
  ASSUME TypeOK, EachTaskOnce
  PROVE  /\ Count \in 0 .. Capacity
         /\ Used = 0 .. Count - 1
         /\ Used \subseteq Slots
         /\ \A i \in Used : heap[i] \in Tasks
<1>1. heapSize \in 0 .. Capacity /\ Capacity \in Nat \ {0} /\ (pc = "up" => heapSize < Capacity)
  BY SlotsAssumption DEF TypeOK
<1>2. Count \in 0 .. Capacity /\ Used = 0 .. Count - 1 /\ Used \subseteq Slots
  BY <1>1 DEF Count, Used, Slots
<1>3. ASSUME NEW i \in Used
      PROVE  heap[i] \in Tasks
  <2>1. i \in Slots
    BY <1>2
  <2>2. heap[i] # NoTask /\ heap[i] \in Tasks \union {NoTask}
    BY <2>1 DEF EachTaskOnce, TypeOK
  <2> QED
    BY <2>2
<1> QED
  BY <1>2, <1>3

\* HeapOrder in each of the three phases.
LEMMA OrderByPhase ==
  ASSUME TypeOK, EachTaskOnce
  PROVE  /\ pc = "idle" => (HeapOrder <=> Ordered(heap, Count))
         /\ pc = "up" => (HeapOrder <=> UpOrder(heap, Count, index))
         /\ pc = "down" => (HeapOrder <=> DownOrder(heap, Count, index))
  BY UsedSlots DEF HeapOrder, Ordered, UpOrder, DownOrder, Around

\* The swap of two slots in use keeps the types, and each task in one place.
LEMMA SwapIInv ==
  ASSUME TypeOK, EachTaskOnce, NEW i \in Used, NEW j \in Used, i # j, pc # "idle",
         heap' = Swapped(i, j), UNCHANGED << heapSize, pc, result, lost >>, index' = j
  PROVE  /\ TypeOK'
         /\ EachTaskOnce'
         /\ Swap(heap, heap', Count, i, j)
         /\ Count' = Count
         /\ Pending' = Pending
<1>1. /\ Count \in 0 .. Capacity
      /\ Used = 0 .. Count - 1
      /\ Used \subseteq Slots
      /\ \A k \in Used : heap[k] \in Tasks
  BY UsedSlots
<1>2. heap \in [Slots -> Tasks \union {NoTask}] /\ i \in Slots /\ j \in Slots
  BY <1>1 DEF TypeOK
<1>3. /\ heap' \in [Slots -> Tasks \union {NoTask}]
      /\ heap'[i] = heap[j]
      /\ heap'[j] = heap[i]
      /\ \A k \in Slots : k # i /\ k # j => heap'[k] = heap[k]
  BY <1>1, <1>2 DEF Swapped
<1>4. Used' = Used /\ Count' = Count
  BY DEF Used, Count
<1>5. TypeOK'
  <2>1. j \in 0 .. Count - 1
    BY <1>1
  <2> QED
    BY <1>3, <2>1, SlotsAssumption DEF TypeOK, Count, Slots
<1>6. EachTaskOnce'
  <2>1. \A k \in Slots : heap'[k] # NoTask <=> k \in Used
    BY <1>2, <1>3 DEF EachTaskOnce
  <2>2. ASSUME NEW k \in Used, NEW l \in Used, heap'[k] = heap'[l]
        PROVE  k = l
    BY <1>1, <1>3, <2>2 DEF EachTaskOnce
  <2> QED
    BY <1>4, <2>1, <2>2 DEF EachTaskOnce, Slots
<1>7. Swap(heap, heap', Count, i, j)
  BY <1>1, <1>3 DEF Swap
<1>8. Pending' = Pending
  <2>1. \A k \in Used : \E l \in Used : heap'[k] = heap[l]
    BY <1>1, <1>3
  <2>2. \A k \in Used : \E l \in Used : heap'[l] = heap[k]
    BY <1>1, <1>3
  <2> QED
    BY <1>4, <2>1, <2>2 DEF Pending
<1> QED
  BY <1>4, <1>5, <1>6, <1>7, <1>8

\* The empty queue.
LEMMA InitIInv == Init => IInv
<1> SUFFICES ASSUME Init PROVE IInv
  OBVIOUS
<1>1. Used = {}
  BY DEF Init, Used
<1>2. TypeOK
  BY SlotsAssumption DEF Init, TypeOK
<1> QED
  BY <1>1, <1>2 DEF Init, IInv, EachTaskOnce, HeapOrder

\* siftUp's exception moves up with the task, and ends at the root.
LEMMA SiftUpIInv ==
  ASSUME IInv, SiftUp
  PROVE  IInv' /\ Pending' = Pending
<1> DEFINE p == Parent(index)
<1>1. /\ Count \in 0 .. Capacity
      /\ Used = 0 .. Count - 1
      /\ \A i \in Used : heap[i] \in Tasks
      /\ pc = "up" /\ pc' = "up"
      /\ index \in 0 .. Count - 1
      /\ Capacity \in Nat
  BY UsedSlots, SlotsAssumption DEF IInv, SiftUp, TypeOK, Count
<1>2. p \in 0 .. index - 1 /\ Child(p, index)
  BY <1>1, ParentOfChild DEF SiftUp
<1>3. index \in Used /\ p \in Used /\ p # index
  BY <1>1, <1>2
<1> HIDE DEF p
<1>4. /\ TypeOK'
      /\ EachTaskOnce'
      /\ Swap(heap, heap', Count, index, p)
      /\ Count' = Count
      /\ Pending' = Pending
  BY <1>3, SwapIInv DEF IInv, SiftUp, p
<1>5. UpOrder(heap, Count, index) /\ HasHigherPriority(heap[index], heap[p])
  BY <1>1, OrderByPhase DEF IInv, SiftUp, p
<1>6. Count \in Nat /\ p \in 0 .. Count - 1
  BY <1>1, <1>3
<1>7. UpOrder(heap', Count, p)
  BY <1>1, <1>2, <1>4, <1>5, <1>6, SiftUpOrder
<1>8. UpOrder(heap', Count', index')
  BY <1>4, <1>7 DEF SiftUp, p
<1>9. HeapOrder'
  <2>1. Used' = 0 .. Count' - 1 /\ pc' # "idle" /\ pc' # "down"
    BY <1>1 DEF Used, Count, SiftUp
  <2> QED
    BY <1>1, <1>8, <2>1 DEF HeapOrder, UpOrder, Around
<1> QED
  BY <1>4, <1>9 DEF IInv

\* What Smallest returns, for a slot in use.
LEMMA SmallestFacts ==
  ASSUME TypeOK, EachTaskOnce, pc = "down"
  PROVE  LET m == Smallest(index)
         IN  /\ m \in Used
             /\ m # index => Child(index, m) /\ HasHigherPriority(heap[m], heap[index])
             /\ \A j \in Used : Child(index, j) => ~ HasHigherPriority(heap[j], heap[m])
<1>1. /\ Used = 0 .. heapSize - 1
      /\ index \in Used
      /\ heapSize \in Nat
      /\ \A i \in Used : heap[i] \in Tasks
  BY UsedSlots, SlotsAssumption DEF TypeOK, Count
<1>2. LeftChild(index) \in Nat /\ RightChild(index) \in Nat
  BY <1>1 DEF LeftChild, RightChild
<1> DEFINE l == LeftChild(index)
           r == RightChild(index)
           left == IF l < heapSize /\ HasHigherPriority(heap[l], heap[index]) THEN l ELSE index
           m == Smallest(index)
<1>3. m = IF r < heapSize /\ HasHigherPriority(heap[r], heap[left]) THEN r ELSE left
  BY DEF Smallest
<1>4. Child(index, l) /\ Child(index, r) /\ \A j \in Used : Child(index, j) => j = l \/ j = r
  BY DEF Child
<1>5. l < heapSize => l \in Used
  BY <1>1, <1>2
<1>6. r < heapSize => r \in Used
  BY <1>1, <1>2
<1>7. \A j \in Used : j < heapSize
  BY <1>1
<1> HIDE DEF l, r, m
<1>8. /\ left \in Used
      /\ left # index => Child(index, left) /\ HasHigherPriority(heap[left], heap[index])
      /\ l < heapSize => ~ HasHigherPriority(heap[l], heap[left])
      /\ ~ HasHigherPriority(heap[index], heap[left])
  BY <1>1, <1>4, <1>5, PriorityOrder
<1> HIDE DEF left
<1>9. CASE r < heapSize /\ HasHigherPriority(heap[r], heap[left])
  <2>1. m = r /\ r \in Used
    BY <1>3, <1>6, <1>9
  <2>2. ~ HasHigherPriority(heap[left], heap[r]) /\ ~ HasHigherPriority(heap[r], heap[r])
    BY <1>6, <1>8, <1>9, <1>1, PriorityOrder
  <2>3. l < heapSize => ~ HasHigherPriority(heap[l], heap[r])
    BY <1>1, <1>5, <1>6, <1>8, <1>9, <2>2, PriorityOrder
  <2>4. HasHigherPriority(heap[r], heap[index])
    <3>1. left = index \/ HasHigherPriority(heap[left], heap[index])
      BY <1>8
    <3>2. ~ HasHigherPriority(heap[index], heap[r])
      BY <1>1, <1>8, <2>1, <2>2, PriorityOrder
    <3>3. heap[index] # heap[r]
      BY <1>1, <1>8, <1>9, <2>1, <2>2
    <3> QED
      BY <1>1, <2>1, <3>2, <3>3, PriorityOrder
  <2> QED
    BY <1>4, <1>7, <2>1, <2>2, <2>3, <2>4 DEF m
<1>10. CASE ~ (r < heapSize /\ HasHigherPriority(heap[r], heap[left]))
  <2>1. m = left
    BY <1>3, <1>10
  <2>2. ASSUME NEW j \in Used, Child(index, j)
        PROVE  ~ HasHigherPriority(heap[j], heap[m])
    <3>1. j = l \/ j = r
      BY <1>4, <2>2
    <3> QED
      BY <1>7, <1>8, <1>10, <2>1, <3>1
  <2> QED
    BY <1>8, <2>1, <2>2 DEF m
<1> QED
  BY <1>9, <1>10

\* siftDown's exception moves down with the task, to the most urgent child.
LEMMA SiftDownIInv ==
  ASSUME IInv, SiftDown
  PROVE  IInv' /\ Pending' = Pending
<1> DEFINE m == Smallest(index)
<1>1. /\ Count \in 0 .. Capacity
      /\ Used = 0 .. Count - 1
      /\ \A i \in Used : heap[i] \in Tasks
      /\ pc = "down" /\ pc' = "down"
      /\ index \in Used
      /\ Capacity \in Nat
  BY UsedSlots, SlotsAssumption DEF IInv, SiftDown, TypeOK, Count
<1>2. /\ m \in Used
      /\ m # index
      /\ Child(index, m)
      /\ HasHigherPriority(heap[m], heap[index])
      /\ \A j \in Used : Child(index, j) => ~ HasHigherPriority(heap[j], heap[m])
  BY <1>1, SmallestFacts DEF IInv, SiftDown
<1>3. heap' = Swapped(index, m) /\ index' = m /\ UNCHANGED << heapSize, pc, result, lost >>
  BY DEF SiftDown
<1> HIDE DEF m
<1>4. /\ TypeOK'
      /\ EachTaskOnce'
      /\ Swap(heap, heap', Count, index, m)
      /\ Count' = Count
      /\ Pending' = Pending
  BY <1>1, <1>2, <1>3, SwapIInv DEF IInv
<1>5. DownOrder(heap, Count, index)
  BY <1>1, OrderByPhase DEF IInv
<1>6. Count \in Nat /\ m \in 0 .. Count - 1 /\ index \in 0 .. Count - 1
  BY <1>1, <1>2
<1>7. DownOrder(heap', Count, m)
  BY <1>1, <1>2, <1>4, <1>5, <1>6, SiftDownOrder
<1>8. HeapOrder'
  <2>1. Used' = 0 .. Count' - 1 /\ pc' # "idle" /\ pc' # "up"
    BY <1>1 DEF Used, Count
  <2> QED
    BY <1>1, <1>3, <1>4, <1>7, <2>1 DEF HeapOrder, DownOrder, Around
<1> QED
  BY <1>4, <1>8 DEF IInv
\* A task is put behind the last slot in use, or refused.
LEMMA EnqueueIInv ==
  ASSUME IInv, NEW t \in Tasks, Enqueue(t)
  PROVE  IInv' /\ Abstract!Enqueue(t)
<1>1. /\ heapSize \in 0 .. Capacity
      /\ Capacity \in Nat \ {0}
      /\ pc = "idle" /\ Count = heapSize /\ Used = 0 .. heapSize - 1
      /\ heap \in [Slots -> Tasks \union {NoTask}]
      /\ \A i \in Slots : heap[i] # NoTask <=> i \in Used
      /\ \A i \in Used : heap[i] # t
      /\ t # NoTask
  BY SlotsAssumption, TaskAssumption
     DEF IInv, TypeOK, EachTaskOnce, Enqueue, Count, Used, Pending
<1>2. CASE Full
  <2>1. UNCHANGED << heap, heapSize, pc, index, result >> /\ lost' = lost \union {t}
    BY <1>2 DEF Enqueue
  <2>2. UNCHANGED << Used, Pending, Count >>
    BY <2>1 DEF Used, Pending, Count
  <2>3. TypeOK'
    BY <2>1 DEF IInv, TypeOK
  <2>4. EachTaskOnce' /\ HeapOrder'
    BY <2>1, <2>2 DEF IInv, EachTaskOnce, HeapOrder, Slots
  <2>5. Abstract!Enqueue(t)
    BY <1>1, <1>2, <2>1, <2>2 DEF Abstract!Enqueue, Enqueue, Full, Count
  <2> QED
    BY <2>3, <2>4, <2>5 DEF IInv
<1>3. CASE ~ Full
  <2>1. /\ heapSize < Capacity
        /\ heapSize \in Slots
        /\ heap' = [heap EXCEPT ![heapSize] = t]
        /\ pc' = "up" /\ index' = heapSize
        /\ UNCHANGED << heapSize, result, lost >>
    BY <1>1, <1>3 DEF Enqueue, Full, Slots
  <2>2. /\ heap' \in [Slots -> Tasks \union {NoTask}]
        /\ heap'[heapSize] = t
        /\ \A i \in Slots : i # heapSize => heap'[i] = heap[i]
    BY <1>1, <2>1
  <2>3. Used' = 0 .. heapSize /\ Used' \subseteq Slots /\ Used' = Used \union {heapSize}
    BY <1>1, <2>1 DEF Used, Slots
  <2>4. heapSize \notin Used /\ Used \subseteq Slots
    BY <1>1 DEF Slots
  <2>5. TypeOK'
    BY <1>1, <2>1, <2>2 DEF IInv, TypeOK, Slots
  <2>6. EachTaskOnce'
    <3>1. \A i \in Slots : heap'[i] # NoTask <=> i \in Used'
      BY <1>1, <2>2, <2>3, <2>4
    <3>2. ASSUME NEW i \in Used', NEW j \in Used', heap'[i] = heap'[j]
          PROVE  i = j
      <4>1. \A k, l \in Used : heap[k] = heap[l] => k = l
        BY DEF IInv, EachTaskOnce
      <4>2. \A k \in Used : heap'[k] = heap[k]
        BY <2>2, <2>4
      <4> QED
        BY <1>1, <2>2, <2>3, <3>2, <4>1, <4>2
    <3> QED
      BY <3>1, <3>2 DEF EachTaskOnce, Slots
  <2>7. HeapOrder'
    <3>1. Ordered(heap, heapSize)
      BY <1>1, OrderByPhase DEF IInv
    <3>2. \A i, j \in 0 .. heapSize : Child(i, j) => i < j
      BY <1>1, ParentOfChild
    <3>3. UpOrder(heap', heapSize + 1, heapSize)
      <4>1. ASSUME NEW i \in 0 .. heapSize, NEW j \in 0 .. heapSize, Child(i, j), j # heapSize
            PROVE  ~ HasHigherPriority(heap'[j], heap'[i])
        <5>1. i \in 0 .. heapSize - 1 /\ j \in 0 .. heapSize - 1
          BY <1>1, <3>2, <4>1
        <5> QED
          BY <1>1, <2>2, <2>4, <3>1, <4>1, <5>1 DEF Ordered
      <4>2. (heapSize + 1) - 1 = heapSize
        BY <1>1
      <4>3. \A j \in 0 .. heapSize : ~ Child(heapSize, j)
        BY <1>1, <3>2
      <4>4. Around(heap', heapSize + 1, heapSize)
        BY <4>2, <4>3 DEF Around
      <4> QED
        BY <4>1, <4>2, <4>4 DEF UpOrder
    <3>4. (heapSize + 1) - 1 = heapSize /\ Used' = 0 .. heapSize
      BY <1>1, <2>3
    <3>5. pc' # "idle" /\ pc' # "down" /\ index' = heapSize
      BY <2>1
    <3>6. ASSUME NEW i \in Used', NEW j \in Used', Child(i, j), j # index'
          PROVE  ~ HasHigherPriority(heap'[j], heap'[i])
      BY <3>3, <3>4, <3>5, <3>6 DEF UpOrder
    <3>7. ASSUME NEW i \in Used', NEW j \in Used', Child(i, index'), Child(index', j)
          PROVE  ~ HasHigherPriority(heap'[j], heap'[i])
      BY <3>3, <3>4, <3>5, <3>7 DEF UpOrder, Around
    <3> QED
      BY <2>1, <3>6, <3>7 DEF HeapOrder
  <2>8. Pending' = Pending \union {t}
    <3>1. \A i \in Used' : heap'[i] = t \/ \E j \in Used : heap'[i] = heap[j]
      BY <2>2, <2>3, <2>4
    <3>2. \A j \in Used : j \in Used' /\ heap'[j] = heap[j]
      BY <2>2, <2>3, <2>4
    <3>3. heapSize \in Used' /\ heap'[heapSize] = t
      BY <2>2, <2>3
    <3> QED
      BY <3>1, <3>2, <3>3 DEF Pending
  <2>9. Abstract!Enqueue(t)
    BY <1>1, <2>1, <2>8 DEF Abstract!Enqueue, Enqueue
  <2> QED
    BY <2>5, <2>6, <2>7, <2>9 DEF IInv
<1> QED
  BY <1>2, <1>3

\* When siftUp stops, the order has no exception left.
LEMMA EnqueuedIInv ==
  ASSUME IInv, Enqueued
  PROVE  IInv' /\ UNCHANGED << Pending, Count, result, lost >>
<1>1. /\ heapSize \in Nat /\ Capacity \in Nat
      /\ pc = "up" /\ pc' = "idle"
      /\ heapSize' = heapSize + 1 /\ index' = 0
      /\ UNCHANGED << heap, result, lost >>
      /\ index \in 0 .. heapSize /\ heapSize < Capacity
  BY SlotsAssumption DEF IInv, TypeOK, Enqueued
<1>2. Used' = Used /\ Used = 0 .. heapSize /\ Count' = Count
  BY <1>1 DEF Used, Count
<1>3. Pending' = Pending
  BY <1>1, <1>2 DEF Pending
<1>4. TypeOK'
  BY <1>1 DEF IInv, TypeOK
<1>5. EachTaskOnce'
  BY <1>1, <1>2 DEF IInv, EachTaskOnce, Slots
<1>6. HeapOrder'
  <2>1. ASSUME NEW i \in Used, NEW j \in Used, Child(i, j)
        PROVE  ~ HasHigherPriority(heap[j], heap[i])
    <3>1. CASE j # index
      BY <1>1, <2>1, <3>1 DEF IInv, HeapOrder
    <3>2. CASE j = index
      <4>1. i < j /\ index > 0
        BY <1>1, <1>2, <2>1, <3>2, ParentOfChild
      <4>2. Child(Parent(j), j) /\ Parent(j) \in Nat
        BY <1>1, <1>2, <3>2, <4>1, ParentOfChild
      <4>3. i = Parent(j)
        BY <1>1, <1>2, <2>1, <4>2, ParentOfChild
      <4> QED
        BY <3>2, <4>1, <4>3 DEF Enqueued
    <3> QED
      BY <3>1, <3>2
  <2> QED
    BY <1>1, <1>2, <2>1 DEF HeapOrder
<1> QED
  BY <1>1, <1>2, <1>3, <1>4, <1>5, <1>6 DEF IInv

\* When siftDown stops, the order has no exception left.
LEMMA DequeuedIInv ==
  ASSUME IInv, Dequeued
  PROVE  IInv' /\ UNCHANGED << Pending, Count, result, lost >>
<1>1. /\ pc = "down" /\ pc' = "idle" /\ index' = 0
      /\ UNCHANGED << heap, heapSize, result, lost >>
  BY DEF Dequeued
<1>2. UNCHANGED << Used, Count >>
  BY <1>1 DEF Used, Count
<1>3. Pending' = Pending
  BY <1>1, <1>2 DEF Pending
<1>4. TypeOK'
  BY <1>1 DEF IInv, TypeOK
<1>5. EachTaskOnce'
  BY <1>1, <1>2 DEF IInv, EachTaskOnce, Slots
<1>6. HeapOrder'
  <2>1. \A j \in Used : Child(index, j) => ~ HasHigherPriority(heap[j], heap[index])
    BY <1>1, SmallestFacts DEF IInv, Dequeued
  <2> QED
    BY <1>1, <1>2, <2>1 DEF IInv, HeapOrder
<1> QED
  BY <1>1, <1>2, <1>3, <1>4, <1>5, <1>6 DEF IInv
\* Between operations the root is the most urgent of the tasks.
LEMMA RootFacts == IInv => RootIsFirst
<1> SUFFICES ASSUME IInv, pc = "idle"
             PROVE  \A i \in Used : ~ HasHigherPriority(heap[i], heap[0])
  BY DEF RootIsFirst
<1>1. Used = 0 .. Count - 1 /\ Count \in Nat /\ \A i \in Used : heap[i] \in Tasks
  BY UsedSlots, SlotsAssumption DEF IInv
<1>2. Ordered(heap, Count)
  BY OrderByPhase DEF IInv
<1> QED
  BY <1>1, <1>2, OrderedRootIsFirst

\* The root is taken, the last task goes to the root, and its slot is cleared.
LEMMA DequeueIInv ==
  ASSUME IInv, Dequeue
  PROVE  IInv' /\ Abstract!Dequeue
<1>1. /\ heapSize \in Nat \ {0} /\ heapSize <= Capacity /\ Capacity \in Nat
      /\ pc = "idle" /\ Count = heapSize /\ Used = 0 .. heapSize - 1
      /\ heap \in [Slots -> Tasks \union {NoTask}]
      /\ \A i \in Slots : heap[i] # NoTask <=> i \in Used
      /\ \A i, j \in Used : heap[i] = heap[j] => i = j
      /\ \A i \in Used : heap[i] \in Tasks
  BY SlotsAssumption, UsedSlots DEF IInv, TypeOK, EachTaskOnce, Dequeue, Count, Used
<1> DEFINE n == heapSize - 1
<1>2. /\ n \in Nat /\ n + 1 = heapSize /\ 0 \in Slots /\ n \in Slots /\ 0 \in Used /\ n \in Used
      /\ n < Capacity
  BY <1>1 DEF Slots
<1>3. /\ heapSize' = n /\ index' = 0 /\ result' = heap[0]
      /\ pc' = IF n > 0 THEN "down" ELSE "idle"
      /\ heap' = [heap EXCEPT ![0] = heap[n], ![n] = NoTask]
      /\ lost' = lost
  BY <1>1 DEF Dequeue, LastMoved
<1>4. Used' = 0 .. n - 1 /\ Count' = n
  BY <1>2, <1>3 DEF Used, Count
<1>5. Used = 0 .. n
  BY <1>1
<1> HIDE DEF n
<1>6. /\ heap' \in [Slots -> Tasks \union {NoTask}]
      /\ heap'[n] = NoTask
      /\ n # 0 => heap'[0] = heap[n]
      /\ \A i \in Slots : i # 0 /\ i # n => heap'[i] = heap[i]
  BY <1>1, <1>2, <1>3
<1>7. Used' \subseteq Slots /\ Used' \subseteq Used /\ n \notin Used' /\ (n # 0 => 0 \in Used')
  BY <1>1, <1>2, <1>4, <1>5 DEF Slots
<1>8. TypeOK'
  <2>1. heap[0] \in Tasks
    BY <1>1, <1>2
  <2> QED
    BY <1>1, <1>2, <1>3, <1>6, <2>1 DEF IInv, TypeOK, Slots
<1>9. EachTaskOnce'
  <2>1. ASSUME NEW i \in Slots
        PROVE  heap'[i] # NoTask <=> i \in Used'
    <3>1. CASE i = n
      BY <1>6, <1>7, <3>1
    <3>2. CASE i # n /\ i = 0
      BY <1>1, <1>2, <1>6, <1>7, <3>2
    <3>3. CASE i # n /\ i # 0
      <4>1. heap'[i] = heap[i]
        BY <1>6, <3>3
      <4>2. i \in Used <=> i \in Used'
        BY <1>2, <1>4, <1>5, <3>3 DEF Slots
      <4> QED
        BY <1>1, <4>1, <4>2
    <3> QED
      BY <3>1, <3>2, <3>3
  <2>2. ASSUME NEW i \in Used', NEW j \in Used', heap'[i] = heap'[j]
        PROVE  i = j
    <3>1. \A k \in Used' : k \in Used /\ k # n /\ heap'[k] = IF k = 0 THEN heap[n] ELSE heap[k]
      BY <1>6, <1>7
    <3> QED
      BY <1>1, <1>2, <2>2, <3>1
  <2> QED
    BY <2>1, <2>2 DEF EachTaskOnce, Slots
<1>10. HeapOrder'
  <2>1. \A i, j \in Used' : Child(i, j) => i < j
    BY <1>2, <1>4, ParentOfChild
  <2>2. ASSUME NEW i \in Used', NEW j \in Used', Child(i, j), i # 0
        PROVE  ~ HasHigherPriority(heap'[j], heap'[i])
    <3>1. i \in Used /\ j \in Used /\ j # 0
      BY <1>4, <1>7, <2>1, <2>2
    <3>2. heap'[i] = heap[i] /\ heap'[j] = heap[j]
      BY <1>6, <1>7, <2>2, <3>1
    <3>3. ~ HasHigherPriority(heap[j], heap[i])
      BY <1>1, <2>2, <3>1 DEF IInv, HeapOrder
    <3> QED
      BY <3>2, <3>3
  <2>3. \A i \in Used' : ~ Child(i, 0)
    BY <1>2, <1>4, ParentOfChild
  <2>4. pc' # "up" /\ (pc' = "idle" => Used' = {}) /\ (pc' # "idle" => pc' = "down")
    BY <1>2, <1>3, <1>4
  <2> QED
    BY <1>3, <2>2, <2>3, <2>4 DEF HeapOrder
<1>11. Pending' = Pending \ {heap[0]}
  <2>1. ASSUME NEW i \in Used'
        PROVE  heap'[i] \in Pending \ {heap[0]}
    <3>1. CASE i = 0
      <4>1. heap'[i] = heap[n] /\ n # 0
        BY <1>6, <1>7, <3>1
      <4> QED
        BY <1>1, <1>2, <4>1 DEF Pending
    <3>2. CASE i # 0
      <4>1. heap'[i] = heap[i] /\ i \in Used
        BY <1>6, <1>7, <3>2
      <4> QED
        BY <1>1, <1>2, <3>2, <4>1 DEF Pending
    <3> QED
      BY <3>1, <3>2
  <2>2. ASSUME NEW k \in Used, heap[k] # heap[0]
        PROVE  \E i \in Used' : heap'[i] = heap[k]
    <3>1. CASE k = n
      <4>1. n # 0
        BY <2>2, <3>1
      <4> QED
        BY <1>6, <1>7, <3>1, <4>1
    <3>2. CASE k # n
      <4>1. k # 0 /\ k \in Used' /\ k \in Slots
        BY <1>2, <1>4, <1>5, <1>7, <2>2, <3>2
      <4> QED
        BY <1>6, <3>2, <4>1
    <3> QED
      BY <3>1, <3>2
  <2> QED
    BY <2>1, <2>2 DEF Pending
<1>12. Abstract!Dequeue
  <2>1. heap[0] \in Pending
    BY <1>2 DEF Pending
  <2>2. \A u \in Pending : ~ Abstract!Before(u, heap[0])
    BY <1>1, RootFacts DEF RootIsFirst, Pending, Abstract!Before, HasHigherPriority
  <2>3. Count' = Count - 1
    BY <1>1, <1>2, <1>4
  <2> QED
    BY <1>3, <1>11, <2>1, <2>2, <2>3 DEF Abstract!Dequeue, Count
<1> QED
  BY <1>8, <1>9, <1>10, <1>12 DEF IInv

\* An empty queue has nothing to give.
LEMMA DequeueNothingIInv ==
  ASSUME IInv, DequeueNothing
  PROVE  IInv' /\ Abstract!DequeueNothing
<1>1. UNCHANGED << heap, heapSize, pc, index, lost >> /\ result' = NoTask
  BY DEF DequeueNothing
<1>2. UNCHANGED << Used, Pending, Count >>
  BY <1>1 DEF Used, Pending, Count
<1>3. Pending = {}
  BY DEF DequeueNothing, Pending, Used
<1>4. IInv'
  BY <1>1, <1>2 DEF IInv, TypeOK, EachTaskOnce, HeapOrder, Slots
<1>5. Abstract!DequeueNothing
  BY <1>1, <1>2, <1>3 DEF Abstract!DequeueNothing, Count
<1> QED
  BY <1>4, <1>5

\* Every step keeps the invariant, and is a step of TaskQueue or none.
LEMMA StepIInv == IInv /\ [Next]_vars => IInv' /\ [Abstract!Next]_(Abstract!vars)
<1> SUFFICES ASSUME IInv, [Next]_vars
             PROVE  IInv' /\ [Abstract!Next]_(Abstract!vars)
  OBVIOUS
<1>1. ASSUME NEW t \in Tasks, Enqueue(t)
      PROVE  IInv' /\ [Abstract!Next]_(Abstract!vars)
  BY <1>1, EnqueueIInv DEF Abstract!Next
<1>2. ASSUME UNCHANGED << Pending, Count, result, lost >>
      PROVE  UNCHANGED Abstract!vars
  BY <1>2 DEF Abstract!vars, Count
<1>3. CASE SiftUp
  <2>1. UNCHANGED << Count, result, lost >>
    BY <1>3 DEF SiftUp, Count
  <2> QED
    BY <1>2, <1>3, <2>1, SiftUpIInv
<1>4. CASE Enqueued
  BY <1>2, <1>4, EnqueuedIInv
<1>5. CASE SiftDown
  <2>1. UNCHANGED << Count, result, lost >>
    BY <1>5 DEF SiftDown, Count
  <2> QED
    BY <1>2, <1>5, <2>1, SiftDownIInv
<1>6. CASE Dequeued
  BY <1>2, <1>6, DequeuedIInv
<1>7. CASE Dequeue
  BY <1>7, DequeueIInv DEF Abstract!Next
<1>8. CASE DequeueNothing
  BY <1>8, DequeueNothingIInv DEF Abstract!Next
<1>9. CASE UNCHANGED vars
  <2>1. UNCHANGED << Used, Pending, Count >>
    BY <1>9 DEF vars, Used, Pending, Count
  <2>2. UNCHANGED << heap, heapSize, pc, index, result, lost >>
    BY <1>9 DEF vars
  <2>3. IInv'
    BY <2>1, <2>2 DEF IInv, TypeOK, EachTaskOnce, HeapOrder, Slots
  <2> QED
    BY <1>2, <2>1, <2>2, <2>3
<1> QED
  BY <1>1, <1>3, <1>4, <1>5, <1>6, <1>7, <1>8, <1>9 DEF Next, Step

(***************************************************************************)
(* The theorems.                                                           *)
(***************************************************************************)
\* IInv holds in every state.
THEOREM Invariance == Spec => []IInv
  BY InitIInv, StepIInv, PTL DEF Spec

\* The slots that siftUp and siftDown visit are in the array.
THEOREM TypeCorrectness == Spec => []TypeOK
<1>1. IInv => TypeOK
  BY DEF IInv
<1> QED
  BY <1>1, Invariance, PTL

\* No task is lost or duplicated inside the heap.
THEOREM NoTaskLostOrDoubled == Spec => []EachTaskOnce
<1>1. IInv => EachTaskOnce
  BY DEF IInv
<1> QED
  BY <1>1, Invariance, PTL

\* The order of the heap, with the one exception that sifting has.
THEOREM OrderHolds == Spec => []HeapOrder
<1>1. IInv => HeapOrder
  BY DEF IInv
<1> QED
  BY <1>1, Invariance, PTL

\* peek sees the most urgent task.
THEOREM PeekIsFirst == Spec => []RootIsFirst
  BY Invariance, RootFacts, PTL

\* The heap implements TaskQueue, for every capacity.
THEOREM Refinement == Spec => ImplementsTaskQueue
<1>1. Init => Abstract!Init
  <2> SUFFICES ASSUME Init PROVE Abstract!Init
    OBVIOUS
  <2>1. Pending = {} /\ Count = 0
    BY DEF Init, Pending, Used, Count
  <2> QED
    BY <2>1 DEF Init, Abstract!Init, Count
<1>2. IInv /\ [Next]_vars => [Abstract!Next]_(Abstract!vars)
  BY StepIInv
<1> QED
  BY <1>1, <1>2, Invariance, PTL DEF Spec, ImplementsTaskQueue, Abstract!Spec

(***************************************************************************)
(* Induction over the natural numbers.                                     *)
(***************************************************************************)
\* A set of numbers has a least one.
LEMMA LeastOf ==
  ASSUME NEW S \in SUBSET Nat, S # {}
  PROVE  \E m \in S : \A n \in S : m <= n
<1> DEFINE R == OpToRel(<, Nat)
<1>1. IsWellFoundedOn(R, Nat)
  BY NatLessThanWellFounded, Zenon
<1>2. \A x, y \in Nat : y < x => << y, x >> \in R
  BY DEF OpToRel
<1> HIDE DEF R
<1>3. PICK m \in S : \A n \in S : ~ (<< n, m >> \in R)
  BY <1>1, WFMin, Zenon
<1>4. ASSUME NEW n \in S
      PROVE  ~ (n < m)
  BY <1>2, <1>3, Zenon
<1> QED
  BY <1>4

\* A set that 0 is in, and with every number the next, has all of them.
LEMMA AllOfNat ==
  ASSUME NEW S, 0 \in S, \A i \in Nat : i \in S => i + 1 \in S
  PROVE  \A i \in Nat : i \in S
<1> DEFINE Missing == {i \in Nat : i \notin S}
<1>1. SUFFICES ASSUME Missing # {}
               PROVE  FALSE
  OBVIOUS
<1>2. Missing \in SUBSET Nat
  OBVIOUS
<1>3. PICK i \in Missing : \A m \in Missing : i <= m
  BY <1>1, <1>2, LeastOf
<1>4. i \in Nat /\ i # 0 /\ i - 1 \in Nat
  BY <1>3
<1>5. i - 1 \notin Missing
  BY <1>3, <1>4
<1>6. i - 1 \in S
  BY <1>4, <1>5
<1>7. (i - 1) + 1 \in S
  BY <1>4, <1>6
<1> QED
  BY <1>3, <1>4, <1>7

(***************************************************************************)
(* The sets of balanced trees.                                             *)
(***************************************************************************)
Grown(lower) ==
  {NoNode} \union {t \in [key : Int, pageId : Nat, left : lower, right : lower, height : Nat] :
                     t = Updated(t) /\ BalanceFactor(t) \in -1 .. 1}

Level(f, n) == IF n = 0 THEN {NoNode} ELSE Grown(f[n - 1])

\* There is a sequence of the sets, however long.
LEMMA LevelsExist ==
  \A n \in Nat : \E f : f = [i \in 0 .. n |-> Level(f, i)]
<1> DEFINE S == {n \in Nat : \E f : f = [i \in 0 .. n |-> Level(f, i)]}
<1>1. 0 \in S
  <2> DEFINE f == [i \in 0 .. 0 |-> {NoNode}]
  <2>1. \A i \in 0 .. 0 : Level(f, i) = {NoNode}
    BY DEF Level
  <2>2. f = [i \in 0 .. 0 |-> Level(f, i)]
    BY <2>1
  <2> QED
    BY <2>2
<1>2. ASSUME NEW n \in Nat, n \in S
      PROVE  n + 1 \in S
  <2>1. PICK f : f = [i \in 0 .. n |-> Level(f, i)]
    BY <1>2
  <2> DEFINE g == [i \in 0 .. n + 1 |-> Level(f, i)]
  <2>2. \A i \in 0 .. n : f[i] = Level(f, i)
    BY <2>1
  <2>3. \A i \in 0 .. n : g[i] = f[i]
    BY <2>2
  <2>4. \A i \in 0 .. n + 1 : i # 0 => i - 1 \in 0 .. n
    OBVIOUS
  <2> HIDE DEF g
  <2>5. \A i \in 0 .. n + 1 : Level(g, i) = Level(f, i)
    BY <2>3, <2>4 DEF Level
  <2>6. g = [i \in 0 .. n + 1 |-> Level(g, i)]
    BY <2>5 DEF g
  <2> QED
    BY <2>6
<1> HIDE DEF S
<1>3. \A n \in Nat : n \in S
  BY <1>1, <1>2, AllOfNat
<1> QED
  BY <1>3 DEF S

\* Any two of the sequences agree.
LEMMA LevelsAgree ==
  ASSUME NEW m \in Nat, NEW n \in Nat,
         NEW f, f = [i \in 0 .. m |-> Level(f, i)],
         NEW g, g = [i \in 0 .. n |-> Level(g, i)]
  PROVE  \A i \in Nat : i <= m /\ i <= n => f[i] = g[i]
<1> DEFINE S == {i \in Nat : i <= m /\ i <= n => f[i] = g[i]}
<1>0. /\ \A i \in 0 .. m : f[i] = Level(f, i)
      /\ \A i \in 0 .. n : g[i] = Level(g, i)
  <2>1. \A i \in 0 .. m : [j \in 0 .. m |-> Level(f, j)][i] = Level(f, i)
    OBVIOUS
  <2>2. \A i \in 0 .. n : [j \in 0 .. n |-> Level(g, j)][i] = Level(g, i)
    OBVIOUS
  <2> QED
    BY <2>1, <2>2
<1>1. 0 \in S
  <2>1. 0 \in 0 .. m /\ 0 \in 0 .. n
    OBVIOUS
  <2>2. f[0] = Level(f, 0) /\ g[0] = Level(g, 0)
    BY <1>0, <2>1
  <2> QED
    BY <2>2 DEF Level
<1>2. ASSUME NEW i \in Nat, i \in S
      PROVE  i + 1 \in S
  <2>1. SUFFICES ASSUME i + 1 <= m, i + 1 <= n
                 PROVE  f[i + 1] = g[i + 1]
    OBVIOUS
  <2>2. f[i + 1] = Level(f, i + 1) /\ g[i + 1] = Level(g, i + 1)
    BY <1>0, <2>1
  <2>3. (i + 1) - 1 = i /\ i + 1 # 0 /\ f[i] = g[i]
    BY <1>2, <2>1
  <2> QED
    BY <2>2, <2>3 DEF Level
<1> HIDE DEF S
<1>3. \A i \in Nat : i \in S
  BY <1>1, <1>2, AllOfNat
<1> QED
  BY <1>3 DEF S

\* The trees of n + 1 levels are the ones grown from those of n.
LEMMA TreesAre ==
  /\ Trees[0] = {NoNode}
  /\ \A n \in Nat : Trees[n + 1] = Grown(Trees[n])
<1> DEFINE Part(n) == CHOOSE f : f = [i \in 0 .. n |-> Level(f, i)]
           all == [n \in Nat |-> Part(n)[n]]
           Is(f) == f = [n \in Nat |-> Level(f, n)]
<1>1. ASSUME NEW n \in Nat
      PROVE  Part(n) = [i \in 0 .. n |-> Level(Part(n), i)]
  BY LevelsExist
<1> HIDE DEF Part
<1>2. ASSUME NEW n \in Nat, n # 0
      PROVE  Part(n)[n - 1] = all[n - 1]
  <2>1. n - 1 \in Nat /\ n - 1 <= n
    BY <1>2
  <2>2. Part(n)[n - 1] = Part(n - 1)[n - 1]
    BY <1>1, <2>1, LevelsAgree
  <2> QED
    BY <2>1, <2>2
<1>3. ASSUME NEW n \in Nat
      PROVE  all[n] = Level(all, n)
  <2>1. Part(n)[n] = Level(Part(n), n)
    <3>1. [i \in 0 .. n |-> Level(Part(n), i)][n] = Level(Part(n), n)
      OBVIOUS
    <3> QED
      BY <1>1, <3>1
  <2>2. Level(Part(n), n) = Level(all, n)
    <3> HIDE DEF all
    <3> QED
      BY <1>2 DEF Level
  <2> QED
    BY <2>1, <2>2
<1>4. Is(all)
  <2>1. all = [n \in Nat |-> all[n]]
    OBVIOUS
  <2> HIDE DEF all
  <2> QED
    BY <1>3, <2>1
<1>5. Trees = CHOOSE f : Is(f)
  BY DEF Trees, Level, Grown
<1>6. Is(Trees)
  BY <1>4, <1>5
<1>7. \A n \in Nat : Trees[n] = Level(Trees, n)
  <2>1. \A n \in Nat : [i \in Nat |-> Level(Trees, i)][n] = Level(Trees, n)
    OBVIOUS
  <2> QED
    BY <1>6, <2>1
<1>8. \A n \in Nat : n + 1 \in Nat /\ n + 1 # 0 /\ (n + 1) - 1 = n
  OBVIOUS
<1> QED
  BY <1>7, <1>8 DEF Level

\* The trees of any height, and what of them the code's structs are.
Avl == UNION {Trees[n] : n \in Nat}

IsNode(t) == t = [key |-> t.key, pageId |-> t.pageId, left |-> t.left, right |-> t.right,
                  height |-> t.height]

Higher(a, b) == IF a > b THEN a ELSE b

Make(k, page, l, r) ==
  [key |-> k, pageId |-> page, left |-> l, right |-> r,
   height |-> Higher(Height(l), Height(r)) + 1]

\* A tree other than NoNode is grown if it is made of two lower ones that balance.
LEMMA GrownIs ==
  ASSUME NEW lower, NEW t, t # NoNode
  PROVE  t \in Grown(lower) <=>
           /\ t \in [key : Int, pageId : Nat, left : lower, right : lower, height : Nat]
           /\ t.height = Higher(Height(t.left), Height(t.right)) + 1
           /\ Height(t.left) - Height(t.right) \in -1 .. 1
<1> DEFINE h == Higher(Height(t.left), Height(t.right)) + 1
           R == [key : Int, pageId : Nat, left : lower, right : lower, height : Nat]
<1>1. t \in Grown(lower) <=> t \in R /\ t = Updated(t) /\ BalanceFactor(t) \in -1 .. 1
  BY DEF Grown
<1>2. BalanceFactor(t) = Height(t.left) - Height(t.right)
  BY DEF BalanceFactor
<1>3. Updated(t) = [t EXCEPT !.height = h]
  BY DEF Updated, Higher
<1> HIDE DEF h
<1>4. ASSUME t \in R
      PROVE  t = Updated(t) <=> t.height = h
  BY <1>3, <1>4
<1> QED
  BY <1>1, <1>2, <1>4 DEF h

\* No tree is lost with a level more.
LEMMA TreesGrow ==
  /\ \A n \in Nat : NoNode \in Trees[n]
  /\ \A n \in Nat : Trees[n] \subseteq Trees[n + 1]
  /\ \A m, n \in Nat : m <= n => Trees[m] \subseteq Trees[n]
<1>1. \A n \in Nat : NoNode \in Trees[n]
  <2>1. NoNode \in Trees[0]
    BY TreesAre
  <2>2. \A n \in Nat : NoNode \in Trees[n + 1]
    BY TreesAre DEF Grown
  <2>3. \A n \in Nat : n # 0 => n - 1 \in Nat /\ (n - 1) + 1 = n
    OBVIOUS
  <2> QED
    BY <2>1, <2>2, <2>3
<1>2. \A n \in Nat : Trees[n] \subseteq Trees[n + 1]
  <2> DEFINE S == {n \in Nat : Trees[n] \subseteq Trees[n + 1]}
  <2>1. 0 \in S
    BY <1>1, TreesAre
  <2>2. ASSUME NEW n \in Nat, n \in S
        PROVE  n + 1 \in S
    <3>1. Trees[n] \subseteq Trees[n + 1]
      BY <2>2
    <3>2. ASSUME NEW t \in Trees[n + 1], t # NoNode
          PROVE  t \in Trees[(n + 1) + 1]
      <4>1. t \in Grown(Trees[n])
        BY <3>2, TreesAre
      <4>2. t \in Grown(Trees[n + 1])
        BY <3>1, <3>2, <4>1, GrownIs
      <4>3. n + 1 \in Nat
        OBVIOUS
      <4> QED
        BY <4>2, <4>3, TreesAre
    <3>3. n + 1 \in Nat
      OBVIOUS
    <3>4. NoNode \in Trees[(n + 1) + 1]
      BY <1>1, <3>3
    <3> QED
      BY <3>2, <3>3, <3>4
  <2> HIDE DEF S
  <2>3. \A n \in Nat : n \in S
    BY <2>1, <2>2, AllOfNat
  <2> QED
    BY <2>3 DEF S
<1>3. \A m, n \in Nat : m <= n => Trees[m] \subseteq Trees[n]
  <2> SUFFICES ASSUME NEW m \in Nat
               PROVE  \A n \in Nat : m <= n => Trees[m] \subseteq Trees[n]
    OBVIOUS
  <2> DEFINE S == {n \in Nat : m <= n => Trees[m] \subseteq Trees[n]}
  <2>1. 0 \in S
    OBVIOUS
  <2>2. ASSUME NEW n \in Nat, n \in S
        PROVE  n + 1 \in S
    <3>1. CASE m = n + 1
      BY <3>1
    <3>2. CASE m # n + 1
      <4>1. m <= n + 1 => m <= n
        BY <3>2
      <4> QED
        BY <1>2, <2>2, <4>1
    <3> QED
      BY <3>1, <3>2
  <2> HIDE DEF S
  <2>3. \A n \in Nat : n \in S
    BY <2>1, <2>2, AllOfNat
  <2> QED
    BY <2>3 DEF S
<1> QED
  BY <1>1, <1>2, <1>3

LEMMA NoNodeIs == NoNode \in Avl /\ Height(NoNode) = 0 /\ Trees[0] = {NoNode}
<1>1. NoNode \in Trees[0]
  BY TreesGrow
<1> QED
  BY <1>1, TreesAre DEF Avl, Height

\* A tree is in the set of its height.
LEMMA TreeIs ==
  /\ \A n \in Nat : \A t \in Trees[n] : Height(t) \in 0 .. n
  /\ \A t \in Avl : /\ Height(t) \in Nat
                    /\ t \in Trees[Height(t)]
                    /\ t = NoNode <=> Height(t) = 0
<1> DEFINE Fine(t, n) == /\ Height(t) \in 0 .. n /\ t \in Trees[Height(t)]
                         /\ t = NoNode <=> Height(t) = 0
           S == {n \in Nat : \A t \in Trees[n] : Fine(t, n)}
<1>1. 0 \in S
  BY NoNodeIs
<1>2. ASSUME NEW n \in Nat, n \in S
      PROVE  n + 1 \in S
  <2>1. ASSUME NEW t \in Trees[n + 1], t # NoNode
        PROVE  Fine(t, n + 1)
    <3> DEFINE h == Higher(Height(t.left), Height(t.right))
    <3>1. t \in Grown(Trees[n])
      BY TreesAre
    <3>2. /\ t \in [key : Int, pageId : Nat, left : Trees[n], right : Trees[n], height : Nat]
          /\ t.height = h + 1
          /\ Height(t.left) - Height(t.right) \in -1 .. 1
      BY <2>1, <3>1, GrownIs
    <3>3. Fine(t.left, n) /\ Fine(t.right, n)
      BY <1>2, <3>2
    <3>4. h \in 0 .. n /\ Height(t.left) \in 0 .. h /\ Height(t.right) \in 0 .. h
      BY <3>3 DEF Higher
    <3> HIDE DEF h
    <3>5. t.left \in Trees[h] /\ t.right \in Trees[h]
      <4>1. /\ Height(t.left) \in Nat /\ Height(t.left) <= h
            /\ Height(t.right) \in Nat /\ Height(t.right) <= h /\ h \in Nat
        BY <3>4
      <4> QED
        BY <3>3, <4>1, TreesGrow
    <3>6. t \in [key : Int, pageId : Nat, left : Trees[h], right : Trees[h], height : Nat]
      BY <3>2, <3>5
    <3>7. t \in Grown(Trees[h])
      BY <2>1, <3>2, <3>6, GrownIs DEF h
    <3>8. t \in Trees[h + 1] /\ h + 1 \in 1 .. n + 1
      BY <3>4, <3>7, TreesAre
    <3>9. Height(t) = h + 1
      BY <2>1, <3>2 DEF Height
    <3> QED
      BY <2>1, <3>8, <3>9
  <2>2. Fine(NoNode, n + 1)
    BY NoNodeIs
  <2>3. n + 1 \in Nat
    OBVIOUS
  <2> HIDE DEF Fine
  <2> QED
    BY <2>1, <2>2, <2>3
<1> HIDE DEF S
<1>3. \A n \in Nat : n \in S
  BY <1>1, <1>2, AllOfNat
<1>4. \A n \in Nat : \A t \in Trees[n] : Fine(t, n)
  BY <1>3 DEF S
<1>5. \A n \in Nat : \A t \in Trees[n] : Height(t) \in 0 .. n
  BY <1>4
<1>6. ASSUME NEW t \in Avl
      PROVE  /\ Height(t) \in Nat /\ t \in Trees[Height(t)]
             /\ t = NoNode <=> Height(t) = 0
  <2>1. PICK n \in Nat : t \in Trees[n]
    BY DEF Avl
  <2> QED
    BY <1>4, <2>1
<1> QED
  BY <1>5, <1>6

\* A node of a tree, its subtrees and its shape.
LEMMA NodeIs ==
  ASSUME NEW t \in Avl, t # NoNode
  PROVE  /\ t.key \in Int /\ t.pageId \in Nat
         /\ t.left \in Avl /\ t.right \in Avl
         /\ Height(t.left) \in Nat /\ Height(t.right) \in Nat
         /\ Height(t.left) - Height(t.right) \in -1 .. 1
         /\ Height(t) = t.height
         /\ Height(t) = Higher(Height(t.left), Height(t.right)) + 1
         /\ IsNode(t)
         /\ t = Make(t.key, t.pageId, t.left, t.right)
         /\ \A n \in Nat : t \in Trees[n + 1] => t.left \in Trees[n] /\ t.right \in Trees[n]
<1> DEFINE h == Height(t)
<1>1. h \in Nat /\ t \in Trees[h] /\ h # 0
  BY TreeIs
<1>2. h - 1 \in Nat /\ (h - 1) + 1 = h
  BY <1>1
<1>3. ASSUME NEW n \in Nat, t \in Trees[n + 1]
      PROVE  /\ t \in [key : Int, pageId : Nat, left : Trees[n], right : Trees[n], height : Nat]
             /\ t.height = Higher(Height(t.left), Height(t.right)) + 1
             /\ Height(t.left) - Height(t.right) \in -1 .. 1
  <2>1. t \in Grown(Trees[n])
    BY <1>3, TreesAre
  <2> QED
    BY <2>1, GrownIs
<1> HIDE DEF h
<1>4. /\ t \in [key : Int, pageId : Nat, left : Trees[h - 1], right : Trees[h - 1], height : Nat]
      /\ t.height = Higher(Height(t.left), Height(t.right)) + 1
      /\ Height(t.left) - Height(t.right) \in -1 .. 1
  BY <1>1, <1>2, <1>3
<1>5. IsNode(t)
  BY <1>4 DEF IsNode
<1>6. t.left \in Avl /\ t.right \in Avl /\ t.key \in Int /\ t.pageId \in Nat
  BY <1>2, <1>4 DEF Avl
<1>7. Height(t.left) \in Nat /\ Height(t.right) \in Nat
  BY <1>6, TreeIs
<1>8. Height(t) = t.height
  BY DEF Height
<1>9. t = Make(t.key, t.pageId, t.left, t.right)
  BY <1>4, <1>5 DEF IsNode, Make
<1>10. \A n \in Nat : t \in Trees[n + 1] => t.left \in Trees[n] /\ t.right \in Trees[n]
  BY <1>3
<1> QED
  BY <1>4, <1>5, <1>6, <1>7, <1>8, <1>9, <1>10

\* A node made of trees of nearly the same height is one.
LEMMA MakeIs ==
  ASSUME NEW k \in Int, NEW page \in Nat, NEW l \in Avl, NEW r \in Avl,
         Height(l) - Height(r) \in -1 .. 1
  PROVE  /\ Make(k, page, l, r) \in Avl
         /\ Make(k, page, l, r) # NoNode
         /\ Height(Make(k, page, l, r)) = Higher(Height(l), Height(r)) + 1
<1> DEFINE t == Make(k, page, l, r)
           h == Higher(Height(l), Height(r))
<1>1. /\ Height(l) \in Nat /\ l \in Trees[Height(l)]
      /\ Height(r) \in Nat /\ r \in Trees[Height(r)]
  BY TreeIs
<1>2. h \in Nat /\ Height(l) <= h /\ Height(r) <= h
  BY <1>1 DEF Higher
<1> HIDE DEF h
<1>3. l \in Trees[h] /\ r \in Trees[h]
  BY <1>1, <1>2, TreesGrow
<1>4. /\ t.key = k /\ t.pageId = page /\ t.left = l /\ t.right = r /\ t.height = h + 1
      /\ t \in [key : Int, pageId : Nat, left : Trees[h], right : Trees[h], height : Nat]
  BY <1>2, <1>3 DEF Make, h
<1> HIDE DEF t
<1>5. t # NoNode
  BY <1>2, <1>4 DEF NoNode
<1>6. t \in Grown(Trees[h])
  BY <1>4, <1>5, GrownIs DEF h
<1>7. t \in Trees[h + 1] /\ h + 1 \in Nat
  BY <1>2, <1>6, TreesAre
<1>8. t \in Avl
  BY <1>7 DEF Avl
<1>9. Height(t) = h + 1
  BY <1>4, <1>5 DEF Height
<1> QED
  BY <1>5, <1>8, <1>9 DEF t, h


\* Induction over the trees.
LEMMA TreeInduction ==
  ASSUME NEW S, NoNode \in S,
         \A t \in Avl : t # NoNode /\ t.left \in S /\ t.right \in S => t \in S
  PROVE  \A t \in Avl : t \in S
<1> DEFINE N == {n \in Nat : Trees[n] \subseteq S}
<1>1. 0 \in N
  BY NoNodeIs
<1>2. ASSUME NEW n \in Nat, n \in N
      PROVE  n + 1 \in N
  <2>1. n + 1 \in Nat /\ Trees[n] \subseteq S
    BY <1>2
  <2>2. ASSUME NEW t \in Trees[n + 1]
        PROVE  t \in S
    <3>1. t \in Avl
      BY <2>1 DEF Avl
    <3>2. CASE t # NoNode
      BY <2>1, <3>1, <3>2, NodeIs
    <3> QED
      BY <3>2
  <2> QED
    BY <2>1, <2>2
<1> HIDE DEF N
<1>3. \A n \in Nat : n \in N
  BY <1>1, <1>2, AllOfNat
<1>4. \A n \in Nat : Trees[n] \subseteq S
  BY <1>3 DEF N
<1> QED
  BY <1>4 DEF Avl

\* The subtrees are where the functions of the recursions are defined.
LEMMA SubtreesIn ==
  ASSUME NEW n \in Nat, NEW t \in Trees[n], t # NoNode
  PROVE  /\ n # 0 /\ n - 1 \in Nat /\ (n - 1) + 1 = n
         /\ t \in Avl
         /\ t.left \in Trees[n - 1] /\ t.right \in Trees[n - 1]
         /\ t.left \in Trees[n] /\ t.right \in Trees[n]
<1>1. n # 0
  BY TreesAre
<1>2. n - 1 \in Nat /\ (n - 1) + 1 = n /\ n - 1 <= n
  BY <1>1
<1>3. t \in Avl
  BY DEF Avl
<1>4. t.left \in Trees[n - 1] /\ t.right \in Trees[n - 1]
  BY <1>2, <1>3, NodeIs
<1>5. Trees[n - 1] \subseteq Trees[n]
  BY <1>2, TreesGrow
<1> QED
  BY <1>1, <1>2, <1>3, <1>4, <1>5

(***************************************************************************)
(* The descent for a key.                                                  *)
(***************************************************************************)
NodeBody(f, k, t) ==
  IF t = NoNode THEN NoNode
  ELSE CASE k < t.key -> f[t.left]
         [] k > t.key -> f[t.right]
         [] OTHER     -> t

\* The recursion of NodeAt has a solution over the trees of any height.
LEMMA NodeFunction ==
  ASSUME NEW k
  PROVE  \A n \in Nat : \E f : f = [t \in Trees[n] |-> NodeBody(f, k, t)]
<1> DEFINE S == {n \in Nat : \E f : f = [t \in Trees[n] |-> NodeBody(f, k, t)]}
<1>1. 0 \in S
  <2> DEFINE f == [t \in Trees[0] |-> NoNode]
  <2>1. \A t \in Trees[0] : NodeBody(f, k, t) = NoNode
    BY NoNodeIs DEF NodeBody
  <2>2. f = [t \in Trees[0] |-> NodeBody(f, k, t)]
    BY <2>1
  <2> QED
    BY <2>2
<1>2. ASSUME NEW n \in Nat, n \in S
      PROVE  n + 1 \in S
  <2>1. PICK f : f = [t \in Trees[n] |-> NodeBody(f, k, t)]
    BY <1>2
  <2> DEFINE g == [t \in Trees[n + 1] |-> NodeBody(f, k, t)]
  <2>2. \A t \in Trees[n] : f[t] = NodeBody(f, k, t)
    <3>1. \A t \in Trees[n] : [s \in Trees[n] |-> NodeBody(f, k, s)][t] = NodeBody(f, k, t)
      OBVIOUS
    <3> QED
      BY <2>1, <3>1
  <2>3. \A t \in Trees[n] : g[t] = f[t]
    BY <2>2, TreesGrow
  <2>4. \A t \in Trees[n + 1] : t # NoNode => t.left \in Trees[n] /\ t.right \in Trees[n]
    <3>1. n + 1 \in Nat /\ (n + 1) - 1 = n
      OBVIOUS
    <3> QED
      BY <3>1, SubtreesIn
  <2> HIDE DEF g
  <2>5. \A t \in Trees[n + 1] : NodeBody(g, k, t) = NodeBody(f, k, t)
    BY <2>3, <2>4 DEF NodeBody
  <2>6. g = [t \in Trees[n + 1] |-> NodeBody(g, k, t)]
    BY <2>5 DEF g
  <2> QED
    BY <2>6
<1> HIDE DEF S
<1>3. \A n \in Nat : n \in S
  BY <1>1, <1>2, AllOfNat
<1> QED
  BY <1>3 DEF S

Descent(n, k) == CHOOSE f : f = [t \in Trees[n] |-> NodeBody(f, k, t)]

\* The function NodeAt chooses is such a solution.
LEMMA DescentIs ==
  ASSUME NEW n \in Nat, NEW k
  PROVE  /\ \A t \in Trees[n] : Descent(n, k)[t] = NodeBody(Descent(n, k), k, t)
         /\ \A root : Height(root) = n => NodeAt(root, k) = Descent(n, k)[root]
<1>1. Descent(n, k) = [t \in Trees[n] |-> NodeBody(Descent(n, k), k, t)]
  BY NodeFunction DEF Descent
<1>2. \A t \in Trees[n] : [s \in Trees[n] |-> NodeBody(Descent(n, k), k, s)][t] =
          NodeBody(Descent(n, k), k, t)
  OBVIOUS
<1>3. \A root : Height(root) = n => NodeAt(root, k) = Descent(n, k)[root]
  BY DEF NodeAt, Descent, NodeBody
<1> QED
  BY <1>1, <1>2, <1>3

\* Where the descent ends does not depend on the height it is defined up to.
LEMMA DescentsAgree ==
  ASSUME NEW k
  PROVE  \A t \in Avl : \A m, n \in Nat :
           t \in Trees[m] /\ t \in Trees[n] => Descent(m, k)[t] = Descent(n, k)[t]
<1> DEFINE S == {t \in Avl : \A m, n \in Nat :
                   t \in Trees[m] /\ t \in Trees[n] => Descent(m, k)[t] = Descent(n, k)[t]}
<1>1. NoNode \in S
  BY NoNodeIs, DescentIs DEF NodeBody
<1>2. ASSUME NEW t \in Avl, t # NoNode, t.left \in S, t.right \in S
      PROVE  t \in S
  <2>1. ASSUME NEW m \in Nat, NEW n \in Nat, t \in Trees[m], t \in Trees[n]
        PROVE  Descent(m, k)[t] = Descent(n, k)[t]
    <3>1. /\ t.left \in Trees[m] /\ t.right \in Trees[m]
          /\ t.left \in Trees[n] /\ t.right \in Trees[n]
      BY <1>2, <2>1, SubtreesIn
    <3>2. /\ Descent(m, k)[t.left] = Descent(n, k)[t.left]
          /\ Descent(m, k)[t.right] = Descent(n, k)[t.right]
      BY <1>2, <3>1
    <3>3. /\ Descent(m, k)[t] = NodeBody(Descent(m, k), k, t)
          /\ Descent(n, k)[t] = NodeBody(Descent(n, k), k, t)
      BY <2>1, DescentIs
    <3> QED
      BY <3>2, <3>3 DEF NodeBody
  <2> QED
    BY <2>1
<1> HIDE DEF S
<1>3. \A t \in Avl : t \in S
  BY <1>1, <1>2, TreeInduction
<1> QED
  BY <1>3 DEF S

\* The descent, a step at a time, whatever height it starts at.
LEMMA NodeAtIs ==
  ASSUME NEW t \in Avl, NEW k \in Int
  PROVE  /\ NodeAt(NoNode, k) = NoNode
         /\ t # NoNode => NodeAt(t, k) = IF k < t.key THEN NodeAt(t.left, k)
                                         ELSE IF k > t.key THEN NodeAt(t.right, k) ELSE t
<1>1. NodeAt(NoNode, k) = NoNode
  <2>1. Descent(0, k)[NoNode] = NoNode
    BY NoNodeIs, DescentIs DEF NodeBody
  <2> QED
    BY <2>1, NoNodeIs, DescentIs
<1>2. ASSUME t # NoNode
      PROVE  NodeAt(t, k) = IF k < t.key THEN NodeAt(t.left, k)
                            ELSE IF k > t.key THEN NodeAt(t.right, k) ELSE t
  <2> DEFINE n == Height(t)
  <2>1. n \in Nat /\ t \in Trees[n]
    BY TreeIs
  <2>2. /\ t.left \in Avl /\ t.right \in Avl /\ t.left \in Trees[n] /\ t.right \in Trees[n]
        /\ t.key \in Int
    BY <1>2, <2>1, SubtreesIn, NodeIs
  <2>3. NodeAt(t, k) = NodeBody(Descent(n, k), k, t)
    BY <2>1, DescentIs
  <2>4. \A s \in Avl : s \in Trees[n] => NodeAt(s, k) = Descent(n, k)[s]
    <3>1. SUFFICES ASSUME NEW s \in Avl, s \in Trees[n]
                   PROVE  NodeAt(s, k) = Descent(n, k)[s]
      OBVIOUS
    <3>2. Height(s) \in Nat /\ s \in Trees[Height(s)]
      BY TreeIs
    <3>3. NodeAt(s, k) = Descent(Height(s), k)[s]
      BY <3>2, DescentIs
    <3> HIDE DEF n
    <3> QED
      BY <2>1, <3>1, <3>2, <3>3, DescentsAgree
  <2> HIDE DEF n
  <2>5. NodeAt(t.left, k) = Descent(n, k)[t.left] /\ NodeAt(t.right, k) = Descent(n, k)[t.right]
    BY <2>2, <2>4
  <2>6. k < t.key \/ k > t.key \/ k = t.key
    BY <2>2
  <2> QED
    BY <1>2, <2>2, <2>3, <2>5, <2>6 DEF NodeBody
<1> QED
  BY <1>1, <1>2

\* What a search finds in a tree is found in one of its subtrees or at its root.
LEMMA SearchIs ==
  ASSUME NEW k \in Int
  PROVE  /\ Search(NoNode, k) = -1
         /\ \A t \in Avl : t # NoNode =>
              Search(t, k) = IF k < t.key THEN Search(t.left, k)
                             ELSE IF k > t.key THEN Search(t.right, k) ELSE t.pageId
         /\ \A t \in Avl : /\ Search(t, k) \in Nat \union {-1}
                           /\ NodeAt(t, k) = NoNode <=> Search(t, k) = -1
<1>1. Search(NoNode, k) = -1
  BY NoNodeIs, NodeAtIs DEF Search
<1>2. ASSUME NEW t \in Avl, t # NoNode
      PROVE  Search(t, k) = IF k < t.key THEN Search(t.left, k)
                            ELSE IF k > t.key THEN Search(t.right, k) ELSE t.pageId
  BY <1>2, NodeAtIs DEF Search
<1>3. \A t \in Avl : NodeAt(t, k) \in Avl
  <2> DEFINE S == {t \in Avl : NodeAt(t, k) \in Avl}
  <2>1. NoNode \in S
    BY NoNodeIs, NodeAtIs
  <2>2. ASSUME NEW t \in Avl, t # NoNode, t.left \in S, t.right \in S
        PROVE  t \in S
    BY <2>2, NodeAtIs
  <2> HIDE DEF S
  <2>3. \A t \in Avl : t \in S
    BY <2>1, <2>2, TreeInduction
  <2> QED
    BY <2>3 DEF S
<1>4. ASSUME NEW t \in Avl
      PROVE  /\ Search(t, k) \in Nat \union {-1}
             /\ NodeAt(t, k) = NoNode <=> Search(t, k) = -1
  <2>1. CASE NodeAt(t, k) = NoNode
    BY <2>1 DEF Search
  <2>2. CASE NodeAt(t, k) # NoNode
    <3>1. NodeAt(t, k).pageId \in Nat
      BY <1>3, <2>2, NodeIs
    <3> QED
      BY <2>2, <3>1 DEF Search
  <2> QED
    BY <2>1, <2>2
<1> QED
  BY <1>1, <1>2, <1>4

(***************************************************************************)
(* The order of the keys.  A tree is ordered between two bounds if its     *)
(* subtrees are, with its key as the bound between them.                   *)
(***************************************************************************)
InOrderAt(S, t, lo, hi) ==
  t # NoNode => /\ lo < t.key /\ t.key < hi
                /\ << t.left, lo, t.key >> \in S
                /\ << t.right, t.key, hi >> \in S

InOrderAll(S) == \A t, lo, hi : << t, lo, hi >> \in S => InOrderAt(S, t, lo, hi)

InOrder(t, lo, hi) == \E S : << t, lo, hi >> \in S /\ InOrderAll(S)

\* The order of a tree is that of its subtrees, with its key between them.
LEMMA InOrderIs ==
  ASSUME NEW t, NEW lo, NEW hi
  PROVE  /\ InOrder(NoNode, lo, hi)
         /\ t # NoNode =>
              (InOrder(t, lo, hi) <=> /\ lo < t.key /\ t.key < hi
                                      /\ InOrder(t.left, lo, t.key)
                                      /\ InOrder(t.right, t.key, hi))
<1>1. InOrder(NoNode, lo, hi)
  <2> DEFINE S == {<< NoNode, lo, hi >>}
  <2>1. InOrderAll(S)
    BY DEF InOrderAll, InOrderAt
  <2> QED
    BY <2>1 DEF InOrder
<1>2. ASSUME t # NoNode, InOrder(t, lo, hi)
      PROVE  /\ lo < t.key /\ t.key < hi
             /\ InOrder(t.left, lo, t.key)
             /\ InOrder(t.right, t.key, hi)
  <2>1. PICK S : << t, lo, hi >> \in S /\ InOrderAll(S)
    BY <1>2 DEF InOrder
  <2>2. InOrderAt(S, t, lo, hi)
    BY <2>1 DEF InOrderAll
  <2> QED
    BY <1>2, <2>1, <2>2 DEF InOrder, InOrderAt
<1>3. ASSUME t # NoNode, lo < t.key, t.key < hi,
             InOrder(t.left, lo, t.key), InOrder(t.right, t.key, hi)
      PROVE  InOrder(t, lo, hi)
  <2>1. PICK S1 : << t.left, lo, t.key >> \in S1 /\ InOrderAll(S1)
    BY <1>3 DEF InOrder
  <2>2. PICK S2 : << t.right, t.key, hi >> \in S2 /\ InOrderAll(S2)
    BY <1>3 DEF InOrder
  <2> DEFINE S == (S1 \union S2) \union {<< t, lo, hi >>}
  <2>3. ASSUME NEW s, NEW l, NEW h, << s, l, h >> \in S
        PROVE  InOrderAt(S, s, l, h)
    <3>1. CASE << s, l, h >> \in S1
      BY <2>1, <3>1 DEF InOrderAll, InOrderAt
    <3>2. CASE << s, l, h >> \in S2
      BY <2>2, <3>2 DEF InOrderAll, InOrderAt
    <3>3. CASE << s, l, h >> = << t, lo, hi >>
      <4>1. s = t /\ l = lo /\ h = hi
        BY <3>3
      <4> QED
        BY <1>3, <2>1, <2>2, <4>1 DEF InOrderAt
    <3> QED
      BY <2>3, <3>1, <3>2, <3>3
  <2>4. InOrderAll(S) /\ << t, lo, hi >> \in S
    <3>1. << t, lo, hi >> \in S
      OBVIOUS
    <3> HIDE DEF S
    <3> QED
      BY <2>3, <3>1 DEF InOrderAll
  <2> QED
    BY <2>4 DEF InOrder
<1> QED
  BY <1>1, <1>2, <1>3

\* The keys of an ordered tree are between its bounds.
LEMMA FoundBetween ==
  ASSUME NEW t \in Avl, NEW lo \in Int, NEW hi \in Int, InOrder(t, lo, hi), NEW k \in Int,
         Search(t, k) # -1
  PROVE  lo < k /\ k < hi
<1> DEFINE Fine(s) == \A l, h \in Int : InOrder(s, l, h) /\ Search(s, k) # -1 => l < k /\ k < h
           S == {s \in Avl : Fine(s)}
<1>1. NoNode \in S
  BY NoNodeIs, SearchIs
<1>2. ASSUME NEW s \in Avl, s # NoNode, s.left \in S, s.right \in S
      PROVE  s \in S
  <2>1. ASSUME NEW l \in Int, NEW h \in Int, InOrder(s, l, h), Search(s, k) # -1
        PROVE  l < k /\ k < h
    <3>1. /\ l < s.key /\ s.key < h /\ s.key \in Int
          /\ InOrder(s.left, l, s.key) /\ InOrder(s.right, s.key, h)
      BY <1>2, <2>1, InOrderIs, NodeIs
    <3>2. CASE k < s.key
      <4>1. Search(s.left, k) # -1
        BY <1>2, <2>1, <3>2, SearchIs
      <4> QED
        BY <1>2, <3>1, <3>2, <4>1
    <3>3. CASE k > s.key
      <4>1. Search(s.right, k) # -1
        BY <1>2, <2>1, <3>1, <3>3, SearchIs
      <4>2. s.key < k /\ k < h
        BY <1>2, <3>1, <4>1
      <4> QED
        BY <3>1, <4>2
    <3> QED
      BY <3>1, <3>2, <3>3
  <2> QED
    BY <2>1
<1> HIDE DEF S
<1>3. \A s \in Avl : s \in S
  BY <1>1, <1>2, TreeInduction
<1> QED
  BY <1>3 DEF S

\* Between any bounds its keys are between, a tree is ordered.
LEMMA InOrderBetween ==
  ASSUME NEW t \in Avl, NEW lo \in Int, NEW hi \in Int, InOrder(t, lo, hi),
         NEW lo2 \in Int, NEW hi2 \in Int,
         \A k \in Int : Search(t, k) # -1 => lo2 < k /\ k < hi2
  PROVE  InOrder(t, lo2, hi2)
<1> DEFINE Within(s, l, h) == \A k \in Int : Search(s, k) # -1 => l < k /\ k < h
           Fine(s) == \A l, h, l2, h2 \in Int : InOrder(s, l, h) /\ Within(s, l2, h2) => InOrder(s, l2, h2)
           S == {s \in Avl : Fine(s)}
<1>1. NoNode \in S
  BY NoNodeIs, InOrderIs
<1>2. ASSUME NEW s \in Avl, s # NoNode, s.left \in S, s.right \in S
      PROVE  s \in S
  <2>1. ASSUME NEW l \in Int, NEW h \in Int, NEW l2 \in Int, NEW h2 \in Int,
               InOrder(s, l, h), Within(s, l2, h2)
        PROVE  InOrder(s, l2, h2)
    <3>1. /\ l < s.key /\ s.key < h /\ s.key \in Int /\ s.pageId \in Nat
          /\ s.left \in Avl /\ s.right \in Avl
          /\ InOrder(s.left, l, s.key) /\ InOrder(s.right, s.key, h)
      BY <1>2, <2>1, InOrderIs, NodeIs
    <3>2. Search(s, s.key) # -1
      BY <1>2, <3>1, SearchIs
    <3>3. l2 < s.key /\ s.key < h2
      BY <2>1, <3>1, <3>2
    <3>4. ASSUME NEW k \in Int, Search(s.left, k) # -1
          PROVE  l2 < k /\ k < s.key
      <4>1. k < s.key
        BY <3>1, <3>4, FoundBetween
      <4>2. Search(s, k) # -1
        BY <1>2, <3>4, <4>1, SearchIs
      <4> QED
        BY <2>1, <4>1, <4>2
    <3>5. ASSUME NEW k \in Int, Search(s.right, k) # -1
          PROVE  s.key < k /\ k < h2
      <4>1. k > s.key
        BY <3>1, <3>5, FoundBetween
      <4>2. Search(s, k) # -1
        BY <1>2, <3>1, <3>5, <4>1, SearchIs
      <4> QED
        BY <2>1, <4>1, <4>2
    <3>6. Within(s.left, l2, s.key) /\ Within(s.right, s.key, h2)
      BY <3>4, <3>5
    <3>7. Fine(s.left) /\ Fine(s.right)
      BY <1>2
    <3> HIDE DEF Within
    <3>8. InOrder(s.left, l2, s.key) /\ InOrder(s.right, s.key, h2)
      BY <3>1, <3>6, <3>7
    <3> QED
      BY <1>2, <3>3, <3>8, InOrderIs
  <2> HIDE DEF Within
  <2> QED
    BY <2>1
<1> HIDE DEF S
<1>3. \A s \in Avl : s \in S
  BY <1>1, <1>2, TreeInduction
<1>4. Within(t, lo2, hi2)
  OBVIOUS
<1>5. Fine(t)
  BY <1>3 DEF S
<1> HIDE DEF Within
<1> QED
  BY <1>4, <1>5


(***************************************************************************)
(* Rotations.  What a node is made of is in the code's struct.             *)
(***************************************************************************)
LEMMA MadeIs ==
  ASSUME NEW k, NEW page, NEW l, NEW r
  PROVE  /\ Make(k, page, l, r).key = k /\ Make(k, page, l, r).pageId = page
         /\ Make(k, page, l, r).left = l /\ Make(k, page, l, r).right = r
         /\ IsNode(Make(k, page, l, r))
         /\ \A h : LET t == [key |-> k, pageId |-> page, left |-> l, right |-> r, height |-> h]
                   IN  /\ Updated(t) = Make(k, page, l, r)
                       /\ IsNode(t)
BY DEF Make, IsNode, Updated, Higher

\* updateHeight of a node whose subtrees were exchanged.
LEMMA UpdatedIs ==
  ASSUME NEW t, IsNode(t), NEW x
  PROVE  /\ Updated(t) = Make(t.key, t.pageId, t.left, t.right)
         /\ Updated([t EXCEPT !.left = x]) = Make(t.key, t.pageId, x, t.right)
         /\ Updated([t EXCEPT !.right = x]) = Make(t.key, t.pageId, t.left, x)
         /\ IsNode([t EXCEPT !.left = x]) /\ IsNode([t EXCEPT !.right = x])
<1> DEFINE Node(k, page, l, r, h) ==
             [key |-> k, pageId |-> page, left |-> l, right |-> r, height |-> h]
<1>1. t = Node(t.key, t.pageId, t.left, t.right, t.height)
  BY DEF IsNode
<1>2. [t EXCEPT !.left = x] = Node(t.key, t.pageId, x, t.right, t.height)
  BY <1>1
<1>3. [t EXCEPT !.right = x] = Node(t.key, t.pageId, t.left, x, t.height)
  BY <1>1
<1>4. \A k, page, l, r, h : /\ Updated(Node(k, page, l, r, h)) = Make(k, page, l, r)
                            /\ IsNode(Node(k, page, l, r, h))
  BY MadeIs
<1> HIDE DEF Node
<1>5. Updated(t) = Make(t.key, t.pageId, t.left, t.right)
  BY <1>1, <1>4
<1>6. /\ Updated([t EXCEPT !.left = x]) = Make(t.key, t.pageId, x, t.right)
      /\ IsNode([t EXCEPT !.left = x])
  BY <1>2, <1>4
<1>7. /\ Updated([t EXCEPT !.right = x]) = Make(t.key, t.pageId, t.left, x)
      /\ IsNode([t EXCEPT !.right = x])
  BY <1>3, <1>4
<1> QED
  BY <1>5, <1>6, <1>7

\* The rotations, of nodes with children enough.
LEMMA RotateRightIs ==
  ASSUME NEW t, IsNode(t), IsNode(t.left)
  PROVE  RotateRight(t) = Make(t.left.key, t.left.pageId, t.left.left,
                               Make(t.key, t.pageId, t.left.right, t.right))
<1> DEFINE inner == Updated([t EXCEPT !.left = t.left.right])
<1>1. inner = Make(t.key, t.pageId, t.left.right, t.right)
  BY UpdatedIs
<1> HIDE DEF inner
<1>2. Updated([t.left EXCEPT !.right = inner]) = Make(t.left.key, t.left.pageId, t.left.left, inner)
  BY UpdatedIs
<1> QED
  BY <1>1, <1>2 DEF RotateRight, inner

LEMMA RotateLeftIs ==
  ASSUME NEW t, IsNode(t), IsNode(t.right)
  PROVE  RotateLeft(t) = Make(t.right.key, t.right.pageId,
                              Make(t.key, t.pageId, t.left, t.right.left), t.right.right)
<1> DEFINE inner == Updated([t EXCEPT !.right = t.right.left])
<1>1. inner = Make(t.key, t.pageId, t.left, t.right.left)
  BY UpdatedIs
<1> HIDE DEF inner
<1>2. Updated([t.right EXCEPT !.left = inner]) = Make(t.right.key, t.right.pageId, inner, t.right.right)
  BY UpdatedIs
<1> QED
  BY <1>1, <1>2 DEF RotateLeft, inner

LEMMA RotateLeftRightIs ==
  ASSUME NEW t, IsNode(t), IsNode(t.left), IsNode(t.left.right)
  PROVE  RotateLeftRight(t) =
           Make(t.left.right.key, t.left.right.pageId,
                Make(t.left.key, t.left.pageId, t.left.left, t.left.right.left),
                Make(t.key, t.pageId, t.left.right.right, t.right))
<1> DEFINE l == RotateLeft(t.left)
           u == [t EXCEPT !.left = l]
<1>1. l = Make(t.left.right.key, t.left.right.pageId,
               Make(t.left.key, t.left.pageId, t.left.left, t.left.right.left), t.left.right.right)
  BY RotateLeftIs
<1> DEFINE a == Make(t.left.key, t.left.pageId, t.left.left, t.left.right.left)
<1>2. IsNode(u) /\ u.left = l /\ u.key = t.key /\ u.pageId = t.pageId /\ u.right = t.right
  <2> HIDE DEF l
  <2>1. IsNode(u)
    BY UpdatedIs
  <2>2. t = [key |-> t.key, pageId |-> t.pageId, left |-> t.left, right |-> t.right, height |-> t.height]
    BY DEF IsNode
  <2> QED
    BY <2>1, <2>2
<1>3. RotateLeftRight(t) = RotateRight(u)
  BY DEF RotateLeftRight
<1> HIDE DEF l, u, a
<1>4. /\ IsNode(l) /\ l.key = t.left.right.key /\ l.pageId = t.left.right.pageId
      /\ l.left = a /\ l.right = t.left.right.right
  BY <1>1, MadeIs DEF a
<1>5. RotateRight(u) = Make(u.left.key, u.left.pageId, u.left.left, Make(u.key, u.pageId, u.left.right, u.right))
  BY <1>2, <1>4, RotateRightIs
<1> QED
  BY <1>2, <1>3, <1>4, <1>5 DEF a

LEMMA RotateRightLeftIs ==
  ASSUME NEW t, IsNode(t), IsNode(t.right), IsNode(t.right.left)
  PROVE  RotateRightLeft(t) =
           Make(t.right.left.key, t.right.left.pageId,
                Make(t.key, t.pageId, t.left, t.right.left.left),
                Make(t.right.key, t.right.pageId, t.right.left.right, t.right.right))
<1> DEFINE r == RotateRight(t.right)
           u == [t EXCEPT !.right = r]
<1>1. r = Make(t.right.left.key, t.right.left.pageId, t.right.left.left,
               Make(t.right.key, t.right.pageId, t.right.left.right, t.right.right))
  BY RotateRightIs
<1> DEFINE a == Make(t.right.key, t.right.pageId, t.right.left.right, t.right.right)
<1>2. IsNode(u) /\ u.right = r /\ u.key = t.key /\ u.pageId = t.pageId /\ u.left = t.left
  <2> HIDE DEF r
  <2>1. IsNode(u)
    BY UpdatedIs
  <2>2. t = [key |-> t.key, pageId |-> t.pageId, left |-> t.left, right |-> t.right, height |-> t.height]
    BY DEF IsNode
  <2> QED
    BY <2>1, <2>2
<1>3. RotateRightLeft(t) = RotateLeft(u)
  BY DEF RotateRightLeft
<1> HIDE DEF r, u, a
<1>4. /\ IsNode(r) /\ r.key = t.right.left.key /\ r.pageId = t.right.left.pageId
      /\ r.right = a /\ r.left = t.right.left.left
  BY <1>1, MadeIs DEF a
<1>5. RotateLeft(u) = Make(u.right.key, u.right.pageId, Make(u.key, u.pageId, u.left, u.right.left), u.right.right)
  BY <1>2, <1>4, RotateLeftIs
<1> QED
  BY <1>2, <1>3, <1>4, <1>5 DEF a

(***************************************************************************)
(* Rebalancing a node of two trees whose heights differ by two at most.    *)
(***************************************************************************)
\* What is to be found in a node of l and r under its key.
Either(k, page, l, r, j) ==
  IF j < k THEN Search(l, j) ELSE IF j > k THEN Search(r, j) ELSE page

\* Search and order of a node made of two trees.
LEMMA SearchMade ==
  ASSUME NEW k \in Int, NEW page, NEW l, NEW r, Make(k, page, l, r) \in Avl,
         Make(k, page, l, r) # NoNode, NEW j \in Int
  PROVE  Search(Make(k, page, l, r), j) = Either(k, page, l, r, j)
BY SearchIs, MadeIs DEF Either

LEMMA InOrderMade ==
  ASSUME NEW k, NEW page, NEW l, NEW r, Make(k, page, l, r) # NoNode, NEW lo, NEW hi
  PROVE  InOrder(Make(k, page, l, r), lo, hi) <=>
           lo < k /\ k < hi /\ InOrder(l, lo, k) /\ InOrder(r, k, hi)
BY InOrderIs, MadeIs

\* One rotation to the right, as values.
LEMMA SingleRight ==
  ASSUME NEW k \in Int, NEW page \in Nat, NEW l \in Avl, NEW r \in Avl, l # NoNode,
         Height(l) - Height(r) = 2, Height(l.left) - Height(l.right) >= 0,
         NEW lo \in Int, NEW hi \in Int, lo < k, k < hi, InOrder(l, lo, k), InOrder(r, k, hi)
  PROVE  LET m == Make(l.key, l.pageId, l.left, Make(k, page, l.right, r))
         IN  /\ m \in Avl /\ m # NoNode /\ InOrder(m, lo, hi)
             /\ Height(m) \in Height(l) .. Height(l) + 1
             /\ \A j \in Int : Search(m, j) = Either(k, page, l, r, j)
<1> DEFINE a == Make(k, page, l.right, r)
           m == Make(l.key, l.pageId, l.left, a)
<1>1. /\ l.key \in Int /\ l.pageId \in Nat /\ l.left \in Avl /\ l.right \in Avl
      /\ Height(l.left) \in Nat /\ Height(l.right) \in Nat /\ Height(r) \in Nat
      /\ Height(l.left) - Height(l.right) \in 0 .. 1
      /\ Height(l) = Height(l.left) + 1
  BY NodeIs, TreeIs DEF Higher
<1>2. Height(l.right) - Height(r) \in 0 .. 1 /\ Height(l.left) = Height(r) + 1
  BY <1>1
<1>3. a \in Avl /\ a # NoNode /\ Height(a) = Height(l.right) + 1
  BY <1>1, <1>2, MakeIs DEF Higher
<1>4. Height(l.left) - Height(a) \in -1 .. 0
  BY <1>1, <1>3
<1> HIDE DEF a
<1>5. m \in Avl /\ m # NoNode /\ Height(m) = Height(a) + 1
  <2>1. Height(l.left) - Height(a) \in -1 .. 1
    BY <1>4
  <2>2. m \in Avl /\ m # NoNode /\ Height(m) = Higher(Height(l.left), Height(a)) + 1
    BY <1>1, <1>3, <2>1, MakeIs
  <2> HIDE DEF m
  <2> QED
    BY <1>1, <1>3, <1>4, <2>2 DEF Higher
<1>6. Height(m) \in Height(l) .. Height(l) + 1
  BY <1>1, <1>2, <1>3, <1>5
<1>7. lo < l.key /\ l.key < k /\ InOrder(l.left, lo, l.key) /\ InOrder(l.right, l.key, k)
  BY InOrderIs
<1>8. InOrder(a, l.key, hi)
  BY <1>3, <1>7, InOrderMade DEF a
<1>9. l.key < hi
  BY <1>1, <1>7
<1>10. InOrder(m, lo, hi)
  BY <1>5, <1>7, <1>8, <1>9, InOrderMade
<1>11. ASSUME NEW j \in Int
       PROVE  Search(m, j) = Either(k, page, l, r, j)
  <2>1. Search(m, j) = Either(l.key, l.pageId, l.left, a, j)
    BY <1>1, <1>5, SearchMade
  <2>2. Search(a, j) = Either(k, page, l.right, r, j)
    BY <1>3, SearchMade DEF a
  <2>3. Search(l, j) = Either(l.key, l.pageId, l.left, l.right, j)
    BY SearchIs DEF Either
  <2> QED
    BY <1>1, <1>7, <2>1, <2>2, <2>3 DEF Either
<1> QED
  BY <1>5, <1>6, <1>10, <1>11 DEF a

\* Two rotations to the right.
LEMMA DoubleRight ==
  ASSUME NEW k \in Int, NEW page \in Nat, NEW l \in Avl, NEW r \in Avl, l # NoNode,
         Height(l) - Height(r) = 2, Height(l.left) - Height(l.right) < 0,
         NEW lo \in Int, NEW hi \in Int, lo < k, k < hi, InOrder(l, lo, k), InOrder(r, k, hi)
  PROVE  LET s == l.right
             m == Make(s.key, s.pageId, Make(l.key, l.pageId, l.left, s.left),
                       Make(k, page, s.right, r))
         IN  /\ s # NoNode
             /\ m \in Avl /\ m # NoNode /\ InOrder(m, lo, hi)
             /\ Height(m) = Height(l)
             /\ \A j \in Int : Search(m, j) = Either(k, page, l, r, j)
<1> DEFINE s == l.right
           a == Make(l.key, l.pageId, l.left, s.left)
           b == Make(k, page, s.right, r)
           m == Make(s.key, s.pageId, a, b)
<1>1. /\ l.key \in Int /\ l.pageId \in Nat /\ l.left \in Avl /\ s \in Avl
      /\ Height(l.left) \in Nat /\ Height(s) \in Nat /\ Height(r) \in Nat
      /\ Height(l.left) + 1 = Height(s)
      /\ Height(l) = Height(s) + 1
  BY NodeIs, TreeIs DEF Higher
<1>2. s # NoNode /\ Height(s) = Height(r) + 1 /\ Height(l.left) = Height(r)
  BY <1>1, NoNodeIs
<1>3. lo < l.key /\ l.key < k /\ InOrder(l.left, lo, l.key) /\ InOrder(s, l.key, k)
  BY InOrderIs
<1> HIDE DEF s
<1>4. /\ s.key \in Int /\ s.pageId \in Nat /\ s.left \in Avl /\ s.right \in Avl
      /\ Height(s.left) \in Nat /\ Height(s.right) \in Nat
      /\ Height(s.left) - Height(s.right) \in -1 .. 1
      /\ Height(s) = Higher(Height(s.left), Height(s.right)) + 1
  BY <1>1, <1>2, NodeIs
<1>5. /\ Height(s.left) \in Height(r) - 1 .. Height(r)
      /\ Height(s.right) \in Height(r) - 1 .. Height(r)
  BY <1>1, <1>2, <1>4 DEF Higher
<1>6. a \in Avl /\ a # NoNode /\ Height(a) = Height(r) + 1
  <2>1. Height(l.left) - Height(s.left) \in -1 .. 1
    BY <1>1, <1>2, <1>4, <1>5
  <2>2. a \in Avl /\ a # NoNode /\ Height(a) = Higher(Height(l.left), Height(s.left)) + 1
    BY <1>1, <1>4, <2>1, MakeIs
  <2> HIDE DEF a
  <2> QED
    BY <1>1, <1>2, <1>4, <1>5, <2>2 DEF Higher
<1>7. b \in Avl /\ b # NoNode /\ Height(b) = Height(r) + 1
  <2>1. Height(s.right) - Height(r) \in -1 .. 1
    BY <1>1, <1>4, <1>5
  <2>2. b \in Avl /\ b # NoNode /\ Height(b) = Higher(Height(s.right), Height(r)) + 1
    BY <1>1, <1>4, <2>1, MakeIs
  <2> HIDE DEF b
  <2> QED
    BY <1>1, <1>4, <1>5, <2>2 DEF Higher
<1> HIDE DEF a, b
<1>8. m \in Avl /\ m # NoNode /\ Height(m) = Height(l)
  <2>1. Height(a) - Height(b) \in -1 .. 1
    BY <1>1, <1>6, <1>7
  <2>2. m \in Avl /\ m # NoNode /\ Height(m) = Higher(Height(a), Height(b)) + 1
    BY <1>4, <1>6, <1>7, <2>1, MakeIs
  <2> HIDE DEF m
  <2> QED
    BY <1>1, <1>2, <1>6, <1>7, <2>2 DEF Higher
<1>9. l.key < s.key /\ s.key < k /\ InOrder(s.left, l.key, s.key) /\ InOrder(s.right, s.key, k)
  BY <1>2, <1>3, InOrderIs
<1>10. InOrder(a, lo, s.key)
  BY <1>3, <1>6, <1>9, InOrderMade DEF a
<1>11. InOrder(b, s.key, hi)
  BY <1>7, <1>9, InOrderMade DEF b
<1>12. lo < s.key /\ s.key < hi
  BY <1>1, <1>3, <1>4, <1>9
<1>13. InOrder(m, lo, hi)
  BY <1>8, <1>10, <1>11, <1>12, InOrderMade
<1>14. ASSUME NEW j \in Int
       PROVE  Search(m, j) = Either(k, page, l, r, j)
  <2>1. Search(m, j) = Either(s.key, s.pageId, a, b, j)
    BY <1>4, <1>8, SearchMade
  <2>2. Search(a, j) = Either(l.key, l.pageId, l.left, s.left, j)
    BY <1>1, <1>6, SearchMade DEF a
  <2>3. Search(b, j) = Either(k, page, s.right, r, j)
    BY <1>7, SearchMade DEF b
  <2>4. Search(l, j) = Either(l.key, l.pageId, l.left, s, j)
    BY SearchIs DEF Either, s
  <2>5. Search(s, j) = Either(s.key, s.pageId, s.left, s.right, j)
    BY <1>1, <1>2, SearchIs DEF Either
  <2> QED
    BY <1>1, <1>3, <1>4, <1>9, <2>1, <2>2, <2>3, <2>4, <2>5 DEF Either
<1> QED
  BY <1>2, <1>8, <1>13, <1>14 DEF a, b, s

\* One rotation to the left, as values.
LEMMA SingleLeft ==
  ASSUME NEW k \in Int, NEW page \in Nat, NEW l \in Avl, NEW r \in Avl, r # NoNode,
         Height(r) - Height(l) = 2, Height(r.right) - Height(r.left) >= 0,
         NEW lo \in Int, NEW hi \in Int, lo < k, k < hi, InOrder(l, lo, k), InOrder(r, k, hi)
  PROVE  LET m == Make(r.key, r.pageId, Make(k, page, l, r.left), r.right)
         IN  /\ m \in Avl /\ m # NoNode /\ InOrder(m, lo, hi)
             /\ Height(m) \in Height(r) .. Height(r) + 1
             /\ \A j \in Int : Search(m, j) = Either(k, page, l, r, j)
<1> DEFINE a == Make(k, page, l, r.left)
           m == Make(r.key, r.pageId, a, r.right)
<1>1. /\ r.key \in Int /\ r.pageId \in Nat /\ r.left \in Avl /\ r.right \in Avl
      /\ Height(r.left) \in Nat /\ Height(r.right) \in Nat /\ Height(l) \in Nat
      /\ Height(r.right) - Height(r.left) \in 0 .. 1
      /\ Height(r) = Height(r.right) + 1
  <2>1. /\ r.key \in Int /\ r.pageId \in Nat /\ r.left \in Avl /\ r.right \in Avl
        /\ Height(r.left) \in Nat /\ Height(r.right) \in Nat /\ Height(l) \in Nat
        /\ Height(r.left) - Height(r.right) \in -1 .. 1
        /\ Height(r) = Higher(Height(r.left), Height(r.right)) + 1
    BY NodeIs, TreeIs
  <2> QED
    BY <2>1 DEF Higher
<1>2. Height(r.left) - Height(l) \in 0 .. 1 /\ Height(r.right) = Height(l) + 1
  BY <1>1
<1>3. a \in Avl /\ a # NoNode /\ Height(a) = Height(r.left) + 1
  <2>1. Height(l) - Height(r.left) \in -1 .. 1
    BY <1>1, <1>2
  <2>2. a \in Avl /\ a # NoNode /\ Height(a) = Higher(Height(l), Height(r.left)) + 1
    BY <1>1, <2>1, MakeIs
  <2> HIDE DEF a
  <2> QED
    BY <1>1, <1>2, <2>2 DEF Higher
<1>4. Height(r.right) - Height(a) \in -1 .. 0
  BY <1>1, <1>3
<1> HIDE DEF a
<1>5. m \in Avl /\ m # NoNode /\ Height(m) = Height(a) + 1
  <2>1. Height(a) - Height(r.right) \in -1 .. 1
    BY <1>1, <1>3, <1>4
  <2>2. m \in Avl /\ m # NoNode /\ Height(m) = Higher(Height(a), Height(r.right)) + 1
    BY <1>1, <1>3, <2>1, MakeIs
  <2> HIDE DEF m
  <2> QED
    BY <1>1, <1>3, <1>4, <2>2 DEF Higher
<1>6. Height(m) \in Height(r) .. Height(r) + 1
  BY <1>1, <1>2, <1>3, <1>5
<1>7. k < r.key /\ r.key < hi /\ InOrder(r.left, k, r.key) /\ InOrder(r.right, r.key, hi)
  BY InOrderIs
<1>8. InOrder(a, lo, r.key)
  BY <1>3, <1>7, InOrderMade DEF a
<1>9. lo < r.key
  BY <1>1, <1>7
<1>10. InOrder(m, lo, hi)
  BY <1>5, <1>7, <1>8, <1>9, InOrderMade
<1>11. ASSUME NEW j \in Int
       PROVE  Search(m, j) = Either(k, page, l, r, j)
  <2>1. Search(m, j) = Either(r.key, r.pageId, a, r.right, j)
    BY <1>1, <1>5, SearchMade
  <2>2. Search(a, j) = Either(k, page, l, r.left, j)
    BY <1>3, SearchMade DEF a
  <2>3. Search(r, j) = Either(r.key, r.pageId, r.left, r.right, j)
    BY SearchIs DEF Either
  <2> QED
    BY <1>1, <1>7, <2>1, <2>2, <2>3 DEF Either
<1> QED
  BY <1>5, <1>6, <1>10, <1>11 DEF a

\* Two rotations to the left.
LEMMA DoubleLeft ==
  ASSUME NEW k \in Int, NEW page \in Nat, NEW l \in Avl, NEW r \in Avl, r # NoNode,
         Height(r) - Height(l) = 2, Height(r.right) - Height(r.left) < 0,
         NEW lo \in Int, NEW hi \in Int, lo < k, k < hi, InOrder(l, lo, k), InOrder(r, k, hi)
  PROVE  LET s == r.left
             m == Make(s.key, s.pageId, Make(k, page, l, s.left),
                       Make(r.key, r.pageId, s.right, r.right))
         IN  /\ s # NoNode
             /\ m \in Avl /\ m # NoNode /\ InOrder(m, lo, hi)
             /\ Height(m) = Height(r)
             /\ \A j \in Int : Search(m, j) = Either(k, page, l, r, j)
<1> DEFINE s == r.left
           a == Make(k, page, l, s.left)
           b == Make(r.key, r.pageId, s.right, r.right)
           m == Make(s.key, s.pageId, a, b)
<1>1. /\ r.key \in Int /\ r.pageId \in Nat /\ r.right \in Avl /\ s \in Avl
      /\ Height(r.right) \in Nat /\ Height(s) \in Nat /\ Height(l) \in Nat
      /\ Height(r.right) + 1 = Height(s)
      /\ Height(r) = Height(s) + 1
  <2>1. /\ r.key \in Int /\ r.pageId \in Nat /\ r.right \in Avl /\ s \in Avl
        /\ Height(r.right) \in Nat /\ Height(s) \in Nat /\ Height(l) \in Nat
        /\ Height(s) - Height(r.right) \in -1 .. 1
        /\ Height(r) = Higher(Height(s), Height(r.right)) + 1
    BY NodeIs, TreeIs
  <2> HIDE DEF s
  <2>2. Height(r.right) - Height(s) < 0
    BY DEF s
  <2> QED
    BY <2>1, <2>2 DEF Higher
<1>2. s # NoNode /\ Height(s) = Height(l) + 1 /\ Height(r.right) = Height(l)
  BY <1>1, NoNodeIs
<1>3. k < r.key /\ r.key < hi /\ InOrder(r.right, r.key, hi) /\ InOrder(s, k, r.key)
  BY InOrderIs
<1> HIDE DEF s
<1>4. /\ s.key \in Int /\ s.pageId \in Nat /\ s.left \in Avl /\ s.right \in Avl
      /\ Height(s.left) \in Nat /\ Height(s.right) \in Nat
      /\ Height(s.left) - Height(s.right) \in -1 .. 1
      /\ Height(s) = Higher(Height(s.left), Height(s.right)) + 1
  BY <1>1, <1>2, NodeIs
<1>5. /\ Height(s.left) \in Height(l) - 1 .. Height(l)
      /\ Height(s.right) \in Height(l) - 1 .. Height(l)
  BY <1>1, <1>2, <1>4 DEF Higher
<1>6. a \in Avl /\ a # NoNode /\ Height(a) = Height(l) + 1
  <2>1. Height(l) - Height(s.left) \in -1 .. 1
    BY <1>1, <1>4, <1>5
  <2>2. a \in Avl /\ a # NoNode /\ Height(a) = Higher(Height(l), Height(s.left)) + 1
    BY <1>4, <2>1, MakeIs
  <2> HIDE DEF a
  <2> QED
    BY <1>1, <1>4, <1>5, <2>2 DEF Higher
<1>7. b \in Avl /\ b # NoNode /\ Height(b) = Height(l) + 1
  <2>1. Height(s.right) - Height(r.right) \in -1 .. 1
    BY <1>1, <1>2, <1>4, <1>5
  <2>2. b \in Avl /\ b # NoNode /\ Height(b) = Higher(Height(s.right), Height(r.right)) + 1
    BY <1>1, <1>4, <2>1, MakeIs
  <2> HIDE DEF b
  <2> QED
    BY <1>1, <1>2, <1>4, <1>5, <2>2 DEF Higher
<1> HIDE DEF a, b
<1>8. m \in Avl /\ m # NoNode /\ Height(m) = Height(r)
  <2>1. Height(a) - Height(b) \in -1 .. 1
    BY <1>1, <1>6, <1>7
  <2>2. m \in Avl /\ m # NoNode /\ Height(m) = Higher(Height(a), Height(b)) + 1
    BY <1>4, <1>6, <1>7, <2>1, MakeIs
  <2> HIDE DEF m
  <2> QED
    BY <1>1, <1>2, <1>6, <1>7, <2>2 DEF Higher
<1>9. k < s.key /\ s.key < r.key /\ InOrder(s.left, k, s.key) /\ InOrder(s.right, s.key, r.key)
  BY <1>2, <1>3, InOrderIs
<1>10. InOrder(a, lo, s.key)
  BY <1>6, <1>9, InOrderMade DEF a
<1>11. InOrder(b, s.key, hi)
  BY <1>3, <1>7, <1>9, InOrderMade DEF b
<1>12. lo < s.key /\ s.key < hi
  BY <1>1, <1>3, <1>4, <1>9
<1>13. InOrder(m, lo, hi)
  BY <1>8, <1>10, <1>11, <1>12, InOrderMade
<1>14. ASSUME NEW j \in Int
       PROVE  Search(m, j) = Either(k, page, l, r, j)
  <2>1. Search(m, j) = Either(s.key, s.pageId, a, b, j)
    BY <1>4, <1>8, SearchMade
  <2>2. Search(a, j) = Either(k, page, l, s.left, j)
    BY <1>6, SearchMade DEF a
  <2>3. Search(b, j) = Either(r.key, r.pageId, s.right, r.right, j)
    BY <1>1, <1>7, SearchMade DEF b
  <2>4. Search(r, j) = Either(r.key, r.pageId, s, r.right, j)
    BY SearchIs DEF Either, s
  <2>5. Search(s, j) = Either(s.key, s.pageId, s.left, s.right, j)
    BY <1>1, <1>2, SearchIs DEF Either
  <2> QED
    BY <1>1, <1>3, <1>4, <1>9, <2>1, <2>2, <2>3, <2>4, <2>5 DEF Either
<1> QED
  BY <1>2, <1>8, <1>13, <1>14 DEF a, b, s

\* A node is rebalanced: m holds what its subtrees hold and its own key, in order.
Balances(m, k, page, l, r, lo, hi) ==
  /\ m \in Avl /\ m # NoNode /\ InOrder(m, lo, hi)
  /\ Height(m) \in Higher(Height(l), Height(r)) .. Higher(Height(l), Height(r)) + 1
  /\ Height(l) - Height(r) \in -1 .. 1 => Height(m) = Higher(Height(l), Height(r)) + 1
  /\ \A j \in Int : Search(m, j) = Either(k, page, l, r, j)

\* Of two ordered trees that differ by at most two levels, and a key between them, rebalance
\* makes a balanced and ordered tree with the same entries, and at most one level higher.
LEMMA RebalanceIs ==
  ASSUME NEW k \in Int, NEW page \in Nat, NEW l \in Avl, NEW r \in Avl,
         Height(l) - Height(r) \in -2 .. 2,
         NEW lo \in Int, NEW hi \in Int, lo < k, k < hi, InOrder(l, lo, k), InOrder(r, k, hi)
  PROVE  Balances(Rebalance(Make(k, page, l, r)), k, page, l, r, lo, hi)
<1> DEFINE t == Make(k, page, l, r)
<1>1. /\ IsNode(t) /\ t.key = k /\ t.pageId = page /\ t.left = l /\ t.right = r
      /\ Height(l) \in Nat /\ Height(r) \in Nat
  BY MadeIs, TreeIs
<1>2. t # NoNode
  <2>1. t.height = Higher(Height(l), Height(r)) + 1
    BY DEF Make
  <2> HIDE DEF t
  <2> QED
    BY <1>1, <2>1 DEF NoNode, Higher
<1> HIDE DEF t
<1>3. BalanceFactor(t) = Height(l) - Height(r)
  BY <1>1, <1>2 DEF BalanceFactor
<1>4. CASE Height(l) - Height(r) = 2
  <2>1. l # NoNode
    BY <1>1, <1>4, NoNodeIs
  <2>2. /\ IsNode(l) /\ Height(l.left) \in Nat /\ Height(l.right) \in Nat
        /\ BalanceFactor(l) = Height(l.left) - Height(l.right)
    BY <2>1, NodeIs DEF BalanceFactor
  <2>3. CASE Height(l.left) - Height(l.right) >= 0
    <3>1. Rebalance(t) = RotateRight(t)
      BY <1>1, <1>3, <1>4, <2>2, <2>3 DEF Rebalance
    <3> DEFINE m == Make(l.key, l.pageId, l.left, Make(k, page, l.right, r))
    <3>2. Rebalance(t) = m
      BY <1>1, <2>2, <3>1, RotateRightIs
    <3>3. /\ m \in Avl /\ m # NoNode /\ InOrder(m, lo, hi)
          /\ Height(m) \in Height(l) .. Height(l) + 1
          /\ \A j \in Int : Search(m, j) = Either(k, page, l, r, j)
      BY <1>4, <2>1, <2>3, SingleRight
    <3> HIDE DEF m
    <3> QED
      BY <1>1, <1>4, <3>2, <3>3 DEF Balances, Higher, t
  <2>4. CASE Height(l.left) - Height(l.right) < 0
    <3>1. Rebalance(t) = RotateLeftRight(t)
      BY <1>1, <1>3, <1>4, <2>2, <2>4 DEF Rebalance
    <3> DEFINE s == l.right
               m == Make(s.key, s.pageId, Make(l.key, l.pageId, l.left, s.left),
                         Make(k, page, s.right, r))
    <3>3. /\ s # NoNode
          /\ m \in Avl /\ m # NoNode /\ InOrder(m, lo, hi)
          /\ Height(m) = Height(l)
          /\ \A j \in Int : Search(m, j) = Either(k, page, l, r, j)
      BY <1>4, <2>1, <2>4, DoubleRight
    <3>4. IsNode(s)
      BY <2>1, <3>3, NodeIs
    <3>5. Rebalance(t) = m
      BY <1>1, <2>2, <3>1, <3>4, RotateLeftRightIs
    <3> HIDE DEF m
    <3> QED
      BY <1>1, <1>4, <3>3, <3>5 DEF Balances, Higher, t
  <2> QED
    BY <2>2, <2>3, <2>4
<1>5. CASE Height(l) - Height(r) = -2
  <2>1. r # NoNode
    BY <1>1, <1>5, NoNodeIs
  <2>2. /\ IsNode(r) /\ Height(r.left) \in Nat /\ Height(r.right) \in Nat
        /\ BalanceFactor(r) = Height(r.left) - Height(r.right)
    BY <2>1, NodeIs DEF BalanceFactor
  <2>3. Height(r) - Height(l) = 2
    BY <1>1, <1>5
  <2>4. CASE Height(r.right) - Height(r.left) >= 0
    <3>1. Rebalance(t) = RotateLeft(t)
      BY <1>1, <1>3, <1>5, <2>2, <2>4 DEF Rebalance
    <3> DEFINE m == Make(r.key, r.pageId, Make(k, page, l, r.left), r.right)
    <3>2. Rebalance(t) = m
      BY <1>1, <2>2, <3>1, RotateLeftIs
    <3>3. /\ m \in Avl /\ m # NoNode /\ InOrder(m, lo, hi)
          /\ Height(m) \in Height(r) .. Height(r) + 1
          /\ \A j \in Int : Search(m, j) = Either(k, page, l, r, j)
      BY <2>1, <2>4, <2>3, SingleLeft
    <3> HIDE DEF m
    <3> QED
      BY <1>1, <1>5, <3>2, <3>3 DEF Balances, Higher, t
  <2>5. CASE Height(r.right) - Height(r.left) < 0
    <3>1. Rebalance(t) = RotateRightLeft(t)
      BY <1>1, <1>3, <1>5, <2>2, <2>5 DEF Rebalance
    <3> DEFINE s == r.left
               m == Make(s.key, s.pageId, Make(k, page, l, s.left),
                         Make(r.key, r.pageId, s.right, r.right))
    <3>3. /\ s # NoNode
          /\ m \in Avl /\ m # NoNode /\ InOrder(m, lo, hi)
          /\ Height(m) = Height(r)
          /\ \A j \in Int : Search(m, j) = Either(k, page, l, r, j)
      BY <2>1, <2>5, <2>3, DoubleLeft
    <3>4. IsNode(s)
      BY <2>1, <3>3, NodeIs
    <3>5. Rebalance(t) = m
      BY <1>1, <2>2, <3>1, <3>4, RotateRightLeftIs
    <3> HIDE DEF m
    <3> QED
      BY <1>1, <1>5, <3>3, <3>5 DEF Balances, Higher, t
  <2> QED
    BY <2>2, <2>4, <2>5
<1>6. CASE Height(l) - Height(r) \in -1 .. 1
  <2>1. Rebalance(t) = t
    BY <1>1, <1>3, <1>6 DEF Rebalance
  <2>2. t \in Avl /\ Height(t) = Higher(Height(l), Height(r)) + 1
    BY <1>6, MakeIs DEF t
  <2>3. InOrder(t, lo, hi)
    BY <1>2, InOrderMade DEF t
  <2>4. \A j \in Int : Search(t, j) = Either(k, page, l, r, j)
    BY <1>2, <2>2, SearchMade DEF t
  <2>5. Higher(Height(l), Height(r)) \in Nat
    BY <1>1 DEF Higher
  <2>6. Balances(t, k, page, l, r, lo, hi)
    BY <1>2, <2>2, <2>3, <2>4, <2>5 DEF Balances
  <2> QED
    BY <2>1, <2>6 DEF t
<1> QED
  BY <1>1, <1>4, <1>5, <1>6


(***************************************************************************)
(* Insertion.                                                              *)
(***************************************************************************)
InsertBody(f, k, page, t) ==
  IF t = NoNode THEN NewNode(k, page)
  ELSE CASE k < t.key -> Rebalance(Updated([t EXCEPT !.left = f[t.left]]))
         [] k > t.key -> Rebalance(Updated([t EXCEPT !.right = f[t.right]]))
         [] OTHER     -> [t EXCEPT !.pageId = page]

\* The recursion of InsertNode has a solution.
LEMMA InsertFunction ==
  ASSUME NEW k, NEW page
  PROVE  \A n \in Nat : \E f : f = [t \in Trees[n] |-> InsertBody(f, k, page, t)]
<1> DEFINE S == {n \in Nat : \E f : f = [t \in Trees[n] |-> InsertBody(f, k, page, t)]}
<1>1. 0 \in S
  <2> DEFINE f == [t \in Trees[0] |-> NewNode(k, page)]
  <2>1. \A t \in Trees[0] : InsertBody(f, k, page, t) = NewNode(k, page)
    BY NoNodeIs DEF InsertBody
  <2>2. f = [t \in Trees[0] |-> InsertBody(f, k, page, t)]
    BY <2>1
  <2> QED
    BY <2>2
<1>2. ASSUME NEW n \in Nat, n \in S
      PROVE  n + 1 \in S
  <2>1. PICK f : f = [t \in Trees[n] |-> InsertBody(f, k, page, t)]
    BY <1>2
  <2> DEFINE g == [t \in Trees[n + 1] |-> InsertBody(f, k, page, t)]
  <2>2. \A t \in Trees[n] : f[t] = InsertBody(f, k, page, t)
    <3>1. \A t \in Trees[n] : [s \in Trees[n] |-> InsertBody(f, k, page, s)][t] =
              InsertBody(f, k, page, t)
      OBVIOUS
    <3> QED
      BY <2>1, <3>1
  <2>3. \A t \in Trees[n] : g[t] = f[t]
    BY <2>2, TreesGrow
  <2>4. \A t \in Trees[n + 1] : t # NoNode => t.left \in Trees[n] /\ t.right \in Trees[n]
    <3>1. n + 1 \in Nat /\ (n + 1) - 1 = n
      OBVIOUS
    <3> QED
      BY <3>1, SubtreesIn
  <2> HIDE DEF g
  <2>5. \A t \in Trees[n + 1] : InsertBody(g, k, page, t) = InsertBody(f, k, page, t)
    BY <2>3, <2>4 DEF InsertBody
  <2>6. g = [t \in Trees[n + 1] |-> InsertBody(g, k, page, t)]
    BY <2>5 DEF g
  <2> QED
    BY <2>6
<1> HIDE DEF S
<1>3. \A n \in Nat : n \in S
  BY <1>1, <1>2, AllOfNat
<1> QED
  BY <1>3 DEF S

Inserts(n, k, page) == CHOOSE f : f = [t \in Trees[n] |-> InsertBody(f, k, page, t)]

LEMMA InsertsIs ==
  ASSUME NEW n \in Nat, NEW k, NEW page
  PROVE  \A t \in Trees[n] : Inserts(n, k, page)[t] = InsertBody(Inserts(n, k, page), k, page, t)
<1>1. Inserts(n, k, page) = [t \in Trees[n] |-> InsertBody(Inserts(n, k, page), k, page, t)]
  BY InsertFunction DEF Inserts
<1>2. \A t \in Trees[n] : [s \in Trees[n] |-> InsertBody(Inserts(n, k, page), k, page, s)][t] =
          InsertBody(Inserts(n, k, page), k, page, t)
  OBVIOUS
<1> QED
  BY <1>1, <1>2

\* What an insertion makes of t: no less high, by one higher at most.
Inserted(u, t, k, page, lo, hi) ==
  /\ u \in Avl /\ u # NoNode /\ InOrder(u, lo, hi)
  /\ Height(u) \in Height(t) .. Height(t) + 1
  /\ \A j \in Int : Search(u, j) = IF j = k THEN page ELSE Search(t, j)

\* An insertion adds one entry or exchanges its page.
THEOREM InsertNodeIs ==
  ASSUME NEW root \in Avl, NEW k \in Int, NEW page \in Nat, NEW low \in Int, NEW high \in Int,
         low < k, k < high, InOrder(root, low, high)
  PROVE  Inserted(InsertNode(root, k, page), root, k, page, low, high)
<1> DEFINE n == Height(root)
           f == Inserts(n, k, page)
           Fine(t) == t \in Trees[n] => \A lo, hi \in Int : lo < k /\ k < hi /\ InOrder(t, lo, hi)
                                                           => Inserted(f[t], t, k, page, lo, hi)
           S == {t \in Avl : Fine(t)}
<1>1. n \in Nat /\ root \in Trees[n]
  BY TreeIs
<1>2. InsertNode(root, k, page) = f[root]
  BY DEF InsertNode, Inserts, InsertBody
<1> HIDE DEF n
<1>3. \A t \in Trees[n] : f[t] = InsertBody(f, k, page, t)
  BY <1>1, InsertsIs
<1> HIDE DEF f
<1>4. NoNode \in S
  <2>1. SUFFICES ASSUME NoNode \in Trees[n], NEW lo \in Int, NEW hi \in Int, lo < k, k < hi
                 PROVE  Inserted(f[NoNode], NoNode, k, page, lo, hi)
    BY NoNodeIs
  <2> DEFINE u == Make(k, page, NoNode, NoNode)
  <2>2. f[NoNode] = u
    <3>1. f[NoNode] = NewNode(k, page)
      BY <1>3, <2>1 DEF InsertBody
    <3>2. Higher(Height(NoNode), Height(NoNode)) + 1 = 1
      BY NoNodeIs DEF Higher
    <3> QED
      BY <3>1, <3>2 DEF NewNode, Make
  <2>3. u \in Avl /\ u # NoNode /\ Height(u) = 1
    <3>1. Height(NoNode) - Height(NoNode) \in -1 .. 1 /\ Higher(Height(NoNode), Height(NoNode)) + 1 = 1
      BY NoNodeIs DEF Higher
    <3> QED
      BY <3>1, NoNodeIs, MakeIs
  <2>4. InOrder(u, lo, hi)
    BY <2>1, <2>3, InOrderMade, InOrderIs
  <2>5. \A j \in Int : Search(u, j) = IF j = k THEN page ELSE Search(NoNode, j)
    <3>1. ASSUME NEW j \in Int
          PROVE  Search(u, j) = IF j = k THEN page ELSE Search(NoNode, j)
      <4>1. Search(u, j) = Either(k, page, NoNode, NoNode, j)
        BY <2>3, SearchMade
      <4> QED
        BY <4>1 DEF Either
    <3> QED
      BY <3>1
  <2> QED
    BY <2>2, <2>3, <2>4, <2>5, NoNodeIs DEF Inserted
<1>5. ASSUME NEW t \in Avl, t # NoNode, t.left \in S, t.right \in S
      PROVE  t \in S
  <2>1. SUFFICES ASSUME t \in Trees[n], NEW lo \in Int, NEW hi \in Int, lo < k, k < hi, InOrder(t, lo, hi)
                 PROVE  Inserted(f[t], t, k, page, lo, hi)
    OBVIOUS
  <2> DEFINE l == t.left
             r == t.right
             h == Higher(Height(l), Height(r))
  <2>2. /\ t.key \in Int /\ t.pageId \in Nat /\ l \in Avl /\ r \in Avl
        /\ Height(l) \in Nat /\ Height(r) \in Nat
        /\ Height(l) - Height(r) \in -1 .. 1
        /\ Height(t) = h + 1
        /\ IsNode(t)
        /\ l \in Trees[n] /\ r \in Trees[n]
    BY <1>1, <1>5, <2>1, NodeIs, SubtreesIn
  <2>3. lo < t.key /\ t.key < hi /\ InOrder(l, lo, t.key) /\ InOrder(r, t.key, hi)
    BY <1>5, <2>1, InOrderIs
  <2>4. \A j \in Int : Search(t, j) = Either(t.key, t.pageId, l, r, j)
    BY <1>5, SearchIs DEF Either
  <2>5. f[t] = InsertBody(f, k, page, t)
    BY <1>3, <2>1
  <2>6. CASE k < t.key
    <3> DEFINE u == f[l]
               m == Rebalance(Make(t.key, t.pageId, u, r))
    <3>1. f[t] = m
      <4>1. f[t] = Rebalance(Updated([t EXCEPT !.left = u]))
        BY <1>5, <2>2, <2>5, <2>6 DEF InsertBody
      <4>2. Updated([t EXCEPT !.left = u]) = Make(t.key, t.pageId, u, r)
        BY <2>2, UpdatedIs
      <4> QED
        BY <4>1, <4>2
    <3>2. Inserted(u, l, k, page, lo, t.key)
      BY <1>5, <2>1, <2>2, <2>3, <2>6
    <3> HIDE DEF u
    <3>3. /\ u \in Avl /\ InOrder(u, lo, t.key) /\ Height(u) \in Height(l) .. Height(l) + 1
          /\ \A j \in Int : Search(u, j) = IF j = k THEN page ELSE Search(l, j)
      BY <3>2 DEF Inserted
    <3>4. Height(u) - Height(r) \in -2 .. 2
      BY <2>2, <3>3
    <3>5. Balances(m, t.key, t.pageId, u, r, lo, hi)
      BY <2>2, <2>3, <3>3, <3>4, RebalanceIs
    <3> HIDE DEF m, l, r
    <3>6. Height(m) \in Height(t) .. Height(t) + 1
      BY <2>2, <3>3, <3>5 DEF Balances, Higher
    <3>7. \A j \in Int : Search(m, j) = IF j = k THEN page ELSE Search(t, j)
      BY <2>2, <2>4, <2>6, <3>3, <3>5 DEF Balances, Either
    <3> QED
      BY <3>1, <3>5, <3>6, <3>7 DEF Balances, Inserted
  <2>7. CASE k > t.key
    <3> DEFINE u == f[r]
               m == Rebalance(Make(t.key, t.pageId, l, u))
    <3>1. f[t] = m
      <4>1. f[t] = Rebalance(Updated([t EXCEPT !.right = u]))
        BY <1>5, <2>2, <2>5, <2>7 DEF InsertBody
      <4>2. Updated([t EXCEPT !.right = u]) = Make(t.key, t.pageId, l, u)
        BY <2>2, UpdatedIs
      <4> QED
        BY <4>1, <4>2
    <3>2. Inserted(u, r, k, page, t.key, hi)
      BY <1>5, <2>1, <2>2, <2>3, <2>7
    <3> HIDE DEF u
    <3>3. /\ u \in Avl /\ InOrder(u, t.key, hi) /\ Height(u) \in Height(r) .. Height(r) + 1
          /\ \A j \in Int : Search(u, j) = IF j = k THEN page ELSE Search(r, j)
      BY <3>2 DEF Inserted
    <3>4. Height(l) - Height(u) \in -2 .. 2
      BY <2>2, <3>3
    <3>5. Balances(m, t.key, t.pageId, l, u, lo, hi)
      BY <2>2, <2>3, <3>3, <3>4, RebalanceIs
    <3> HIDE DEF m, l, r
    <3>6. Height(m) \in Height(t) .. Height(t) + 1
      BY <2>2, <3>3, <3>5 DEF Balances, Higher
    <3>7. \A j \in Int : Search(m, j) = IF j = k THEN page ELSE Search(t, j)
      BY <2>2, <2>4, <2>7, <3>3, <3>5 DEF Balances, Either
    <3> QED
      BY <3>1, <3>5, <3>6, <3>7 DEF Balances, Inserted
  <2>8. CASE k = t.key
    <3> DEFINE m == Make(k, page, l, r)
    <3>1. f[t] = m
      <4>1. f[t] = [t EXCEPT !.pageId = page]
        BY <1>5, <2>2, <2>8, <2>5 DEF InsertBody
      <4>2. t = Make(t.key, t.pageId, t.left, t.right)
        BY <1>5, NodeIs
      <4> QED
        BY <2>8, <4>1, <4>2 DEF Make
    <3>2. m \in Avl /\ m # NoNode /\ Height(m) = Height(t)
      BY <2>2, MakeIs
    <3>3. InOrder(m, lo, hi)
      BY <2>3, <2>8, <3>2, InOrderMade
    <3>4. \A j \in Int : Search(m, j) = Either(k, page, l, r, j)
      BY <3>2, SearchMade
    <3> HIDE DEF m, l, r
    <3>5. \A j \in Int : Search(m, j) = IF j = k THEN page ELSE Search(t, j)
      BY <2>4, <2>8, <3>4 DEF Either
    <3>6. Height(t) \in Nat
      BY <1>5, TreeIs
    <3> QED
      BY <3>1, <3>2, <3>3, <3>5, <3>6 DEF Inserted
  <2> QED
    BY <2>2, <2>6, <2>7, <2>8
<1> HIDE DEF S
<1>6. \A t \in Avl : t \in S
  BY <1>4, <1>5, TreeInduction
<1>7. Fine(root)
  BY <1>6 DEF S
<1> QED
  BY <1>1, <1>2, <1>7


(***************************************************************************)
(* Removal.                                                                *)
(***************************************************************************)
LeastBody(f, t) == IF t = NoNode \/ t.left = NoNode THEN t ELSE f[t.left]

\* The recursion of FindMin has a solution.
LEMMA LeastFunction ==
  \A n \in Nat : \E f : f = [t \in Trees[n] |-> LeastBody(f, t)]
<1> DEFINE S == {n \in Nat : \E f : f = [t \in Trees[n] |-> LeastBody(f, t)]}
<1>1. 0 \in S
  <2> DEFINE f == [t \in Trees[0] |-> NoNode]
  <2>1. \A t \in Trees[0] : LeastBody(f, t) = NoNode
    BY NoNodeIs DEF LeastBody
  <2>2. f = [t \in Trees[0] |-> LeastBody(f, t)]
    BY <2>1
  <2> QED
    BY <2>2
<1>2. ASSUME NEW n \in Nat, n \in S
      PROVE  n + 1 \in S
  <2>1. PICK f : f = [t \in Trees[n] |-> LeastBody(f, t)]
    BY <1>2
  <2> DEFINE g == [t \in Trees[n + 1] |-> LeastBody(f, t)]
  <2>2. \A t \in Trees[n] : f[t] = LeastBody(f, t)
    <3>1. \A t \in Trees[n] : [s \in Trees[n] |-> LeastBody(f, s)][t] = LeastBody(f, t)
      OBVIOUS
    <3> QED
      BY <2>1, <3>1
  <2>3. \A t \in Trees[n] : g[t] = f[t]
    BY <2>2, TreesGrow
  <2>4. \A t \in Trees[n + 1] : t # NoNode => t.left \in Trees[n] /\ t.right \in Trees[n]
    <3>1. n + 1 \in Nat /\ (n + 1) - 1 = n
      OBVIOUS
    <3> QED
      BY <3>1, SubtreesIn
  <2> HIDE DEF g
  <2>5. \A t \in Trees[n + 1] : LeastBody(g, t) = LeastBody(f, t)
    BY <2>3, <2>4 DEF LeastBody
  <2>6. g = [t \in Trees[n + 1] |-> LeastBody(g, t)]
    BY <2>5 DEF g
  <2> QED
    BY <2>6
<1> HIDE DEF S
<1>3. \A n \in Nat : n \in S
  BY <1>1, <1>2, AllOfNat
<1> QED
  BY <1>3 DEF S

Leasts(n) == CHOOSE f : f = [t \in Trees[n] |-> LeastBody(f, t)]

LEMMA LeastsIs ==
  ASSUME NEW n \in Nat
  PROVE  \A t \in Trees[n] : Leasts(n)[t] = LeastBody(Leasts(n), t)
<1>1. Leasts(n) = [t \in Trees[n] |-> LeastBody(Leasts(n), t)]
  BY LeastFunction DEF Leasts
<1>2. \A t \in Trees[n] : [s \in Trees[n] |-> LeastBody(Leasts(n), s)][t] = LeastBody(Leasts(n), t)
  OBVIOUS
<1> QED
  BY <1>1, <1>2

\* findMin ends at the least key that a descent finds.
LEMMA FindMinIs ==
  ASSUME NEW root \in Avl, root # NoNode, NEW low \in Int, NEW high \in Int, InOrder(root, low, high)
  PROVE  LET s == FindMin(root)
         IN  /\ s.key \in Int /\ s.pageId \in Nat /\ low < s.key /\ s.key < high
             /\ Search(root, s.key) = s.pageId
             /\ \A j \in Int : j < s.key => Search(root, j) = -1
<1> DEFINE n == Height(root)
           f == Leasts(n)
           IsMin(s, t, lo, hi) ==
             /\ s.key \in Int /\ s.pageId \in Nat /\ lo < s.key /\ s.key < hi
             /\ Search(t, s.key) = s.pageId
             /\ \A j \in Int : j < s.key => Search(t, j) = -1
           Fine(t) == t \in Trees[n] /\ t # NoNode =>
                        \A lo, hi \in Int : InOrder(t, lo, hi) => IsMin(f[t], t, lo, hi)
           S == {t \in Avl : Fine(t)}
<1>1. n \in Nat /\ root \in Trees[n]
  BY TreeIs
<1>2. FindMin(root) = f[root]
  BY DEF FindMin, Leasts, LeastBody
<1> HIDE DEF n
<1>3. \A t \in Trees[n] : f[t] = LeastBody(f, t)
  BY <1>1, LeastsIs
<1> HIDE DEF f
<1>4. NoNode \in S
  BY NoNodeIs
<1>5. ASSUME NEW t \in Avl, t # NoNode, t.left \in S, t.right \in S
      PROVE  t \in S
  <2>1. SUFFICES ASSUME t \in Trees[n], NEW lo \in Int, NEW hi \in Int, InOrder(t, lo, hi)
                 PROVE  IsMin(f[t], t, lo, hi)
    OBVIOUS
  <2>2. /\ t.key \in Int /\ t.pageId \in Nat /\ t.left \in Avl /\ t.left \in Trees[n]
        /\ lo < t.key /\ t.key < hi /\ InOrder(t.left, lo, t.key)
    BY <1>1, <1>5, <2>1, NodeIs, SubtreesIn, InOrderIs
  <2>3. f[t] = LeastBody(f, t)
    BY <1>3, <2>1
  <2>4. CASE t.left = NoNode
    <3>1. f[t] = t
      BY <2>3, <2>4 DEF LeastBody
    <3>2. Search(t, t.key) = t.pageId
      BY <1>5, <2>2, SearchIs
    <3>3. \A j \in Int : j < t.key => Search(t, j) = -1
      BY <1>5, <2>2, <2>4, SearchIs
    <3> QED
      BY <2>2, <3>1, <3>2, <3>3
  <2>5. CASE t.left # NoNode
    <3> DEFINE s == f[t.left]
    <3>1. f[t] = s
      BY <1>5, <2>3, <2>5 DEF LeastBody
    <3>2. IsMin(s, t.left, lo, t.key)
      BY <1>5, <2>2, <2>5
    <3> HIDE DEF s
    <3>3. \A j \in Int : j < t.key => Search(t, j) = Search(t.left, j)
      BY <1>5, <2>2, SearchIs
    <3>4. IsMin(s, t, lo, hi)
      BY <2>2, <3>2, <3>3
    <3> QED
      BY <3>1, <3>4
  <2> QED
    BY <2>4, <2>5
<1> HIDE DEF S
<1>6. \A t \in Avl : t \in S
  BY <1>4, <1>5, TreeInduction
<1>7. Fine(root)
  BY <1>6 DEF S
<1> QED
  BY <1>1, <1>2, <1>7

\* With what has become of its subtrees, for every key.
RemoveFrom(t, l, r) ==
  IF t = NoNode THEN [k \in Int |-> NoNode]
  ELSE [k \in Int |->
    CASE k < t.key -> Rebalance(Updated([t EXCEPT !.left = l[k]]))
      [] k > t.key -> Rebalance(Updated([t EXCEPT !.right = r[k]]))
      [] k = t.key /\ t.left # NoNode /\ t.right # NoNode ->
           LET successor == FindMin(t.right)
           IN  Rebalance(Updated([Replaced(t, successor) EXCEPT
                                    !.right = r[successor.key]]))
      [] k = t.key /\ t.left = NoNode /\ t.right = NoNode -> NoNode
      [] OTHER -> Rebalance(Updated(IF t.left # NoNode THEN t.left ELSE t.right))]

RemoveBody(f, t) == RemoveFrom(t, f[t.left], f[t.right])

\* The recursion of RemoveNode has a solution.
LEMMA RemoveFunction ==
  \A n \in Nat : \E f : f = [t \in Trees[n] |-> RemoveBody(f, t)]
<1> DEFINE S == {n \in Nat : \E f : f = [t \in Trees[n] |-> RemoveBody(f, t)]}
<1>1. 0 \in S
  <2> DEFINE f == [t \in Trees[0] |-> [k \in Int |-> NoNode]]
  <2>1. \A t \in Trees[0] : RemoveBody(f, t) = [k \in Int |-> NoNode]
    BY NoNodeIs DEF RemoveBody, RemoveFrom
  <2>2. f = [t \in Trees[0] |-> RemoveBody(f, t)]
    BY <2>1
  <2> QED
    BY <2>2
<1>2. ASSUME NEW n \in Nat, n \in S
      PROVE  n + 1 \in S
  <2>1. PICK f : f = [t \in Trees[n] |-> RemoveBody(f, t)]
    BY <1>2
  <2> DEFINE g == [t \in Trees[n + 1] |-> RemoveBody(f, t)]
  <2>2. \A t \in Trees[n] : f[t] = RemoveBody(f, t)
    <3>1. \A t \in Trees[n] : [s \in Trees[n] |-> RemoveBody(f, s)][t] = RemoveBody(f, t)
      OBVIOUS
    <3> QED
      BY <2>1, <3>1
  <2>3. \A t \in Trees[n] : g[t] = f[t]
    BY <2>2, TreesGrow
  <2>4. \A t \in Trees[n + 1] : t # NoNode => t.left \in Trees[n] /\ t.right \in Trees[n]
    <3>1. n + 1 \in Nat /\ (n + 1) - 1 = n
      OBVIOUS
    <3> QED
      BY <3>1, SubtreesIn
  <2> HIDE DEF g
  <2>5. \A t \in Trees[n + 1] : RemoveBody(g, t) = RemoveBody(f, t)
    <3>1. \A t \in Trees[n + 1] : t # NoNode => g[t.left] = f[t.left] /\ g[t.right] = f[t.right]
      BY <2>3, <2>4
    <3>2. \A a, b, c, d : RemoveFrom(NoNode, a, b) = RemoveFrom(NoNode, c, d)
      BY DEF RemoveFrom
    <3> QED
      BY <3>1, <3>2 DEF RemoveBody
  <2>6. g = [t \in Trees[n + 1] |-> RemoveBody(g, t)]
    BY <2>5 DEF g
  <2> QED
    BY <2>6
<1> HIDE DEF S
<1>3. \A n \in Nat : n \in S
  BY <1>1, <1>2, AllOfNat
<1> QED
  BY <1>3 DEF S

Removes(n) == CHOOSE f : f = [t \in Trees[n] |-> RemoveBody(f, t)]

LEMMA RemovesIs ==
  ASSUME NEW n \in Nat
  PROVE  \A t \in Trees[n] : Removes(n)[t] = RemoveBody(Removes(n), t)
<1>1. Removes(n) = [t \in Trees[n] |-> RemoveBody(Removes(n), t)]
  BY RemoveFunction DEF Removes
<1>2. \A t \in Trees[n] : [s \in Trees[n] |-> RemoveBody(Removes(n), s)][t] =
          RemoveBody(Removes(n), t)
  OBVIOUS
<1> QED
  BY <1>1, <1>2

\* The copy of a subtree.
LEMMA CopyIs ==
  ASSUME NEW c \in Avl, c # NoNode, NEW lo \in Int, NEW hi \in Int, InOrder(c, lo, hi)
  PROVE  LET m == Rebalance(Updated(c))
         IN  /\ m \in Avl /\ InOrder(m, lo, hi) /\ Height(m) = Height(c)
             /\ \A j \in Int : Search(m, j) = Search(c, j)
<1>1. /\ c.key \in Int /\ c.pageId \in Nat /\ c.left \in Avl /\ c.right \in Avl
      /\ Height(c.left) \in Nat /\ Height(c.right) \in Nat
      /\ Height(c.left) - Height(c.right) \in -1 .. 1
      /\ Height(c) = Higher(Height(c.left), Height(c.right)) + 1
      /\ IsNode(c)
  BY NodeIs
<1>2. Updated(c) = Make(c.key, c.pageId, c.left, c.right)
  BY <1>1, UpdatedIs
<1>3. /\ lo < c.key /\ c.key < hi /\ InOrder(c.left, lo, c.key) /\ InOrder(c.right, c.key, hi)
  BY InOrderIs
<1>4. Height(c.left) - Height(c.right) \in -2 .. 2
  BY <1>1
<1>5. Balances(Rebalance(Updated(c)), c.key, c.pageId, c.left, c.right, lo, hi)
  BY <1>1, <1>2, <1>3, <1>4, RebalanceIs
<1>6. \A j \in Int : Search(c, j) = Either(c.key, c.pageId, c.left, c.right, j)
  BY SearchIs DEF Either
<1> QED
  BY <1>1, <1>5, <1>6 DEF Balances

\* What a removal makes of t: no higher, by one less high at most.
Removed(u, t, k, lo, hi) ==
  /\ u \in Avl /\ InOrder(u, lo, hi)
  /\ Height(u) \in Height(t) - 1 .. Height(t)
  /\ \A j \in Int : Search(u, j) = IF j = k THEN -1 ELSE Search(t, j)

\* Removal of the key of t, which has two subtrees; s is the least of r, u is r without it.
LEMMA SuccessorTakesOver ==
  ASSUME NEW t \in Avl, t # NoNode, NEW lo \in Int, NEW hi \in Int, InOrder(t, lo, hi),
         t.right # NoNode, NEW u,
         Removed(u, t.right, FindMin(t.right).key, t.key, hi)
  PROVE  Removed(Rebalance(Updated([Replaced(t, FindMin(t.right)) EXCEPT !.right = u])), t, t.key, lo, hi)
<1> DEFINE l == t.left
           r == t.right
           s == FindMin(r)
           m == Rebalance(Make(s.key, s.pageId, l, u))
<1>1. /\ t.key \in Int /\ t.pageId \in Nat /\ l \in Avl /\ r \in Avl
      /\ Height(l) \in Nat /\ Height(r) \in Nat
      /\ Height(l) - Height(r) \in -1 .. 1
      /\ Height(t) = Higher(Height(l), Height(r)) + 1
      /\ IsNode(t)
  BY NodeIs
<1>2. lo < t.key /\ t.key < hi /\ InOrder(l, lo, t.key) /\ InOrder(r, t.key, hi)
  BY InOrderIs
<1>3. \A j \in Int : Search(t, j) = Either(t.key, t.pageId, l, r, j)
  BY SearchIs DEF Either
<1>4. /\ s.key \in Int /\ s.pageId \in Nat /\ t.key < s.key /\ s.key < hi
      /\ Search(r, s.key) = s.pageId
      /\ \A j \in Int : j < s.key => Search(r, j) = -1
  BY <1>1, <1>2, FindMinIs
<1>5. Updated([Replaced(t, s) EXCEPT !.right = u]) = Make(s.key, s.pageId, l, u)
  <2>1. t = [key |-> t.key, pageId |-> t.pageId, left |-> l, right |-> r, height |-> t.height]
    BY <1>1 DEF IsNode
  <2> HIDE DEF s, l, r
  <2>2. Replaced(t, s) = [key |-> s.key, pageId |-> s.pageId, left |-> l, right |-> r, height |-> t.height]
    <3> DEFINE q == [key |-> t.key, pageId |-> t.pageId, left |-> l, right |-> r, height |-> t.height]
    <3>1. [q EXCEPT !.key = s.key, !.pageId = s.pageId]
            = [key |-> s.key, pageId |-> s.pageId, left |-> l, right |-> r, height |-> t.height]
      <4> DEFINE q1 == [key |-> s.key, pageId |-> t.pageId, left |-> l, right |-> r, height |-> t.height]
      <4>1. [q EXCEPT !.key = s.key] = q1
        OBVIOUS
      <4>2. [q1 EXCEPT !.pageId = s.pageId]
              = [key |-> s.key, pageId |-> s.pageId, left |-> l, right |-> r, height |-> t.height]
        OBVIOUS
      <4>3. [q EXCEPT !.key = s.key, !.pageId = s.pageId] = [[q EXCEPT !.key = s.key] EXCEPT !.pageId = s.pageId]
        OBVIOUS
      <4> HIDE DEF q, q1
      <4> QED
        BY <4>1, <4>2, <4>3
    <3>2. t = q
      BY <2>1
    <3> HIDE DEF q
    <3>3. Replaced(t, s) = [q EXCEPT !.key = s.key, !.pageId = s.pageId]
      BY <3>2 DEF Replaced
    <3> QED
      BY <3>1, <3>3
  <2> DEFINE p == Replaced(t, s)
  <2>3. IsNode(p) /\ p.key = s.key /\ p.pageId = s.pageId /\ p.left = l
    BY <2>2 DEF IsNode
  <2> HIDE DEF p
  <2>4. Updated([p EXCEPT !.right = u]) = Make(p.key, p.pageId, p.left, u)
    BY <2>3, UpdatedIs
  <2> QED
    BY <2>3, <2>4 DEF p
<1>6. /\ u \in Avl /\ InOrder(u, t.key, hi)
      /\ Height(u) \in Height(r) - 1 .. Height(r)
      /\ \A j \in Int : Search(u, j) = IF j = s.key THEN -1 ELSE Search(r, j)
  BY DEF Removed
<1> HIDE DEF s, l, r
<1>7. ASSUME NEW j \in Int, Search(u, j) # -1
      PROVE  s.key < j /\ j < hi
  <2>1. j < hi
    BY <1>1, <1>6, <1>7, FoundBetween
  <2>2. j # s.key /\ ~ (j < s.key)
    BY <1>4, <1>6, <1>7
  <2> QED
    BY <1>4, <2>1, <2>2
<1>8. InOrder(u, s.key, hi)
  BY <1>1, <1>4, <1>6, <1>7, InOrderBetween
<1>9. \A j \in Int : Search(l, j) # -1 => lo < j /\ j < t.key
  BY <1>1, <1>2, FoundBetween
<1>10. InOrder(l, lo, s.key)
  <2>1. \A j \in Int : Search(l, j) # -1 => lo < j /\ j < s.key
    BY <1>1, <1>4, <1>9
  <2> QED
    BY <1>1, <1>2, <1>4, <2>1, InOrderBetween
<1>11. Height(u) \in Nat /\ Height(l) - Height(u) \in -2 .. 2
  BY <1>1, <1>6, TreeIs
<1>12. lo < s.key
  BY <1>1, <1>2, <1>4
<1>13. Balances(m, s.key, s.pageId, l, u, lo, hi)
  BY <1>1, <1>4, <1>6, <1>8, <1>10, <1>11, <1>12, RebalanceIs
<1> HIDE DEF m
<1>14. Height(m) \in Height(t) - 1 .. Height(t)
  BY <1>1, <1>6, <1>11, <1>13 DEF Balances, Higher
<1>15. ASSUME NEW j \in Int
       PROVE  Search(m, j) = IF j = t.key THEN -1 ELSE Search(t, j)
  <2>1. Search(m, j) = Either(s.key, s.pageId, l, u, j)
    BY <1>13 DEF Balances
  <2>2. Search(t, j) = Either(t.key, t.pageId, l, r, j)
    BY <1>3
  <2>3. CASE j > s.key
    BY <1>1, <1>4, <1>6, <2>1, <2>2, <2>3 DEF Either
  <2>4. CASE j = s.key
    BY <1>1, <1>4, <2>1, <2>2, <2>4 DEF Either
  <2>5. CASE j < s.key
    <3>1. Search(m, j) = Search(l, j)
      BY <1>4, <2>1, <2>5 DEF Either
    <3>2. CASE j < t.key
      BY <1>1, <2>2, <3>1, <3>2 DEF Either
    <3>3. CASE j = t.key
      BY <1>1, <1>9, <3>1, <3>3
    <3>4. CASE j > t.key
      <4>1. Search(l, j) = -1
        BY <1>1, <1>9, <3>4
      <4>2. Search(t, j) = -1
        BY <1>1, <1>4, <2>2, <2>5, <3>4 DEF Either
      <4> QED
        BY <1>1, <3>1, <3>4, <4>1, <4>2
    <3> QED
      BY <1>1, <3>2, <3>3, <3>4
  <2> QED
    BY <1>4, <2>3, <2>4, <2>5
<1>16. Removed(m, t, t.key, lo, hi)
  BY <1>13, <1>14, <1>15 DEF Balances, Removed
<1> QED
  BY <1>5, <1>16 DEF m, s, l, r

\* Heights around a subtree that has become less high by one or none.
LEMMA HeightAfterRemoval ==
  ASSUME NEW a \in Nat, NEW b \in Nat, a - b \in -1 .. 1, NEW c \in Nat, c \in a - 1 .. a,
         NEW x \in Int
  PROVE  /\ /\ x \in Higher(c, b) .. Higher(c, b) + 1
            /\ c - b \in -1 .. 1 => x = Higher(c, b) + 1
            => x \in (Higher(a, b) + 1) - 1 .. Higher(a, b) + 1
         /\ /\ x \in Higher(b, c) .. Higher(b, c) + 1
            /\ b - c \in -1 .. 1 => x = Higher(b, c) + 1
            => x \in (Higher(b, a) + 1) - 1 .. Higher(b, a) + 1
<1>1. c = a \/ c = a - 1
  OBVIOUS
<1>2. CASE c = a
  BY <1>2 DEF Higher
<1>3. CASE c = a - 1
  BY <1>3 DEF Higher
<1> QED
  BY <1>1, <1>2, <1>3

\* A removal takes out one entry and nothing else.
THEOREM RemoveNodeIs ==
  ASSUME NEW root \in Avl, NEW key \in Int, NEW low \in Int, NEW high \in Int,
         InOrder(root, low, high)
  PROVE  Removed(RemoveNode(root, key), root, key, low, high)
<1> DEFINE n == Height(root)
           f == Removes(n)
           Fine(t) == t \in Trees[n] => \A k, lo, hi \in Int :
                        InOrder(t, lo, hi) => Removed(f[t][k], t, k, lo, hi)
           S == {t \in Avl : Fine(t)}
<1>1. n \in Nat /\ root \in Trees[n]
  BY TreeIs
<1>2. RemoveNode(root, key) = f[root][key]
  BY DEF RemoveNode, Removes, RemoveBody, RemoveFrom
<1> HIDE DEF n
<1>3. \A t \in Trees[n] : f[t] = RemoveBody(f, t)
  BY <1>1, RemovesIs
<1> HIDE DEF f
<1>4. NoNode \in S
  <2>1. SUFFICES ASSUME NoNode \in Trees[n], NEW k \in Int, NEW lo \in Int, NEW hi \in Int
                 PROVE  Removed(f[NoNode][k], NoNode, k, lo, hi)
    BY NoNodeIs
  <2>2. f[NoNode][k] = NoNode
    <3>1. f[NoNode] = [i \in Int |-> NoNode]
      BY <1>3, <2>1 DEF RemoveBody, RemoveFrom
    <3> QED
      BY <3>1
  <2> QED
    BY <2>2, NoNodeIs, InOrderIs, SearchIs DEF Removed
<1>5. ASSUME NEW t \in Avl, t # NoNode, t.left \in S, t.right \in S
      PROVE  t \in S
  <2>1. SUFFICES ASSUME t \in Trees[n], NEW k \in Int, NEW lo \in Int, NEW hi \in Int, InOrder(t, lo, hi)
                 PROVE  Removed(f[t][k], t, k, lo, hi)
    OBVIOUS
  <2> DEFINE l == t.left
             r == t.right
             h == Higher(Height(l), Height(r))
  <2>2. /\ t.key \in Int /\ t.pageId \in Nat /\ l \in Avl /\ r \in Avl
        /\ Height(l) \in Nat /\ Height(r) \in Nat
        /\ Height(l) - Height(r) \in -1 .. 1
        /\ Height(t) = h + 1
        /\ IsNode(t)
        /\ l \in Trees[n] /\ r \in Trees[n]
    BY <1>1, <1>5, <2>1, NodeIs, SubtreesIn
  <2>3. lo < t.key /\ t.key < hi /\ InOrder(l, lo, t.key) /\ InOrder(r, t.key, hi)
    BY <1>5, <2>1, InOrderIs
  <2>4. \A j \in Int : Search(t, j) = Either(t.key, t.pageId, l, r, j)
    BY <1>5, SearchIs DEF Either
  <2>5. f[t][k] = CASE k < t.key -> Rebalance(Updated([t EXCEPT !.left = f[t.left][k]]))
                    [] k > t.key -> Rebalance(Updated([t EXCEPT !.right = f[t.right][k]]))
                    [] k = t.key /\ t.left # NoNode /\ t.right # NoNode ->
                         Rebalance(Updated([Replaced(t, FindMin(t.right)) EXCEPT
                                              !.right = f[t.right][FindMin(t.right).key]]))
                    [] k = t.key /\ t.left = NoNode /\ t.right = NoNode -> NoNode
                    [] OTHER -> Rebalance(Updated(IF t.left # NoNode THEN t.left ELSE t.right))
    <3>1. f[t] = RemoveBody(f, t)
      BY <1>3, <2>1
    <3> QED
      BY <1>5, <3>1 DEF RemoveBody, RemoveFrom
  <2>6. CASE k < t.key
    <3> DEFINE u == f[l][k]
               m == Rebalance(Make(t.key, t.pageId, u, r))
    <3>1. f[t][k] = m
      <4>1. f[t][k] = Rebalance(Updated([t EXCEPT !.left = u]))
        BY <2>2, <2>5, <2>6
      <4>2. Updated([t EXCEPT !.left = u]) = Make(t.key, t.pageId, u, t.right)
        BY <2>2, UpdatedIs
      <4> QED
        BY <4>1, <4>2
    <3>2. Removed(u, l, k, lo, t.key)
      BY <1>5, <2>2, <2>3
    <3> HIDE DEF u
    <3>3. /\ u \in Avl /\ InOrder(u, lo, t.key) /\ Height(u) \in Height(l) - 1 .. Height(l)
          /\ \A j \in Int : Search(u, j) = IF j = k THEN -1 ELSE Search(l, j)
      BY <3>2 DEF Removed
    <3>4. Height(u) - Height(r) \in -2 .. 2 /\ Height(u) \in Nat
      BY <2>2, <3>3, TreeIs
    <3>5. Balances(m, t.key, t.pageId, u, r, lo, hi)
      BY <2>2, <2>3, <3>3, <3>4, RebalanceIs
    <3> HIDE DEF m, l, r
    <3>6. Height(m) \in Height(t) - 1 .. Height(t)
      <4>1. /\ Height(m) \in Higher(Height(u), Height(r)) .. Higher(Height(u), Height(r)) + 1
            /\ Height(u) - Height(r) \in -1 .. 1 => Height(m) = Higher(Height(u), Height(r)) + 1
        BY <3>5 DEF Balances
      <4>2. Height(m) \in Int
        BY <3>5, TreeIs DEF Balances
      <4>3. Height(u) \in Height(l) - 1 .. Height(l) /\ Height(l) - Height(r) \in -1 .. 1
        BY <2>2, <3>3
      <4> QED
        BY <2>2, <3>4, <4>1, <4>2, <4>3, HeightAfterRemoval
    <3>7. \A j \in Int : Search(m, j) = IF j = k THEN -1 ELSE Search(t, j)
      BY <2>2, <2>4, <2>6, <3>3, <3>5 DEF Balances, Either
    <3> QED
      BY <3>1, <3>5, <3>6, <3>7 DEF Balances, Removed
  <2>7. CASE k > t.key
    <3> DEFINE u == f[r][k]
               m == Rebalance(Make(t.key, t.pageId, l, u))
    <3>1. f[t][k] = m
      <4>1. f[t][k] = Rebalance(Updated([t EXCEPT !.right = u]))
        BY <2>2, <2>5, <2>7
      <4>2. Updated([t EXCEPT !.right = u]) = Make(t.key, t.pageId, t.left, u)
        BY <2>2, UpdatedIs
      <4> QED
        BY <4>1, <4>2
    <3>2. Removed(u, r, k, t.key, hi)
      BY <1>5, <2>2, <2>3
    <3> HIDE DEF u
    <3>3. /\ u \in Avl /\ InOrder(u, t.key, hi) /\ Height(u) \in Height(r) - 1 .. Height(r)
          /\ \A j \in Int : Search(u, j) = IF j = k THEN -1 ELSE Search(r, j)
      BY <3>2 DEF Removed
    <3>4. Height(l) - Height(u) \in -2 .. 2 /\ Height(u) \in Nat
      BY <2>2, <3>3, TreeIs
    <3>5. Balances(m, t.key, t.pageId, l, u, lo, hi)
      BY <2>2, <2>3, <3>3, <3>4, RebalanceIs
    <3> HIDE DEF m, l, r
    <3>6. Height(m) \in Height(t) - 1 .. Height(t)
      <4>1. /\ Height(m) \in Higher(Height(l), Height(u)) .. Higher(Height(l), Height(u)) + 1
            /\ Height(l) - Height(u) \in -1 .. 1 => Height(m) = Higher(Height(l), Height(u)) + 1
        BY <3>5 DEF Balances
      <4>2. Height(m) \in Int
        BY <3>5, TreeIs DEF Balances
      <4>3. Height(u) \in Height(r) - 1 .. Height(r) /\ Height(r) - Height(l) \in -1 .. 1
        BY <2>2, <3>3
      <4> QED
        BY <2>2, <3>4, <4>1, <4>2, <4>3, HeightAfterRemoval
    <3>7. \A j \in Int : Search(m, j) = IF j = k THEN -1 ELSE Search(t, j)
      BY <2>2, <2>4, <2>7, <3>3, <3>5 DEF Balances, Either
    <3> QED
      BY <3>1, <3>5, <3>6, <3>7 DEF Balances, Removed
  <2>8. CASE k = t.key /\ l # NoNode /\ r # NoNode
    <3> DEFINE s == FindMin(r)
    <3>1. f[t][k] = Rebalance(Updated([Replaced(t, s) EXCEPT !.right = f[r][s.key]]))
      BY <2>2, <2>5, <2>8
    <3>2. s.key \in Int
      BY <2>2, <2>3, <2>8, FindMinIs
    <3>3. Removed(f[r][s.key], r, s.key, t.key, hi)
      BY <1>5, <2>2, <2>3, <3>2
    <3> QED
      BY <1>5, <2>1, <2>8, <3>1, <3>3, SuccessorTakesOver
  <2>9. CASE k = t.key /\ l = NoNode /\ r = NoNode
    <3>1. f[t][k] = NoNode
      BY <2>2, <2>5, <2>9
    <3>2. Height(t) = 1
      BY <2>2, <2>9, NoNodeIs DEF Higher
    <3>3. \A j \in Int : Search(NoNode, j) = IF j = k THEN -1 ELSE Search(t, j)
      BY <2>2, <2>4, <2>9, SearchIs DEF Either
    <3> QED
      BY <3>1, <3>2, <3>3, NoNodeIs, InOrderIs DEF Removed
  <2>10. CASE k = t.key /\ l # NoNode /\ r = NoNode
    <3> DEFINE m == Rebalance(Updated(l))
    <3>1. f[t][k] = m
      BY <2>2, <2>5, <2>10
    <3>2. \A j \in Int : Search(l, j) # -1 => lo < j /\ j < t.key
      BY <2>2, <2>3, FoundBetween
    <3>3. InOrder(l, lo, hi)
      <4>1. \A j \in Int : Search(l, j) # -1 => lo < j /\ j < hi
        BY <2>2, <2>3, <3>2
      <4> QED
        BY <2>2, <2>3, <4>1, InOrderBetween
    <3>4. /\ m \in Avl /\ InOrder(m, lo, hi) /\ Height(m) = Height(l)
          /\ \A j \in Int : Search(m, j) = Search(l, j)
      BY <2>2, <2>10, <3>3, CopyIs
    <3>5. Height(t) = Height(l) + 1
      BY <2>2, <2>10, NoNodeIs DEF Higher
    <3>6. \A j \in Int : Search(l, j) = IF j = k THEN -1 ELSE Search(t, j)
      <4>1. \A j \in Int : Search(r, j) = -1
        BY <2>10, SearchIs
      <4> HIDE DEF l, r
      <4> QED
        BY <2>2, <2>4, <2>10, <3>2, <4>1 DEF Either
    <3> HIDE DEF m, l
    <3> QED
      BY <2>2, <3>1, <3>4, <3>5, <3>6 DEF Removed
  <2>11. CASE k = t.key /\ l = NoNode /\ r # NoNode
    <3> DEFINE m == Rebalance(Updated(r))
    <3>1. f[t][k] = m
      BY <2>2, <2>5, <2>11
    <3>2. \A j \in Int : Search(r, j) # -1 => t.key < j /\ j < hi
      BY <2>2, <2>3, FoundBetween
    <3>3. InOrder(r, lo, hi)
      <4>1. \A j \in Int : Search(r, j) # -1 => lo < j /\ j < hi
        BY <2>2, <2>3, <3>2
      <4> QED
        BY <2>2, <2>3, <4>1, InOrderBetween
    <3>4. /\ m \in Avl /\ InOrder(m, lo, hi) /\ Height(m) = Height(r)
          /\ \A j \in Int : Search(m, j) = Search(r, j)
      BY <2>2, <2>11, <3>3, CopyIs
    <3>5. Height(t) = Height(r) + 1
      BY <2>2, <2>11, NoNodeIs DEF Higher
    <3>6. \A j \in Int : Search(r, j) = IF j = k THEN -1 ELSE Search(t, j)
      <4>1. \A j \in Int : Search(l, j) = -1
        BY <2>11, SearchIs
      <4> HIDE DEF l, r
      <4> QED
        BY <2>2, <2>4, <2>11, <3>2, <4>1 DEF Either
    <3> HIDE DEF m, r
    <3> QED
      BY <2>2, <3>1, <3>4, <3>5, <3>6 DEF Removed
  <2> QED
    BY <2>2, <2>6, <2>7, <2>8, <2>9, <2>10, <2>11
<1> HIDE DEF S
<1>6. \A t \in Avl : t \in S
  BY <1>4, <1>5, TreeInduction
<1>7. Fine(root)
  BY <1>6 DEF S
<1> QED
  BY <1>1, <1>2, <1>7


(***************************************************************************)
(* Range searches: which keys they list, and in which places.              *)
(***************************************************************************)
Rank(H, k) == Cardinality({x \in H : x <= k})

\* The sequence s has for each key of H what pages has, in order of the keys.
Lists(s, H, pages) ==
  /\ s \in Seq(Nat) /\ IsFiniteSet(H) /\ Len(s) = Cardinality(H)
  /\ \A k \in H : Rank(H, k) \in 1 .. Len(s) /\ s[Rank(H, k)] = pages[k]

\* The lists of no key, of one, and of two sets with one all below the other.
LEMMA NothingListed ==
  ASSUME NEW pages
  PROVE  Lists(<< >>, {}, pages)
BY FS_EmptySet DEF Lists

LEMMA OneListed ==
  ASSUME NEW pages, NEW k \in Int, pages[k] \in Nat
  PROVE  Lists(<< pages[k] >>, {k}, pages)
<1> DEFINE s == << pages[k] >>
<1>1. s \in Seq(Nat) /\ Len(s) = 1 /\ s[1] = pages[k]
  OBVIOUS
<1>2. IsFiniteSet({k}) /\ Cardinality({k}) = 1
  BY FS_Singleton
<1>3. {x \in {k} : x <= k} = {k}
  OBVIOUS
<1>4. \A j \in {k} : Rank({k}, j) = 1 /\ j = k
  BY <1>2, <1>3 DEF Rank
<1> HIDE DEF s
<1>5. Lists(s, {k}, pages)
  BY <1>1, <1>2, <1>4 DEF Lists
<1> QED
  BY <1>5 DEF s

LEMMA ListsJoin ==
  ASSUME NEW A \in SUBSET Int, NEW B \in SUBSET Int, NEW a, NEW b, NEW pages,
         Lists(a, A, pages), Lists(b, B, pages), \A x \in A : \A y \in B : x < y
  PROVE  Lists(a \o b, A \union B, pages)
<1> DEFINE H == A \union B
           s == a \o b
<1>1. /\ a \in Seq(Nat) /\ b \in Seq(Nat) /\ Len(a) \in Nat /\ Len(b) \in Nat
      /\ IsFiniteSet(A) /\ IsFiniteSet(B)
      /\ Len(a) = Cardinality(A) /\ Len(b) = Cardinality(B)
  BY DEF Lists
<1>2. /\ s \in Seq(Nat) /\ Len(s) = Len(a) + Len(b)
      /\ \A i \in 1 .. Len(a) : s[i] = a[i]
      /\ \A i \in 1 .. Len(b) : s[Len(a) + i] = b[i]
  <2>1. s \in Seq(Nat) /\ Len(s) = Len(a) + Len(b)
    BY <1>1, ConcatProperties
  <2>2. \A i \in 1 .. Len(s) : s[i] = IF i <= Len(a) THEN a[i] ELSE b[i - Len(a)]
    BY <1>1, ConcatProperties
  <2> HIDE DEF s
  <2>3. ASSUME NEW i \in 1 .. Len(b)
        PROVE  s[Len(a) + i] = b[i]
    <3>1. Len(a) + i \in 1 .. Len(s) /\ ~ (Len(a) + i <= Len(a)) /\ (Len(a) + i) - Len(a) = i
      BY <1>1, <2>1
    <3> QED
      BY <2>2, <3>1
  <2>4. ASSUME NEW i \in 1 .. Len(a)
        PROVE  s[i] = a[i]
    <3>1. i \in 1 .. Len(s) /\ i <= Len(a)
      BY <1>1, <2>1
    <3> QED
      BY <2>2, <3>1
  <2> QED
    BY <2>1, <2>3, <2>4
<1>3. /\ A \intersect B = {}
      /\ \A x \in H : x \in Int
      /\ \A x \in A : \A y \in B : ~ (y <= x) /\ x <= y
  <2>1. \A x \in A : x \in Int
    OBVIOUS
  <2>2. \A x \in B : x \in Int
    OBVIOUS
  <2>3. \A x \in A : \A y \in B : ~ (y <= x) /\ x <= y /\ x # y
    BY <2>1, <2>2
  <2> QED
    BY <2>1, <2>2, <2>3
<1>4. IsFiniteSet(H) /\ Cardinality(H) = Len(s)
  <2>1. IsFiniteSet(A \union B) /\ Cardinality(A \intersect B) = 0
    BY <1>1, <1>3, FS_Union, FS_EmptySet
  <2>2. Cardinality(A \union B) = Cardinality(A) + Cardinality(B) - Cardinality(A \intersect B)
    BY <1>1, FS_Union
  <2> QED
    BY <1>1, <1>2, <2>1, <2>2
<1>5. ASSUME NEW k \in A
      PROVE  Rank(H, k) = Rank(A, k)
  <2>1. \A x : x \in {y \in H : y <= k} <=> x \in {y \in A : y <= k}
    BY <1>3
  <2>2. {x \in H : x <= k} = {x \in A : x <= k}
    BY <2>1
  <2> QED
    BY <2>2 DEF Rank
<1>6. ASSUME NEW k \in B
      PROVE  Rank(H, k) = Len(a) + Rank(B, k)
  <2> DEFINE D == {x \in B : x <= k}
  <2>1. \A x : x \in {y \in H : y <= k} <=> x \in A \union D
    BY <1>3
  <2>2. {x \in H : x <= k} = A \union D
    BY <2>1
  <2>3. IsFiniteSet(D)
    BY <1>1, FS_Subset
  <2>4. A \intersect D = {}
    BY <1>3
  <2>5. Rank(H, k) = Cardinality(A \union D) /\ Rank(B, k) = Cardinality(D)
    BY <2>2 DEF Rank
  <2> HIDE DEF D, H
  <2>6. Cardinality(A \union D) = Cardinality(A) + Cardinality(D) - Cardinality(A \intersect D)
    BY <1>1, <2>3, FS_Union
  <2>7. Cardinality(A \intersect D) = 0 /\ Cardinality(D) \in Nat
    BY <2>3, <2>4, FS_EmptySet, FS_CardinalityType
  <2> QED
    BY <1>1, <2>5, <2>6, <2>7
<1> HIDE DEF H, s
<1>7. ASSUME NEW k \in H
      PROVE  Rank(H, k) \in 1 .. Len(s) /\ s[Rank(H, k)] = pages[k]
  <2>1. CASE k \in A
    <3>1. Rank(A, k) \in 1 .. Len(a) /\ a[Rank(A, k)] = pages[k]
      BY <2>1 DEF Lists
    <3>2. Rank(H, k) = Rank(A, k)
      BY <1>5, <2>1
    <3> QED
      BY <1>1, <1>2, <3>1, <3>2
  <2>2. CASE k \in B
    <3>1. Rank(B, k) \in 1 .. Len(b) /\ b[Rank(B, k)] = pages[k]
      BY <2>2 DEF Lists
    <3>2. Rank(H, k) = Len(a) + Rank(B, k)
      BY <1>6, <2>2
    <3>3. Rank(H, k) \in 1 .. Len(s)
      BY <1>1, <1>2, <3>1, <3>2
    <3>4. s[Rank(H, k)] = b[Rank(B, k)]
      <4>1. s[Len(a) + Rank(B, k)] = b[Rank(B, k)]
        BY <1>2, <3>1
      <4> QED
        BY <3>2, <4>1
    <3> QED
      BY <3>1, <3>3, <3>4
  <2> QED
    BY <2>1, <2>2 DEF H
<1>8. Lists(s, H, pages)
  BY <1>2, <1>4, <1>7 DEF Lists
<1> QED
  BY <1>8 DEF s, H

Hits(t, low, high) == {k \in Int : low <= k /\ k <= high /\ Search(t, k) # -1}

PagesIn(t) == [k \in Int |-> Search(t, k)]

CollectBody(f, low, high, t) ==
  IF t = NoNode THEN << >>
  ELSE (IF low < t.key THEN f[t.left] ELSE << >>)
       \o (IF InRange(t.key, low, high) THEN << t.pageId >> ELSE << >>)
       \o (IF high > t.key THEN f[t.right] ELSE << >>)

\* The recursion of RangeCollect has a solution.
LEMMA CollectFunction ==
  ASSUME NEW low, NEW high
  PROVE  \A n \in Nat : \E f : f = [t \in Trees[n] |-> CollectBody(f, low, high, t)]
<1> DEFINE S == {n \in Nat : \E f : f = [t \in Trees[n] |-> CollectBody(f, low, high, t)]}
<1>1. 0 \in S
  <2> DEFINE f == [t \in Trees[0] |-> << >>]
  <2>1. \A t \in Trees[0] : CollectBody(f, low, high, t) = << >>
    BY NoNodeIs DEF CollectBody
  <2>2. f = [t \in Trees[0] |-> CollectBody(f, low, high, t)]
    BY <2>1
  <2> QED
    BY <2>2
<1>2. ASSUME NEW n \in Nat, n \in S
      PROVE  n + 1 \in S
  <2>1. PICK f : f = [t \in Trees[n] |-> CollectBody(f, low, high, t)]
    BY <1>2
  <2> DEFINE g == [t \in Trees[n + 1] |-> CollectBody(f, low, high, t)]
  <2>2. \A t \in Trees[n] : f[t] = CollectBody(f, low, high, t)
    <3>1. \A t \in Trees[n] : [s \in Trees[n] |-> CollectBody(f, low, high, s)][t] =
              CollectBody(f, low, high, t)
      OBVIOUS
    <3> QED
      BY <2>1, <3>1
  <2>3. \A t \in Trees[n] : g[t] = f[t]
    BY <2>2, TreesGrow
  <2>4. \A t \in Trees[n + 1] : t # NoNode => t.left \in Trees[n] /\ t.right \in Trees[n]
    <3>1. n + 1 \in Nat /\ (n + 1) - 1 = n
      OBVIOUS
    <3> QED
      BY <3>1, SubtreesIn
  <2> HIDE DEF g
  <2>5. \A t \in Trees[n + 1] : CollectBody(g, low, high, t) = CollectBody(f, low, high, t)
    BY <2>3, <2>4 DEF CollectBody
  <2>6. g = [t \in Trees[n + 1] |-> CollectBody(g, low, high, t)]
    BY <2>5 DEF g
  <2> QED
    BY <2>6
<1> HIDE DEF S
<1>3. \A n \in Nat : n \in S
  BY <1>1, <1>2, AllOfNat
<1> QED
  BY <1>3 DEF S

Collects(n, low, high) == CHOOSE f : f = [t \in Trees[n] |-> CollectBody(f, low, high, t)]

LEMMA CollectsIs ==
  ASSUME NEW n \in Nat, NEW low, NEW high
  PROVE  \A t \in Trees[n] : Collects(n, low, high)[t] = CollectBody(Collects(n, low, high), low, high, t)
<1>1. Collects(n, low, high) = [t \in Trees[n] |-> CollectBody(Collects(n, low, high), low, high, t)]
  BY CollectFunction DEF Collects
<1>2. \A t \in Trees[n] : [s \in Trees[n] |-> CollectBody(Collects(n, low, high), low, high, s)][t] =
          CollectBody(Collects(n, low, high), low, high, t)
  OBVIOUS
<1> QED
  BY <1>1, <1>2

\* The pages of the keys in the range, in order.
LEMMA RangeCollectIs ==
  ASSUME NEW root \in Avl, NEW low \in Int, NEW high \in Int,
         NEW lowest \in Int, NEW highest \in Int, InOrder(root, lowest, highest)
  PROVE  Lists(RangeCollect(root, low, high), Hits(root, low, high), PagesIn(root))
<1> DEFINE n == Height(root)
           f == Collects(n, low, high)
           Fine(t) == t \in Trees[n] => \A lo, hi \in Int :
                        InOrder(t, lo, hi) => Lists(f[t], Hits(t, low, high), PagesIn(t))
           S == {t \in Avl : Fine(t)}
<1>1. n \in Nat /\ root \in Trees[n]
  BY TreeIs
<1>2. RangeCollect(root, low, high) = f[root]
  BY DEF RangeCollect, Collects, CollectBody
<1> HIDE DEF n
<1>3. \A t \in Trees[n] : f[t] = CollectBody(f, low, high, t)
  BY <1>1, CollectsIs
<1> HIDE DEF f
<1>4. NoNode \in S
  <2>1. SUFFICES ASSUME NoNode \in Trees[n]
                 PROVE  Lists(f[NoNode], Hits(NoNode, low, high), PagesIn(NoNode))
    BY NoNodeIs
  <2>2. f[NoNode] = << >>
    BY <1>3, <2>1 DEF CollectBody
  <2>3. Hits(NoNode, low, high) = {}
    BY SearchIs DEF Hits
  <2> QED
    BY <2>2, <2>3, NothingListed
<1>5. ASSUME NEW t \in Avl, t # NoNode, t.left \in S, t.right \in S
      PROVE  t \in S
  <2>1. SUFFICES ASSUME t \in Trees[n], NEW lo \in Int, NEW hi \in Int, InOrder(t, lo, hi)
                 PROVE  Lists(f[t], Hits(t, low, high), PagesIn(t))
    OBVIOUS
  <2> DEFINE l == t.left
             r == t.right
             key == t.key
             P == PagesIn(t)
             a == IF low < key THEN f[l] ELSE << >>
             b == IF InRange(key, low, high) THEN << t.pageId >> ELSE << >>
             c == IF high > key THEN f[r] ELSE << >>
             A == Hits(l, low, high)
             B == IF InRange(key, low, high) THEN {key} ELSE {}
             C == Hits(r, low, high)
  <2>2. /\ key \in Int /\ t.pageId \in Nat /\ l \in Avl /\ r \in Avl
        /\ l \in Trees[n] /\ r \in Trees[n]
    BY <1>1, <1>5, <2>1, NodeIs, SubtreesIn
  <2>3. lo < key /\ key < hi /\ InOrder(l, lo, key) /\ InOrder(r, key, hi)
    BY <1>5, <2>1, InOrderIs
  <2>4. \A j \in Int : Search(t, j) = Either(key, t.pageId, l, r, j)
    BY <1>5, SearchIs DEF Either
  <2>5. f[t] = (a \o b) \o c
    <3>1. f[t] = CollectBody(f, low, high, t)
      BY <1>3, <2>1
    <3> QED
      BY <1>5, <3>1 DEF CollectBody
  <2>6. /\ \A j \in Int : Search(l, j) # -1 => lo < j /\ j < key
        /\ \A j \in Int : Search(r, j) # -1 => key < j /\ j < hi
    BY <2>2, <2>3, FoundBetween
  <2> HIDE DEF l, r, key
  <2>7. /\ \A j \in A : j \in Int /\ j < key /\ low <= j /\ j <= high /\ P[j] = PagesIn(l)[j]
        /\ \A j \in C : j \in Int /\ key < j /\ low <= j /\ j <= high /\ P[j] = PagesIn(r)[j]
    BY <2>2, <2>4, <2>6 DEF Hits, Either, PagesIn
  <2>8. Lists(a, A, P)
    <3>1. CASE low < key
      <4>1. Lists(f[l], A, PagesIn(l))
        BY <1>5, <2>2, <2>3 DEF l
      <4> QED
        BY <2>7, <3>1, <4>1 DEF Lists
    <3>2. CASE ~ (low < key)
      <4>1. A = {}
        BY <2>2, <2>7, <3>2
      <4> QED
        BY <3>2, <4>1, NothingListed
    <3> QED
      BY <3>1, <3>2
  <2>9. Lists(c, C, P)
    <3>1. CASE high > key
      <4>1. Lists(f[r], C, PagesIn(r))
        BY <1>5, <2>2, <2>3 DEF r
      <4> QED
        BY <2>7, <3>1, <4>1 DEF Lists
    <3>2. CASE ~ (high > key)
      <4>1. C = {}
        BY <2>2, <2>7, <3>2
      <4> QED
        BY <3>2, <4>1, NothingListed
    <3> QED
      BY <3>1, <3>2
  <2>10. P[key] = t.pageId
    BY <2>2, <2>4 DEF PagesIn, Either
  <2>11. Lists(b, B, P)
    <3>1. CASE InRange(key, low, high)
      <4>1. P[key] \in Nat
        BY <2>2, <2>10
      <4> HIDE DEF P
      <4>2. Lists(<< P[key] >>, {key}, P)
        BY <2>2, <4>1, OneListed
      <4> QED
        BY <2>10, <3>1, <4>2
    <3>2. CASE ~ InRange(key, low, high)
      BY <3>2, NothingListed
    <3> QED
      BY <3>1, <3>2
  <2>12. A \in SUBSET Int /\ B \in SUBSET Int /\ C \in SUBSET Int
    BY <2>2, <2>7
  <2>13. /\ \A x \in A : \A y \in B : x < y
         /\ \A x \in A \union B : \A y \in C : x < y
    <3>1. \A x \in B : x = key
      OBVIOUS
    <3>2. \A x \in A : x \in Int /\ x < key
      BY <2>7
    <3>3. \A x \in C : x \in Int /\ key < x
      BY <2>7
    <3> HIDE DEF A, B, C
    <3> QED
      BY <2>2, <3>1, <3>2, <3>3
  <2>14. Hits(t, low, high) = (A \union B) \union C
    <3>1. ASSUME NEW j \in Int
          PROVE  j \in Hits(t, low, high) <=> j \in A \/ j \in B \/ j \in C
      <4>1. Search(t, j) = Either(key, t.pageId, l, r, j)
        BY <2>4
      <4>2. CASE j < key
        <5>1. Search(r, j) = -1
          BY <2>2, <2>6, <4>2
        <5> QED
          BY <2>2, <4>1, <4>2, <5>1 DEF Hits, Either
      <4>3. CASE j > key
        <5>1. Search(l, j) = -1
          BY <2>2, <2>6, <4>3
        <5> QED
          BY <2>2, <4>1, <4>3, <5>1 DEF Hits, Either
      <4>4. CASE j = key
        <5>1. Search(l, j) = -1 /\ Search(r, j) = -1
          BY <2>2, <2>6, <4>4
        <5> QED
          BY <2>2, <4>1, <4>4, <5>1 DEF Hits, Either, InRange
      <4> QED
        BY <2>2, <4>2, <4>3, <4>4
    <3>2. Hits(t, low, high) \in SUBSET Int
      BY DEF Hits
    <3> HIDE DEF A, B, C
    <3> QED
      BY <2>12, <3>1, <3>2
  <2> HIDE DEF a, b, c, A, B, C, P
  <2>15. Lists(a \o b, A \union B, P)
    BY <2>8, <2>11, <2>12, <2>13, ListsJoin
  <2>16. Lists((a \o b) \o c, (A \union B) \union C, P)
    <3>1. A \union B \in SUBSET Int
      BY <2>12
    <3> QED
      BY <2>9, <2>12, <2>13, <2>15, <3>1, ListsJoin
  <2> QED
    BY <2>5, <2>14, <2>16 DEF P
<1> HIDE DEF S
<1>6. \A t \in Avl : t \in S
  BY <1>4, <1>5, TreeInduction
<1>7. Fine(root)
  BY <1>6 DEF S
<1> QED
  BY <1>1, <1>2, <1>7

(***************************************************************************)
(* The chains.                                                             *)
(***************************************************************************)
Links == [key : Indexes, tree : [root : Avl, nodeCount : Int]]

\* What Chain, HasIndex, Position and Tree say, of a chain as a value.
Holds(c, n, tree) == \E i \in DOMAIN c : c[i].key = n /\ c[i].tree = tree
Has(c, n) == \E i \in DOMAIN c : c[i].key = n
At(c, n) == CHOOSE i \in DOMAIN c : c[i].key = n
TreeIn(c, n) == c[At(c, n)].tree

\* The chain of bucket b: names of that hash, each of them once.
IsChain(c, b) ==
  /\ c \in Seq(Links)
  /\ \A i \in DOMAIN c : HashOf[c[i].key] = b
  /\ \A i, j \in DOMAIN c : c[i].key = c[j].key => i = j

\* Of the names but n the chains c and d tell the same.
SameBut(c, d, n) ==
  \A m \in Indexes \ {n} : /\ Has(d, m) <=> Has(c, m)
                           /\ Has(c, m) => TreeIn(d, m) = TreeIn(c, m)

\* What is in a chain.
LEMMA ChainTypes ==
  ASSUME NEW b, NEW c, IsChain(c, b), NEW i \in DOMAIN c
  PROVE  /\ Len(c) \in Nat /\ DOMAIN c = 1 .. Len(c) /\ i \in 1 .. Len(c)
         /\ c[i] \in Links /\ c[i] = [key |-> c[i].key, tree |-> c[i].tree]
         /\ c[i].key \in Indexes /\ c[i].tree \in [root : Avl, nodeCount : Int]
<1>1. c \in Seq(Links) /\ Len(c) \in Nat /\ DOMAIN c = 1 .. Len(c)
  BY LenProperties DEF IsChain
<1>2. c[i] \in Links
  BY <1>1, ElementOfSeq
<1> QED
  BY <1>1, <1>2 DEF Links

\* A name is at one position of its chain.
LEMMA AtIs ==
  ASSUME NEW b, NEW c, IsChain(c, b), NEW n
  PROVE  /\ Has(c, n) => At(c, n) \in DOMAIN c /\ c[At(c, n)].key = n
         /\ \A i \in DOMAIN c : c[i].key = n => At(c, n) = i
BY DEF IsChain, Has, At

\* A chain holds for a name no tree but the one that is found.
LEMMA HoldsIs ==
  ASSUME NEW b, NEW c, IsChain(c, b), NEW n
  PROVE  /\ Has(c, n) => Holds(c, n, TreeIn(c, n))
         /\ \A tree : Holds(c, n, tree) => Has(c, n) /\ TreeIn(c, n) = tree
<1>1. Has(c, n) => Holds(c, n, TreeIn(c, n))
  BY AtIs DEF Holds, TreeIn
<1>2. ASSUME NEW tree, Holds(c, n, tree)
      PROVE  Has(c, n) /\ TreeIn(c, n) = tree
  <2>1. PICK i \in DOMAIN c : c[i].key = n /\ c[i].tree = tree
    BY <1>2 DEF Holds
  <2>2. At(c, n) = i
    BY <2>1, AtIs
  <2> QED
    BY <2>1, <2>2 DEF Has, TreeIn
<1> QED
  BY <1>1, <1>2

\* Chains that hold the same for the other names.
LEMMA SameButIs ==
  ASSUME NEW b, NEW c, NEW d, IsChain(c, b), IsChain(d, b), NEW n,
         \A m \in Indexes \ {n} : \A tree : Holds(d, m, tree) <=> Holds(c, m, tree)
  PROVE  SameBut(c, d, n)
<1>1. ASSUME NEW m \in Indexes \ {n}, Has(c, m)
      PROVE  Has(d, m) /\ TreeIn(d, m) = TreeIn(c, m)
  <2>1. Holds(d, m, TreeIn(c, m))
    BY <1>1, HoldsIs
  <2> QED
    BY <2>1, HoldsIs
<1>2. ASSUME NEW m \in Indexes \ {n}, Has(d, m)
      PROVE  Has(c, m)
  <2>1. Holds(c, m, TreeIn(d, m))
    BY <1>2, HoldsIs
  <2> QED
    BY <2>1, HoldsIs
<1> QED
  BY <1>1, <1>2 DEF SameBut

\* createIndex at the head.
LEMMA Pushed ==
  ASSUME NEW b, NEW c, IsChain(c, b), NEW n \in Indexes, HashOf[n] = b, ~ Has(c, n),
         NEW tree \in [root : Avl, nodeCount : Int], NEW d,
         d = << [key |-> n, tree |-> tree] >> \o c
  PROVE  IsChain(d, b) /\ Has(d, n) /\ TreeIn(d, n) = tree /\ SameBut(c, d, n)
<1> DEFINE link == [key |-> n, tree |-> tree]
           one == << link >>
<1>1. link \in Links /\ link.key = n /\ link.tree = tree
  BY DEF Links
<1> HIDE DEF link
<1>2. c \in Seq(Links) /\ Len(c) \in Nat /\ DOMAIN c = 1 .. Len(c)
  BY LenProperties DEF IsChain
<1>3. one \in Seq(Links) /\ Len(one) = 1 /\ one[1] = link
  BY <1>1
<1>4. d = one \o c
  BY DEF link
<1> HIDE DEF one
<1>5. /\ d \in Seq(Links) /\ Len(d) = 1 + Len(c) /\ DOMAIN d = 1 .. Len(d)
      /\ \A i \in 1 .. Len(d) : d[i] = IF i <= 1 THEN one[i] ELSE c[i - 1]
  BY <1>2, <1>3, <1>4, ConcatProperties, LenProperties
<1>6. d[1] = link /\ 1 \in DOMAIN d
  BY <1>2, <1>3, <1>5
<1>7. \A i \in DOMAIN d : i # 1 => i - 1 \in DOMAIN c /\ d[i] = c[i - 1]
  BY <1>2, <1>5
<1>8. \A i \in DOMAIN c : i + 1 \in DOMAIN d /\ i + 1 # 1 /\ d[i + 1] = c[i]
  <2>1. ASSUME NEW i \in DOMAIN c
        PROVE  i + 1 \in DOMAIN d /\ i + 1 # 1 /\ (i + 1) - 1 = i
    BY <1>2, <1>5
  <2> QED
    BY <1>7, <2>1
<1>9. \A i \in DOMAIN c : c[i].key # n
  BY DEF Has
<1>10. IsChain(d, b)
  <2>1. \A i \in DOMAIN d : HashOf[d[i].key] = b
    BY <1>1, <1>6, <1>7 DEF IsChain
  <2>2. ASSUME NEW i \in DOMAIN d, NEW j \in DOMAIN d, d[i].key = d[j].key
        PROVE  i = j
    <3>1. i = 1 <=> j = 1
      BY <1>1, <1>6, <1>7, <1>9, <2>2
    <3>2. CASE i # 1
      <4>1. i - 1 = j - 1
        BY <1>7, <2>2, <3>1, <3>2 DEF IsChain
      <4> QED
        BY <1>2, <1>5, <4>1
    <3> QED
      BY <3>1, <3>2
  <2> QED
    BY <1>5, <2>1, <2>2 DEF IsChain
<1>11. Has(d, n) /\ TreeIn(d, n) = tree
  <2>1. Holds(d, n, tree)
    BY <1>1, <1>6 DEF Holds
  <2> QED
    BY <1>10, <2>1, HoldsIs
<1>12. ASSUME NEW m \in Indexes \ {n}, NEW t
       PROVE  Holds(d, m, t) <=> Holds(c, m, t)
  <2>1. ASSUME NEW i \in DOMAIN d, d[i].key = m, d[i].tree = t
        PROVE  Holds(c, m, t)
    <3>1. i # 1
      BY <1>1, <1>6, <2>1
    <3> QED
      BY <1>7, <2>1, <3>1 DEF Holds
  <2>2. ASSUME NEW i \in DOMAIN c, c[i].key = m, c[i].tree = t
        PROVE  Holds(d, m, t)
    BY <1>8, <2>2 DEF Holds
  <2> QED
    BY <2>1, <2>2 DEF Holds
<1>13. SameBut(c, d, n)
  BY <1>10, <1>12, SameButIs
<1> QED
  BY <1>10, <1>11, <1>13

\* dropIndex takes the link out.
LEMMA Dropped ==
  ASSUME NEW b, NEW c, IsChain(c, b), NEW n \in Indexes, Has(c, n), NEW d,
         d = Unlinked(c, At(c, n))
  PROVE  IsChain(d, b) /\ ~ Has(d, n) /\ SameBut(c, d, n)
<1> DEFINE p == At(c, n)
           front == SubSeq(c, 1, p - 1)
           back == SubSeq(c, p + 1, Len(c))
<1>1. p \in DOMAIN c /\ c[p].key = n /\ \A i \in DOMAIN c : c[i].key = n => i = p
  BY AtIs
<1>2. c \in Seq(Links) /\ Len(c) \in Nat /\ DOMAIN c = 1 .. Len(c) /\ p \in 1 .. Len(c)
  BY <1>1, LenProperties DEF IsChain
<1>3. d = front \o back
  BY DEF Unlinked, RemoveAt
<1> HIDE DEF p
<1>4. \A i \in 1 .. Len(c) : c[i] \in Links
  BY <1>2, ElementOfSeq
<1>5. /\ front \in Seq(Links) /\ Len(front) = p - 1
      /\ \A i \in 1 .. p - 1 : front[i] = c[i]
  <2>1. 1 \in Int /\ p - 1 \in Int /\ \A i \in 1 .. p - 1 : c[i] \in Links
    BY <1>2, <1>4
  <2>2. /\ front \in Seq(Links) /\ Len(front) = IF 1 <= p - 1 THEN (p - 1) - 1 + 1 ELSE 0
        /\ \A i \in 1 .. (p - 1) - 1 + 1 : front[i] = c[1 + i - 1]
    BY <2>1, SubSeqProperties
  <2>3. \A i \in 1 .. p - 1 : i \in 1 .. (p - 1) - 1 + 1 /\ 1 + i - 1 = i
    BY <1>2
  <2> HIDE DEF front
  <2>4. Len(front) = p - 1
    BY <1>2, <2>2
  <2> QED
    BY <2>2, <2>3, <2>4
<1>6. /\ back \in Seq(Links) /\ Len(back) = Len(c) - p
      /\ \A i \in 1 .. Len(c) - p : back[i] = c[p + i]
  <2>1. p + 1 \in Int /\ Len(c) \in Int /\ \A i \in p + 1 .. Len(c) : c[i] \in Links
    BY <1>2, <1>4
  <2>2. /\ back \in Seq(Links)
        /\ Len(back) = IF p + 1 <= Len(c) THEN Len(c) - (p + 1) + 1 ELSE 0
        /\ \A i \in 1 .. Len(c) - (p + 1) + 1 : back[i] = c[(p + 1) + i - 1]
    BY <2>1, SubSeqProperties
  <2>3. \A i \in 1 .. Len(c) - p : i \in 1 .. Len(c) - (p + 1) + 1 /\ (p + 1) + i - 1 = p + i
    BY <1>2
  <2> HIDE DEF back
  <2>4. Len(back) = Len(c) - p
    <3>1. CASE p + 1 <= Len(c)
      <4>1. Len(c) - (p + 1) + 1 = Len(c) - p
        BY <1>2
      <4> QED
        BY <2>2, <3>1, <4>1
    <3>2. CASE ~ (p + 1 <= Len(c))
      <4>1. p \in Int /\ Len(c) \in Int /\ p <= Len(c)
        BY <1>2
      <4>2. Len(c) - p = 0
        BY <3>2, <4>1
      <4> QED
        BY <2>2, <3>2, <4>2
    <3> QED
      BY <3>1, <3>2
  <2> QED
    BY <2>2, <2>3, <2>4
<1> HIDE DEF front, back
<1>7. /\ d \in Seq(Links) /\ Len(d) = Len(c) - 1 /\ DOMAIN d = 1 .. Len(d)
      /\ \A i \in 1 .. Len(d) : d[i] = IF i <= p - 1 THEN front[i] ELSE back[i - (p - 1)]
  <2>1. /\ d \in Seq(Links) /\ Len(d) = Len(front) + Len(back)
        /\ \A i \in 1 .. Len(front) + Len(back) :
             d[i] = IF i <= Len(front) THEN front[i] ELSE back[i - Len(front)]
    BY <1>3, <1>5, <1>6, ConcatProperties
  <2>2. Len(front) + Len(back) = Len(c) - 1
    BY <1>2, <1>5, <1>6
  <2> QED
    BY <1>5, <2>1, <2>2, LenProperties
<1> DEFINE From(i) == IF i < p THEN i ELSE i + 1
           To(i) == IF i < p THEN i ELSE i - 1
<1>8. ASSUME NEW i \in DOMAIN d
      PROVE  From(i) \in DOMAIN c /\ From(i) # p /\ d[i] = c[From(i)]
  <2>0. i \in 1 .. Len(d) /\ i \in Int /\ p \in Int
    BY <1>2, <1>7
  <2>1. CASE i < p
    <3>1. i \in 1 .. p - 1 /\ i <= p - 1 /\ i \in DOMAIN c
      BY <1>2, <2>0, <2>1
    <3>2. d[i] = front[i]
      BY <1>7, <2>0, <3>1
    <3> QED
      BY <1>5, <2>0, <2>1, <3>1, <3>2
  <2>2. CASE ~ (i < p)
    <3>1. /\ i - (p - 1) \in 1 .. Len(c) - p /\ ~ (i <= p - 1)
          /\ p + (i - (p - 1)) = i + 1 /\ i + 1 \in DOMAIN c
      BY <1>2, <1>7, <2>0, <2>2
    <3>2. d[i] = back[i - (p - 1)]
      BY <1>7, <2>0, <3>1
    <3>3. back[i - (p - 1)] = c[p + (i - (p - 1))]
      BY <1>6, <3>1
    <3> QED
      BY <2>0, <2>2, <3>1, <3>2, <3>3
  <2> QED
    BY <2>1, <2>2
<1>9. ASSUME NEW i \in DOMAIN c, i # p
      PROVE  To(i) \in DOMAIN d /\ From(To(i)) = i
  BY <1>2, <1>7, <1>9
<1>10. \A i, j \in DOMAIN d : From(i) = From(j) => i = j
  BY <1>2, <1>7
<1> HIDE DEF From, To
<1>11. \A i \in DOMAIN d : d[i].key # n
  BY <1>1, <1>8
<1>12. IsChain(d, b)
  <2>1. \A i \in DOMAIN d : HashOf[d[i].key] = b
    BY <1>8 DEF IsChain
  <2>2. ASSUME NEW i \in DOMAIN d, NEW j \in DOMAIN d, d[i].key = d[j].key
        PROVE  i = j
    <3>1. From(i) = From(j)
      BY <1>8, <2>2 DEF IsChain
    <3> QED
      BY <1>10, <3>1
  <2> QED
    BY <1>7, <2>1, <2>2 DEF IsChain
<1>13. ASSUME NEW m \in Indexes \ {n}, NEW t
       PROVE  Holds(d, m, t) <=> Holds(c, m, t)
  <2>1. ASSUME Holds(d, m, t)
        PROVE  Holds(c, m, t)
    BY <1>8, <2>1 DEF Holds
  <2>2. ASSUME NEW i \in DOMAIN c, c[i].key = m, c[i].tree = t
        PROVE  Holds(d, m, t)
    <3>1. i # p
      BY <1>1, <2>2
    <3>2. To(i) \in DOMAIN d /\ d[To(i)] = c[i]
      BY <1>8, <1>9, <3>1
    <3> QED
      BY <2>2, <3>2 DEF Holds
  <2> QED
    BY <2>1, <2>2 DEF Holds
<1>14. SameBut(c, d, n)
  BY <1>12, <1>13, SameButIs
<1> QED
  BY <1>11, <1>12, <1>14 DEF Has

\* An insertion or a removal in the tree of n.
LEMMA Replanted ==
  ASSUME NEW b, NEW c, IsChain(c, b), NEW n \in Indexes, Has(c, n),
         NEW tree \in [root : Avl, nodeCount : Int], NEW d,
         d = [c EXCEPT ![At(c, n)] = [@ EXCEPT !.tree = tree]]
  PROVE  IsChain(d, b) /\ Has(d, n) /\ TreeIn(d, n) = tree /\ SameBut(c, d, n)
<1> DEFINE p == At(c, n)
           link == [c[p] EXCEPT !.tree = tree]
<1>1. p \in DOMAIN c /\ c[p].key = n /\ \A i \in DOMAIN c : c[i].key = n => i = p
  BY AtIs
<1>2. c \in Seq(Links) /\ Len(c) \in Nat /\ DOMAIN c = 1 .. Len(c) /\ p \in 1 .. Len(c)
  BY <1>1, LenProperties DEF IsChain
<1>3. d = [c EXCEPT ![p] = link]
  OBVIOUS
<1>4. link \in Links /\ link.key = n /\ link.tree = tree
  <2>1. c[p] \in Links
    BY <1>1, ChainTypes
  <2> HIDE DEF p
  <2> QED
    BY <1>1, <2>1 DEF Links
<1> HIDE DEF p, link
<1>5. /\ d \in Seq(Links) /\ DOMAIN d = DOMAIN c /\ d[p] = link
      /\ \A i \in DOMAIN c : i # p => d[i] = c[i]
  <2>1. d \in Seq(Links)
    <3>1. [c EXCEPT ![p] = link] \in Seq(Links)
      BY <1>2, <1>4, ExceptSeq
    <3> QED
      BY <1>3, <3>1
  <2> QED
    BY <1>1, <1>2, <1>3, <2>1
<1>6. \A i \in DOMAIN c : d[i].key = c[i].key
  BY <1>1, <1>4, <1>5
<1>7. IsChain(d, b)
  BY <1>5, <1>6 DEF IsChain
<1>8. Has(d, n) /\ TreeIn(d, n) = tree
  <2>1. Holds(d, n, tree)
    BY <1>1, <1>4, <1>5 DEF Holds
  <2> QED
    BY <1>7, <2>1, HoldsIs
<1>9. ASSUME NEW m \in Indexes \ {n}, NEW t
      PROVE  Holds(d, m, t) <=> Holds(c, m, t)
  BY <1>1, <1>4, <1>5 DEF Holds
<1>10. SameBut(c, d, n)
  BY <1>7, <1>9, SameButIs
<1> QED
  BY <1>7, <1>8, <1>10

(***************************************************************************)
(* What is inserted and removed, and the trees that hold it.               *)
(***************************************************************************)
\* The pages of some keys of the column n.
IsEntries(e, n) ==
  /\ e = [k \in DOMAIN e |-> e[k]]
  /\ DOMAIN e \subseteq KeysOf[n] /\ IsFiniteSet(DOMAIN e)
  /\ \A k \in DOMAIN e : e[k] \in Pages

\* The tree is ordered and has exactly these entries.
Keeps(tree, e) ==
  /\ tree \in [root : Avl, nodeCount : Int]
  /\ \E lo, hi \in Int : InOrder(tree.root, lo, hi)
  /\ tree.nodeCount = Cardinality(DOMAIN e)
  /\ \A k \in Int : Search(tree.root, k) = IF k \in DOMAIN e THEN e[k] ELSE -1

\* Types of the entries.
LEMMA EntriesAre ==
  ASSUME NEW n \in Indexes, NEW e, IsEntries(e, n)
  PROVE  /\ \A k \in DOMAIN e : k \in Int /\ k \in KeysOf[n] /\ e[k] \in Pages /\ e[k] \in Nat
         /\ Cardinality(DOMAIN e) \in Nat
BY IndexAssumption, FS_CardinalityType DEF IsEntries

\* A new index has no entry.
LEMMA EmptyKeeps ==
  ASSUME NEW n
  PROVE  IsEntries(<< >>, n) /\ Keeps(EmptyTree, << >>)
<1> DEFINE e == << >>
<1>1. DOMAIN e = {} /\ e = [k \in DOMAIN e |-> e[k]]
  OBVIOUS
<1> HIDE DEF e
<1>2. IsEntries(e, n)
  BY <1>1, FS_EmptySet DEF IsEntries
<1>3. EmptyTree \in [root : Avl, nodeCount : Int] /\ EmptyTree.root = NoNode /\ EmptyTree.nodeCount = 0
  BY NoNodeIs DEF EmptyTree
<1>4. InOrder(NoNode, 0, 0)
  BY InOrderIs
<1>5. Keeps(EmptyTree, e)
  BY <1>1, <1>3, <1>4, SearchIs, FS_EmptySet DEF Keeps
<1> QED
  BY <1>2, <1>5 DEF e

\* AVLTree::insert.
LEMMA InsertKeeps ==
  ASSUME NEW n \in Indexes, NEW k \in KeysOf[n], NEW page \in Pages, NEW e, NEW tree,
         IsEntries(e, n), Keeps(tree, e), NEW after, NEW e2,
         after = [root |-> InsertNode(tree.root, k, page), nodeCount |-> CountAfterInsert(tree, k)],
         e2 = Entered(e, k, page)
  PROVE  IsEntries(e2, n) /\ Keeps(after, e2)
<1> DEFINE D == DOMAIN e
           u == InsertNode(tree.root, k, page)
           c == CountAfterInsert(tree, k)
<1>1. k \in Int /\ page \in Nat
  BY IndexAssumption
<1>2. /\ DOMAIN e2 = D \union {k}
      /\ e2 = [x \in DOMAIN e2 |-> e2[x]]
      /\ \A x \in DOMAIN e2 : e2[x] = IF x = k THEN page ELSE e[x]
  BY DEF Entered
<1>3. IsEntries(e2, n)
  <2>1. D \subseteq KeysOf[n] /\ IsFiniteSet(D) /\ \A x \in D : e[x] \in Pages
    BY DEF IsEntries
  <2> HIDE DEF D
  <2> QED
    BY <1>2, <2>1, FS_AddElement DEF IsEntries
<1>4. PICK lo \in Int, hi \in Int : InOrder(tree.root, lo, hi)
  BY DEF Keeps
<1>5. /\ tree.root \in Avl /\ tree.nodeCount = Cardinality(D) /\ Cardinality(D) \in Nat
      /\ \A j \in Int : Search(tree.root, j) = IF j \in D THEN e[j] ELSE -1
  BY EntriesAre DEF Keeps
<1>6. \E low, high \in Int : low < k /\ k < high /\ InOrder(tree.root, low, high)
  <2> DEFINE low == IF lo < k THEN lo ELSE k - 1
             high == IF k < hi THEN hi ELSE k + 1
  <2>1. low \in Int /\ high \in Int /\ low < k /\ k < high /\ low <= lo /\ hi <= high
    BY <1>1, <1>4
  <2> HIDE DEF low, high
  <2>2. ASSUME NEW j \in Int, Search(tree.root, j) # -1
        PROVE  low < j /\ j < high
    <3>1. lo < j /\ j < hi
      BY <1>4, <1>5, <2>2, FoundBetween
    <3> QED
      BY <1>4, <2>1, <3>1
  <2>3. InOrder(tree.root, low, high)
    BY <1>4, <1>5, <2>1, <2>2, InOrderBetween
  <2> QED
    BY <2>1, <2>3
<1>7. PICK low \in Int, high \in Int : low < k /\ k < high /\ InOrder(tree.root, low, high)
  BY <1>6
<1>8. Inserted(u, tree.root, k, page, low, high)
  BY <1>1, <1>5, <1>7, InsertNodeIs
<1>9. /\ u \in Avl /\ InOrder(u, low, high)
      /\ \A j \in Int : Search(u, j) = IF j = k THEN page ELSE Search(tree.root, j)
  BY <1>8 DEF Inserted
<1>10. c = Cardinality(DOMAIN e2) /\ c \in Int
  <2>1. NodeAt(tree.root, k) = NoNode <=> Search(tree.root, k) = -1
    BY <1>1, <1>5, SearchIs
  <2>2. k \in D => e[k] \in Nat
    BY EntriesAre
  <2>3. NodeAt(tree.root, k) = NoNode <=> k \notin D
    BY <1>1, <1>5, <2>1, <2>2
  <2>4. Cardinality(D \union {k}) = IF k \in D THEN Cardinality(D) ELSE Cardinality(D) + 1
    BY FS_AddElement DEF IsEntries
  <2> HIDE DEF D
  <2> QED
    BY <1>2, <1>5, <2>3, <2>4 DEF CountAfterInsert
<1> HIDE DEF u, c
<1>11. after \in [root : Avl, nodeCount : Int] /\ after.root = u /\ after.nodeCount = c
  BY <1>9, <1>10 DEF u, c
<1>12. \A j \in Int : Search(u, j) = IF j \in DOMAIN e2 THEN e2[j] ELSE -1
  BY <1>2, <1>5, <1>9
<1> HIDE DEF D
<1>13. Keeps(after, e2)
  BY <1>7, <1>9, <1>10, <1>11, <1>12 DEF Keeps
<1> QED
  BY <1>3, <1>13

\* AVLTree::remove.
LEMMA RemoveKeeps ==
  ASSUME NEW n \in Indexes, NEW k \in KeysOf[n], NEW e, NEW tree,
         IsEntries(e, n), Keeps(tree, e), NEW after, NEW e2,
         after = [root |-> RemoveNode(tree.root, k), nodeCount |-> CountAfterRemove(tree, k)],
         e2 = Restrict(e, DOMAIN e \ {k})
  PROVE  IsEntries(e2, n) /\ Keeps(after, e2)
<1> DEFINE D == DOMAIN e
           u == RemoveNode(tree.root, k)
           c == CountAfterRemove(tree, k)
<1>1. k \in Int
  BY IndexAssumption
<1>2. /\ DOMAIN e2 = D \ {k}
      /\ e2 = [x \in DOMAIN e2 |-> e2[x]]
      /\ \A x \in DOMAIN e2 : e2[x] = e[x]
  BY DEF Restrict
<1>3. IsEntries(e2, n)
  <2>1. D \subseteq KeysOf[n] /\ IsFiniteSet(D) /\ \A x \in D : e[x] \in Pages
    BY DEF IsEntries
  <2> HIDE DEF D
  <2> QED
    <3>1. IsFiniteSet(D \ {k}) /\ D \ {k} \subseteq KeysOf[n]
      BY <2>1, FS_RemoveElement
    <3>2. \A x \in D \ {k} : e[x] \in Pages
      BY <2>1
    <3> QED
      BY <1>2, <3>1, <3>2 DEF IsEntries
<1>4. PICK lo \in Int, hi \in Int : InOrder(tree.root, lo, hi)
  BY DEF Keeps
<1>5. /\ tree.root \in Avl /\ tree.nodeCount = Cardinality(D) /\ Cardinality(D) \in Nat
      /\ \A j \in Int : Search(tree.root, j) = IF j \in D THEN e[j] ELSE -1
  BY EntriesAre DEF Keeps
<1>6. Removed(u, tree.root, k, lo, hi)
  BY <1>1, <1>4, <1>5, RemoveNodeIs
<1>7. /\ u \in Avl /\ InOrder(u, lo, hi)
      /\ \A j \in Int : Search(u, j) = IF j = k THEN -1 ELSE Search(tree.root, j)
  BY <1>6 DEF Removed
<1>8. c = Cardinality(DOMAIN e2) /\ c \in Int
  <2>1. NodeAt(tree.root, k) = NoNode <=> Search(tree.root, k) = -1
    BY <1>1, <1>5, SearchIs
  <2>2. k \in D => e[k] \in Nat
    BY EntriesAre
  <2>3. NodeAt(tree.root, k) = NoNode <=> k \notin D
    BY <1>1, <1>5, <2>1, <2>2
  <2>4. Cardinality(D \ {k}) = IF k \in D THEN Cardinality(D) - 1 ELSE Cardinality(D)
    BY FS_RemoveElement DEF IsEntries
  <2> HIDE DEF D
  <2> QED
    BY <1>2, <1>5, <2>3, <2>4 DEF CountAfterRemove
<1> HIDE DEF u, c
<1>9. after \in [root : Avl, nodeCount : Int] /\ after.root = u /\ after.nodeCount = c
  BY <1>7, <1>8 DEF u, c
<1>10. \A j \in Int : Search(u, j) = IF j \in DOMAIN e2 THEN e2[j] ELSE -1
  BY <1>2, <1>5, <1>7
<1> HIDE DEF D
<1>11. Keeps(after, e2)
  BY <1>4, <1>7, <1>8, <1>9, <1>10 DEF Keeps
<1> QED
  BY <1>3, <1>11

(***************************************************************************)
(* The invariant.                                                          *)
(***************************************************************************)
ChainsInv ==
  /\ buckets = [b \in Buckets |-> buckets[b]]
  /\ \A b \in Buckets : IsChain(buckets[b], b)

SizeInv == IsFiniteSet(Existing) /\ size = Cardinality(Existing)

EntriesInv ==
  /\ entries = [n \in Indexes |-> entries[n]]
  /\ \A n \in Indexes : IsEntries(entries[n], n)
  /\ \A n \in Indexes : ~ HasIndex(n) => entries[n] = << >>

TreesInv == \A n \in Indexes : HasIndex(n) => Keeps(Tree(n), entries[n])

IndexInv == ChainsInv /\ SizeInv /\ EntriesInv /\ TreesInv

\* The chain of a name, now and after the step.
LEMMA ChainOf ==
  ASSUME NEW n
  PROVE  /\ HasIndex(n) <=> Has(buckets[HashOf[n]], n)
         /\ Position(n) = At(buckets[HashOf[n]], n)
         /\ Tree(n) = TreeIn(buckets[HashOf[n]], n)
BY DEF HasIndex, Position, Tree, Chain, Has, At, TreeIn

LEMMA ChainOfNext ==
  ASSUME NEW n
  PROVE  /\ HasIndex(n)' <=> Has(buckets'[HashOf[n]], n)
         /\ Tree(n)' = TreeIn(buckets'[HashOf[n]], n)
BY DEF HasIndex, Position, Tree, Chain, Has, At, TreeIn

\* A step on the chain of n leaves the other names as they were.
LEMMA OthersStay ==
  ASSUME ChainsInv, NEW n \in Indexes, NEW d, IsChain(d, HashOf[n]),
         SameBut(buckets[HashOf[n]], d, n), buckets' = [buckets EXCEPT ![HashOf[n]] = d]
  PROVE  /\ ChainsInv' /\ buckets'[HashOf[n]] = d
         /\ \A m \in Indexes \ {n} : /\ HasIndex(m)' <=> HasIndex(m)
                                     /\ HasIndex(m) => Tree(m)' = Tree(m)
<1>1. HashOf[n] \in Buckets
  BY IndexAssumption
<1>2. buckets' = [b \in Buckets |-> IF b = HashOf[n] THEN d ELSE buckets[b]]
  BY <1>1 DEF ChainsInv
<1>3. /\ buckets'[HashOf[n]] = d
      /\ \A b \in Buckets : b # HashOf[n] => buckets'[b] = buckets[b]
  BY <1>1, <1>2
<1>4. ChainsInv'
  <2>1. buckets' = [b \in Buckets |-> buckets'[b]]
    BY <1>2
  <2>2. \A b \in Buckets : IsChain(buckets'[b], b)
    BY <1>3 DEF ChainsInv
  <2> QED
    BY <2>1, <2>2 DEF ChainsInv, IsChain, Links
<1>5. ASSUME NEW m \in Indexes \ {n}
      PROVE  /\ HasIndex(m)' <=> HasIndex(m)
             /\ HasIndex(m) => Tree(m)' = Tree(m)
  <2>1. HashOf[m] \in Buckets
    BY IndexAssumption
  <2>2. CASE HashOf[m] = HashOf[n]
    BY <1>3, <2>2, ChainOf, ChainOfNext DEF SameBut
  <2>3. CASE HashOf[m] # HashOf[n]
    <3>1. buckets'[HashOf[m]] = buckets[HashOf[m]]
      BY <1>3, <2>1, <2>3
    <3> QED
      BY <3>1, ChainOf, ChainOfNext
  <2> QED
    BY <2>2, <2>3
<1> QED
  BY <1>3, <1>4, <1>5

\* One lemma per action.
LEMMA IndexInitInv == IndexInit => IndexInv
<1> SUFFICES ASSUME IndexInit PROVE IndexInv
  OBVIOUS
<1>1. buckets = [b \in Buckets |-> << >>] /\ size = 0 /\ entries = [n \in Indexes |-> << >>]
  BY DEF IndexInit
<1>2. \A b \in Buckets : buckets[b] = << >>
  BY <1>1
<1>3. ASSUME NEW b PROVE IsChain(<< >>, b)
  <2>1. << >> \in Seq(Links) /\ DOMAIN << >> = {}
    OBVIOUS
  <2> QED
    BY <2>1 DEF IsChain
<1>4. ChainsInv
  BY <1>1, <1>2, <1>3 DEF ChainsInv
<1>5. ASSUME NEW n \in Indexes PROVE ~ HasIndex(n)
  <2>1. Chain(n) = << >>
    BY <1>2, IndexAssumption DEF Chain
  <2>2. DOMAIN << >> = {}
    OBVIOUS
  <2> QED
    BY <2>1, <2>2 DEF HasIndex
<1>6. SizeInv
  <2>1. Existing = {}
    BY <1>5 DEF Existing
  <2> QED
    BY <1>1, <2>1, FS_EmptySet DEF SizeInv
<1>7. EntriesInv
  <2>1. \A n \in Indexes : entries[n] = << >>
    BY <1>1
  <2>2. \A n \in Indexes : IsEntries(<< >>, n)
    BY EmptyKeeps
  <2>3. entries = [n \in Indexes |-> entries[n]]
    BY <1>1
  <2> QED
    BY <2>1, <2>2, <2>3 DEF EntriesInv
<1>8. TreesInv
  BY <1>5 DEF TreesInv
<1> QED
  BY <1>4, <1>6, <1>7, <1>8 DEF IndexInv

LEMMA CreateIndexInv ==
  ASSUME IndexInv, NEW n \in Indexes, CreateIndex(n)
  PROVE  IndexInv'
<1> DEFINE c == buckets[HashOf[n]]
           d == << [key |-> n, tree |-> EmptyTree] >> \o c
<1>1. ChainsInv /\ SizeInv /\ EntriesInv /\ TreesInv /\ ~ HasIndex(n)
  BY DEF IndexInv, CreateIndex
<1>2. HashOf[n] \in Buckets /\ IsChain(c, HashOf[n]) /\ ~ Has(c, n)
  BY <1>1, ChainOf, IndexAssumption DEF ChainsInv
<1>3. EmptyTree \in [root : Avl, nodeCount : Int]
  BY EmptyKeeps DEF Keeps
<1> HIDE DEF c
<1>4. IsChain(d, HashOf[n]) /\ Has(d, n) /\ TreeIn(d, n) = EmptyTree /\ SameBut(c, d, n)
  BY <1>2, <1>3, Pushed
<1>5. buckets' = [buckets EXCEPT ![HashOf[n]] = d] /\ size' = size + 1 /\ entries' = entries
  BY DEF CreateIndex, c
<1> HIDE DEF d
<1>6. /\ ChainsInv' /\ buckets'[HashOf[n]] = d
      /\ \A m \in Indexes \ {n} : /\ HasIndex(m)' <=> HasIndex(m)
                                  /\ HasIndex(m) => Tree(m)' = Tree(m)
  BY <1>1, <1>4, <1>5, OthersStay DEF c
<1>7. HasIndex(n)' /\ Tree(n)' = EmptyTree
  BY <1>4, <1>6, ChainOfNext
<1>8. SizeInv'
  <2>1. Existing' = Existing \union {n} /\ n \notin Existing
    BY <1>1, <1>6, <1>7 DEF Existing
  <2>2. IsFiniteSet(Existing) /\ size = Cardinality(Existing)
    BY <1>1 DEF SizeInv
  <2>3. IsFiniteSet(Existing') /\ Cardinality(Existing') = Cardinality(Existing) + 1
    BY <2>1, <2>2, FS_AddElement
  <2> QED
    BY <1>5, <2>2, <2>3 DEF SizeInv
<1>9. EntriesInv'
  BY <1>1, <1>5, <1>6, <1>7 DEF EntriesInv, IsEntries
<1>10. TreesInv'
  <2>1. ASSUME NEW m \in Indexes, HasIndex(m)'
        PROVE  Keeps(Tree(m)', entries[m])
    <3>1. CASE m = n
      BY <1>1, <1>7, <3>1, EmptyKeeps DEF EntriesInv
    <3>2. CASE m # n
      BY <1>1, <1>6, <2>1, <3>2 DEF TreesInv
    <3> QED
      BY <3>1, <3>2
  <2> QED
    BY <1>5, <2>1 DEF TreesInv, Keeps
<1> QED
  BY <1>6, <1>8, <1>9, <1>10 DEF IndexInv

LEMMA DropIndexInv ==
  ASSUME IndexInv, NEW n \in Indexes, DropIndex(n)
  PROVE  IndexInv'
<1> DEFINE c == buckets[HashOf[n]]
           d == Unlinked(c, At(c, n))
<1>1. ChainsInv /\ SizeInv /\ EntriesInv /\ TreesInv /\ HasIndex(n)
  BY DEF IndexInv, DropIndex
<1>2. HashOf[n] \in Buckets /\ IsChain(c, HashOf[n]) /\ Has(c, n)
  BY <1>1, ChainOf, IndexAssumption DEF ChainsInv
<1>3. /\ buckets' = [buckets EXCEPT ![HashOf[n]] = d] /\ size' = size - 1
      /\ entries' = [entries EXCEPT ![n] = << >>]
  <2>1. Position(n) = At(c, n)
    BY ChainOf
  <2> QED
    BY <2>1 DEF DropIndex
<1> HIDE DEF c
<1>4. IsChain(d, HashOf[n]) /\ ~ Has(d, n) /\ SameBut(c, d, n)
  BY <1>2, Dropped
<1> HIDE DEF d
<1>5. /\ ChainsInv' /\ buckets'[HashOf[n]] = d
      /\ \A m \in Indexes \ {n} : /\ HasIndex(m)' <=> HasIndex(m)
                                  /\ HasIndex(m) => Tree(m)' = Tree(m)
  BY <1>1, <1>3, <1>4, OthersStay DEF c
<1>6. ~ HasIndex(n)'
  BY <1>4, <1>5, ChainOfNext
<1>7. /\ entries' = [m \in Indexes |-> entries'[m]]
      /\ entries'[n] = << >> /\ \A m \in Indexes \ {n} : entries'[m] = entries[m]
  <2>1. entries' = [m \in Indexes |-> IF m = n THEN << >> ELSE entries[m]]
    BY <1>1, <1>3 DEF EntriesInv
  <2> QED
    BY <2>1
<1>8. SizeInv'
  <2>1. Existing' = Existing \ {n} /\ n \in Existing
    BY <1>1, <1>5, <1>6 DEF Existing
  <2>2. IsFiniteSet(Existing) /\ size = Cardinality(Existing)
    BY <1>1 DEF SizeInv
  <2>3. IsFiniteSet(Existing') /\ Cardinality(Existing') = Cardinality(Existing) - 1
    BY <2>1, <2>2, FS_RemoveElement
  <2> QED
    BY <1>3, <2>2, <2>3 DEF SizeInv
<1>9. EntriesInv'
  <2>1. ASSUME NEW m \in Indexes
        PROVE  IsEntries(entries'[m], m) /\ (~ HasIndex(m)' => entries'[m] = << >>)
    <3>1. CASE m = n
      BY <1>7, <3>1, EmptyKeeps
    <3>2. CASE m # n
      BY <1>1, <1>5, <1>7, <3>2 DEF EntriesInv
    <3> QED
      BY <3>1, <3>2
  <2> QED
    BY <1>7, <2>1 DEF EntriesInv, IsEntries
<1>10. TreesInv'
  <2>1. ASSUME NEW m \in Indexes, HasIndex(m)'
        PROVE  Keeps(Tree(m)', entries'[m])
    <3>1. m # n
      BY <1>6, <2>1
    <3> QED
      BY <1>1, <1>5, <1>7, <2>1, <3>1 DEF TreesInv
  <2> QED
    BY <2>1 DEF TreesInv, Keeps
<1> QED
  BY <1>5, <1>8, <1>9, <1>10 DEF IndexInv

\* An insertion or a removal that keeps the tree of n and its entries in agreement.
LEMMA SetTreeInv ==
  ASSUME IndexInv, NEW n \in Indexes, HasIndex(n), NEW tree, NEW e,
         IsEntries(e, n), Keeps(tree, e),
         SetTree(n, tree), entries' = [entries EXCEPT ![n] = e], size' = size
  PROVE  IndexInv'
<1> DEFINE c == buckets[HashOf[n]]
           d == [c EXCEPT ![At(c, n)] = [@ EXCEPT !.tree = tree]]
<1>1. ChainsInv /\ SizeInv /\ EntriesInv /\ TreesInv
  BY DEF IndexInv
<1>2. HashOf[n] \in Buckets /\ IsChain(c, HashOf[n]) /\ Has(c, n)
  BY <1>1, ChainOf, IndexAssumption DEF ChainsInv
<1>3. buckets' = [buckets EXCEPT ![HashOf[n]] = d]
  <2>1. Position(n) = At(c, n)
    BY ChainOf
  <2> QED
    BY <2>1 DEF SetTree
<1>4. tree \in [root : Avl, nodeCount : Int]
  BY DEF Keeps
<1> HIDE DEF c
<1>5. IsChain(d, HashOf[n]) /\ Has(d, n) /\ TreeIn(d, n) = tree /\ SameBut(c, d, n)
  BY <1>2, <1>4, Replanted
<1> HIDE DEF d
<1>6. /\ ChainsInv' /\ buckets'[HashOf[n]] = d
      /\ \A m \in Indexes \ {n} : /\ HasIndex(m)' <=> HasIndex(m)
                                  /\ HasIndex(m) => Tree(m)' = Tree(m)
  BY <1>1, <1>3, <1>5, OthersStay DEF c
<1>7. HasIndex(n)' /\ Tree(n)' = tree
  BY <1>5, <1>6, ChainOfNext
<1>8. /\ entries' = [m \in Indexes |-> entries'[m]]
      /\ entries'[n] = e /\ \A m \in Indexes \ {n} : entries'[m] = entries[m]
  <2>1. entries' = [m \in Indexes |-> IF m = n THEN e ELSE entries[m]]
    BY <1>1 DEF EntriesInv
  <2> QED
    BY <2>1
<1>9. SizeInv'
  <2>1. Existing' = Existing
    BY <1>6, <1>7 DEF Existing
  <2> QED
    BY <1>1, <2>1 DEF SizeInv
<1>10. EntriesInv'
  <2>1. ASSUME NEW m \in Indexes
        PROVE  IsEntries(entries'[m], m) /\ (~ HasIndex(m)' => entries'[m] = << >>)
    <3>1. CASE m = n
      BY <1>7, <1>8, <3>1
    <3>2. CASE m # n
      BY <1>1, <1>6, <1>8, <3>2 DEF EntriesInv
    <3> QED
      BY <3>1, <3>2
  <2> QED
    BY <1>8, <2>1 DEF EntriesInv, IsEntries
<1>11. TreesInv'
  <2>1. ASSUME NEW m \in Indexes, HasIndex(m)'
        PROVE  Keeps(Tree(m)', entries'[m])
    <3>1. CASE m = n
      BY <1>7, <1>8, <3>1
    <3>2. CASE m # n
      BY <1>1, <1>6, <1>8, <2>1, <3>2 DEF TreesInv
    <3> QED
      BY <3>1, <3>2
  <2> QED
    BY <2>1 DEF TreesInv, Keeps
<1> QED
  BY <1>6, <1>9, <1>10, <1>11 DEF IndexInv

LEMMA InsertEntryInv ==
  ASSUME IndexInv, NEW n \in Indexes, NEW k \in KeysOf[n], NEW page \in Pages, InsertEntry(n, k, page)
  PROVE  IndexInv'
<1> DEFINE tree == [root      |-> InsertNode(Tree(n).root, k, page),
                    nodeCount |-> CountAfterInsert(Tree(n), k)]
           e == Entered(entries[n], k, page)
<1>1. /\ HasIndex(n) /\ SetTree(n, tree) /\ size' = size
      /\ entries' = [entries EXCEPT ![n] = e]
  BY DEF InsertEntry
<1>2. IsEntries(entries[n], n) /\ Keeps(Tree(n), entries[n])
  BY <1>1 DEF IndexInv, EntriesInv, TreesInv
<1>3. IsEntries(e, n) /\ Keeps(tree, e)
  BY <1>2, InsertKeeps
<1> HIDE DEF tree, e
<1> QED
  BY <1>1, <1>3, SetTreeInv

LEMMA RemoveEntryInv ==
  ASSUME IndexInv, NEW n \in Indexes, NEW k \in KeysOf[n], RemoveEntry(n, k)
  PROVE  IndexInv'
<1> DEFINE tree == [root      |-> RemoveNode(Tree(n).root, k),
                    nodeCount |-> CountAfterRemove(Tree(n), k)]
           e == Restrict(entries[n], DOMAIN entries[n] \ {k})
<1>1. /\ HasIndex(n) /\ SetTree(n, tree) /\ size' = size
      /\ entries' = [entries EXCEPT ![n] = e]
  BY DEF RemoveEntry
<1>2. IsEntries(entries[n], n) /\ Keeps(Tree(n), entries[n])
  BY <1>1 DEF IndexInv, EntriesInv, TreesInv
<1>3. IsEntries(e, n) /\ Keeps(tree, e)
  BY <1>2, RemoveKeeps
<1> HIDE DEF tree, e
<1> QED
  BY <1>1, <1>3, SetTreeInv

LEMMA IndexNextInv == IndexInv /\ [IndexNext]_indexVars => IndexInv'
<1> SUFFICES ASSUME IndexInv, [IndexNext]_indexVars PROVE IndexInv'
  OBVIOUS
<1>1. ASSUME NEW n \in Indexes, CreateIndex(n) PROVE IndexInv'
  BY <1>1, CreateIndexInv
<1>2. ASSUME NEW n \in Indexes, DropIndex(n) PROVE IndexInv'
  BY <1>2, DropIndexInv
<1>3. ASSUME NEW n \in Indexes, NEW k \in KeysOf[n], RemoveEntry(n, k) PROVE IndexInv'
  BY <1>3, RemoveEntryInv
<1>4. ASSUME NEW n \in Indexes, NEW k \in KeysOf[n], NEW page \in Pages, InsertEntry(n, k, page)
      PROVE  IndexInv'
  BY <1>4, InsertEntryInv
<1>5. CASE UNCHANGED indexVars
  BY <1>5 DEF indexVars, IndexInv, ChainsInv, SizeInv, EntriesInv, TreesInv, Existing, HasIndex,
              Tree, Position, Chain
<1> QED
  BY <1>1, <1>2, <1>3, <1>4, <1>5 DEF IndexNext

\* The chains and the trees agree with what was inserted and removed.
THEOREM IndexInvariant == IndexSpec => []IndexInv
BY IndexInitInv, IndexNextInv, PTL DEF IndexSpec

(***************************************************************************)
(* What it says.                                                           *)
(***************************************************************************)
\* Every index is in its own chain, once; the trees stay balanced with true heights.
THEOREM IndexesAreTyped == IndexSpec => []IndexTypeOK
<1>1. IndexInv => IndexTypeOK
  <2> SUFFICES ASSUME IndexInv PROVE IndexTypeOK
    OBVIOUS
  <2>1. ASSUME NEW b \in Buckets, NEW i \in DOMAIN buckets[b], NEW j \in DOMAIN buckets[b]
        PROVE  /\ buckets[b][i].key \in Indexes /\ HashOf[buckets[b][i].key] = b
               /\ buckets[b][i].key = buckets[b][j].key => i = j
    <3>1. IsChain(buckets[b], b)
      BY DEF IndexInv, ChainsInv
    <3> QED
      BY <3>1, ChainTypes DEF IsChain
  <2>2. size = Cardinality(Existing)
    BY DEF IndexInv, SizeInv
  <2>3. \A n \in Indexes : DOMAIN entries[n] \subseteq KeysOf[n]
    BY DEF IndexInv, EntriesInv, IsEntries
  <2>4. \A n \in Existing : Tree(n).root \in Trees[Height(Tree(n).root)]
    BY TreeIs DEF IndexInv, TreesInv, Keeps, Existing
  <2> QED
    BY <2>1, <2>2, <2>3, <2>4 DEF IndexTypeOK
<1> QED
  BY <1>1, IndexInvariant, PTL

\* A lookup gives the page a key was last inserted with, and nothing for other keys.
THEOREM LookupsAreRight == IndexSpec => []LookupFindsEntry
<1>1. IndexInv => LookupFindsEntry
  <2> SUFFICES ASSUME IndexInv, NEW n \in Indexes, NEW k \in KeysOf[n]
               PROVE  LookupPage(n, k) = IF k \in DOMAIN entries[n] THEN entries[n][k] ELSE -1
    BY DEF LookupFindsEntry
  <2>1. k \in Int
    BY IndexAssumption
  <2>2. CASE HasIndex(n)
    BY <2>1, <2>2 DEF LookupPage, IndexInv, TreesInv, Keeps
  <2>3. CASE ~ HasIndex(n)
    <3>1. entries[n] = << >> /\ DOMAIN << >> = {}
      BY <2>3 DEF IndexInv, EntriesInv
    <3> QED
      BY <2>3, <3>1 DEF LookupPage
  <2> QED
    BY <2>2, <2>3
<1> QED
  BY <1>1, IndexInvariant, PTL

\* A range search gives the pages of the keys in the range, in their order.
THEOREM RangesAreExact == IndexSpec => []RangeIsExact
<1>1. IndexInv => RangeIsExact
  <2> SUFFICES ASSUME IndexInv, NEW n \in Existing
               PROVE  /\ Tree(n).nodeCount = Cardinality(DOMAIN entries[n])
                      /\ \A low, high \in KeysOf[n] :
                           LET hits == {k \in DOMAIN entries[n] : low <= k /\ k <= high}
                               pages == RangeLookup(n, low, high)
                           IN  /\ Len(pages) = Cardinality(hits)
                               /\ \A k \in hits :
                                    pages[Cardinality({x \in hits : x <= k})] = entries[n][k]
    BY DEF RangeIsExact
  <2> DEFINE D == DOMAIN entries[n]
             root == Tree(n).root
  <2>1. n \in Indexes /\ HasIndex(n) /\ IsEntries(entries[n], n) /\ Keeps(Tree(n), entries[n])
    BY DEF Existing, IndexInv, EntriesInv, TreesInv
  <2>2. /\ root \in Avl /\ Tree(n).nodeCount = Cardinality(D) /\ IsFiniteSet(D)
        /\ \A k \in Int : Search(root, k) = IF k \in D THEN entries[n][k] ELSE -1
        /\ \A k \in D : k \in Int /\ entries[n][k] \in Nat
    BY <2>1, EntriesAre DEF Keeps, IsEntries
  <2>3. ASSUME NEW low \in KeysOf[n], NEW high \in KeysOf[n]
        PROVE  LET hits == {k \in D : low <= k /\ k <= high}
                   pages == RangeLookup(n, low, high)
               IN  /\ Len(pages) = Cardinality(hits)
                   /\ \A k \in hits : pages[Cardinality({x \in hits : x <= k})] = entries[n][k]
    <3> DEFINE hits == {k \in D : low <= k /\ k <= high}
               pages == RangeLookup(n, low, high)
    <3>1. low \in Int /\ high \in Int
      BY <2>1, IndexAssumption
    <3>2. PICK lo \in Int, hi \in Int : InOrder(root, lo, hi)
      BY <2>1 DEF Keeps
    <3>3. Lists(RangeCollect(root, low, high), Hits(root, low, high), PagesIn(root))
      BY <2>2, <3>1, <3>2, RangeCollectIs
    <3>4. Hits(root, low, high) = hits
      <4>1. ASSUME NEW k PROVE k \in Hits(root, low, high) <=> k \in hits
        BY <2>2 DEF Hits
      <4> HIDE DEF hits
      <4> QED
        BY <4>1
    <3>5. \A k \in hits : PagesIn(root)[k] = entries[n][k]
      BY <2>2 DEF PagesIn
    <3>6. CASE Tree(n).nodeCount = 0
      <4>1. D = {}
        BY <2>2, <3>6, FS_EmptySet
      <4>2. pages = << >> /\ Len(<< >>) = 0
        BY <3>6 DEF RangeLookup
      <4>3. hits = {}
        BY <4>1
      <4> HIDE DEF pages, hits
      <4> QED
        BY <4>2, <4>3, FS_EmptySet DEF pages, hits
    <3>7. CASE Tree(n).nodeCount # 0
      <4>1. pages = RangeCollect(root, low, high)
        BY <2>1, <3>7 DEF RangeLookup
      <4> HIDE DEF pages, hits, root, D
      <4>2. Lists(pages, hits, PagesIn(root))
        BY <3>3, <3>4, <4>1
      <4>3. Len(pages) = Cardinality(hits)
        BY <4>2 DEF Lists
      <4>4. \A k \in hits : pages[Cardinality({x \in hits : x <= k})] = entries[n][k]
        BY <3>5, <4>2 DEF Lists, Rank
      <4> QED
        BY <4>3, <4>4 DEF pages, hits
    <3> QED
      BY <3>6, <3>7
  <2> QED
    BY <2>2, <2>3
<1> QED
  BY <1>1, IndexInvariant, PTL
=============================================================================
