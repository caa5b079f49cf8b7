\* A heap of five slots, three levels, and six tasks for it.
SPECIFICATION Spec
CONSTANTS
  Tasks <- MCTasks
  Capacity = 5
  NoTask = NoTask
INVARIANTS
  TypeOK
  HeapOrder
PROPERTIES
  ImplementsTaskQueue
