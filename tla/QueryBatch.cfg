\* All files of up to four lines; main's array holds three queries.  A program ends.
SPECIFICATION Spec
CONSTANTS
  Files <- MCFiles
  MaxQueries = 3
  QueueCapacity = 3
  MaxTaskId = 12
  NoTask = NoTask
INVARIANTS
  NothingLost
  RunsInOrder
PROPERTIES
  Ends
CHECK_DEADLOCK FALSE
