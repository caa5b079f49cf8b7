\* A signal inside a log call.
SPECIFICATION Spec
CONSTANTS
  WorkLines = 2
  FlushLines = 2
PROPERTIES
  SigintEnds
CHECK_DEADLOCK FALSE
