\* SIGINT at any point, on both platforms.  The process ends, so it may stop.
SPECIFICATION Spec
CONSTANTS
  WorkLines = 2
  FlushLines = 2
INVARIANTS
  FreedOnlyAtTheEnd
  LinesReachTheFile
  CatalogKept
PROPERTIES
  MainEnds
  SigintEndsOutsideLog
CHECK_DEADLOCK FALSE
