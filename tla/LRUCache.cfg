\* The cache with pins, used by its owner in any order.
SPECIFICATION MCSpec
CONSTANTS
  PageIds = {1, 2, 3, 4}
  Frames = {1, 2, 3, 4}
  Capacity = 2
  NoEntry = NoEntry
  MaxFaults = 2
INVARIANTS
  TypeOK
  ListMatchesTable
  RecencyOrder
  OverflowOnlyAfterPin
  PinnedPagesAreHeld
PROPERTIES
  EvictsLeastRecent
