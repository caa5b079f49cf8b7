\* A pool of two frames for three pages: pages 1 and 3 share frame 1, page 2 has
\* frame 0 to itself.
SPECIFICATION Spec
CONSTANTS
  MaxPages = 4
  PageIds = {1, 2, 3}
  Capacity = 2
  Frames = {0, 1}
  Versions <- MCVersions
  NoEntry = NoEntry
  Blank = Blank
  Unwritten = Unwritten
  NoPage = NoPage
INVARIANTS
  TypeOK
  PoolIsSound
  Confined
  FlushForgetsRecency
  ReadsLatest
PROPERTIES
  ImplementsStore
