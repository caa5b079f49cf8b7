\* Pages 1 and 3 share a frame: a shutdown does not write both.
SPECIFICATION Spec
CONSTANTS
  MaxPages = 4
  PageIds = {1, 2, 3}
  Capacity = 2
  Frames = {0, 1}
  Versions <- MCVersions
  NoEntry = NoEntry
  Blank = Blank
  Unwritten = Unwritten
  NoPage = NoPage
INVARIANTS
  FlushedToDisk
