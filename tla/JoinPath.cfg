\* Graphs for one table, for the three default tables and for two more; three
\* calls on top of the default edges, some of them for ids the graph has not.
SPECIFICATION JoinSpec
CONSTANTS
  Sizes = {1, 3, 5}
  Ids = {0, 1, 3, 4}
  Weights = {1, 5}
  MaxCalls = 3
INVARIANTS
  ForestIsUnionFind
  MinimalTree
  InBounds
PROPERTIES
  WalkEndsOnPaths
