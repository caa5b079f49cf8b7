\* Two pages of 32 bytes, a small row and two large ones.  The code goes on behind a
\* negative usedBytes, the model does not: what happens there is undefined.
SPECIFICATION Spec
CONSTANTS
  PageIds = {1, 2}
  PageSize = 32
  Margin = 17
  Rows <- MCRows
INVARIANTS
  TypeOK
  RowsComeBack
  MarginIsEnough
CHECK_DEADLOCK FALSE
