\* Three pages of two rows, five inserts.  A remainder by 0 ends the process.
SPECIFICATION MCSpec
CONSTANTS
  MaxPages = 4
  RowsPerPage = 2
  Tables = {"customer", "orders"}
  Indexed = {"customer"}
  Keys = {1, 2}
  Rows <- MCRows
  TableOf <- MCTableOf
  KeyOf <- MCKeyOf
  Schemas <- MCSchemas
  Fields <- MCFields
  Queries <- MCQueries
  MaxDepth = 3
  MaxInserts = 5
INVARIANTS
  TypeOK
  StackClimbs
  AnswerIsExact
  IndexIsHonest
PROPERTIES
  RowsBelowLastStay
CHECK_DEADLOCK FALSE
