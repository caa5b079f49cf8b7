\* Two tables and eight buckets: the fourth start rehashes.  Any hash function.
SPECIFICATION CatalogSpec
CONSTANTS
  Tables <- MCTables
  Blank = Blank
  Buckets = 8
  Hashes = {0, 3, 8, 11, 13}
  Unknown = Unknown
  Garbage = {0, 3}
  MaxStarts = 4
INVARIANTS
  TypeOK
  GrowsByStarts
