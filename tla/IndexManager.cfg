\* Two indexes in one bucket, six keys, two pages.
SPECIFICATION IndexSpec
CONSTANTS
  Indexes <- MCIndexes
  KeysOf <- MCKeysOf
  HashOf <- MCHashOf
  Buckets = {0}
  Pages = {1, 2}
INVARIANTS
  IndexTypeOK
  LookupFindsEntry
  RangeIsExact
