SPECIFICATION LookupSpec
CONSTANTS
  TABLE_MAX = 2
  Keys = {k1, k2, k3, k4}
  MaxSizes = {2, 3}
  BucketEntries = 2
  LpmBits = 2
  Rules <- MCRules
  MaxRules = 2
  Bits = {1, 2}
  Patterns <- MCPatterns
  AclEntries = 2
  MaxCalls = 5
INVARIANTS
  ExactFindsNewest
  LpmFindsLongest
  TernaryFindsFirst
CHECK_DEADLOCK FALSE
