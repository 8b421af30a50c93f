SPECIFICATION Spec
CONSTANTS
  Key = {k1}
  Tag = {1, 2}
  MaxRecords = 5
INVARIANT ReencodingKeepsPlan
CHECK_DEADLOCK FALSE
