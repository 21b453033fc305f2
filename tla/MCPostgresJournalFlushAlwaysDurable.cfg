CONSTANT
  MaxRecords = 4
SPECIFICATION Spec
CHECK_DEADLOCK FALSE
INVARIANT
  FlushAlwaysDurable
