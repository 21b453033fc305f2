CONSTANT
  MaxRecords = 4
SPECIFICATION Spec
CHECK_DEADLOCK FALSE
INVARIANTS
  TypeOK
  Accounting
  FlushedIsDurable
  DestructorDrains
PROPERTIES
  ImplementsGroupCommit
  FlushTerminates
  RecordsTaken
  DestructorReturns
