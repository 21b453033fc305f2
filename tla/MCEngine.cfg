CONSTANTS
  Order <- MCOrder
  MaxCommands = 4
SPECIFICATION Spec
CHECK_DEADLOCK FALSE
INVARIANTS
  TypeOK
  LiveStateIsReplay
  SingleOrderedStream
  SequenceContiguous
  StopDrains
  TopOfBookCurrent
PROPERTIES
  StopTerminates
  CommandsTaken
