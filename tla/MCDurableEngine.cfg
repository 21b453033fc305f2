CONSTANTS
  Order <- MCOrder
  MaxCommands = 4
  MaxLives = 3
SPECIFICATION Spec
CHECK_DEADLOCK FALSE
INVARIANTS
  RecoveredStateIsPast
  StoppedIsDurable
  KeysNeverCollide
  TradesFollowEvents
