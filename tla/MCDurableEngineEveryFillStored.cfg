CONSTANTS
  Order <- MCOrder
  MaxCommands = 3
  MaxLives = 3
SPECIFICATION Spec
CHECK_DEADLOCK FALSE
INVARIANT
  EveryFillStored
