CONSTANTS
  Item = {0, 1}
  Default = 0
  Capacity = 4
  MaxPushes = 6
SPECIFICATION Spec
INVARIANTS
  TypeOK
  NoDataRace
  RingHoldsPending
PROPERTY
  EveryItemDelivered
