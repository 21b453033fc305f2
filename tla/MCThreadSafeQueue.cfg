CONSTANTS
  Producers = {p1, p2, p3}
  Consumers = {c1, c2, c3}
  MaxItems = 6
SPECIFICATION Spec
INVARIANT
  EveryItemHasATaker
PROPERTIES
  ItemsTaken
  StopReleasesAll
