CONSTANTS
  TopOfBook <- MCTopOfBook
  MaxMessages = 3
SPECIFICATION Spec
INVARIANTS
  CacheIsLatest
  TornOnlyByLoss
  FeedAtMostOnce
PROPERTY
  DestructorReturns
