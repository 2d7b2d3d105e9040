SPECIFICATION FairSpec
CONSTANTS
  MaxRounds = 1
  MaxPositions = 2
  IntentCap = 1
  UpdateCap = 1
  MaxCrashes = 0
  Faults <- NoFaults
INVARIANTS
  OneOrderPerReset
  StoreMatchesExchange
  BooksAgree
PROPERTIES
  VerdictReachesStore
  AwaitingIsTracked
