SPECIFICATION Spec
CONSTANTS
  MaxRounds = 1
  MaxPositions = 2
  LifecycleCap = 1
  PendingCap = 1
  RedeemedCap = 1
  Cost = 1
  Payout = 2
  MaxToolRuns = 0
  MaxCrashes = 0
  Faults <- ChainFaults
INVARIANTS
  TypeOK
  BooksMatchChain
