SPECIFICATION Spec
CONSTANTS
  MaxRounds = 2
  MaxPositions = 1
  LifecycleCap = 2
  PendingCap = 1
  RedeemedCap = 1
  Cost = 1
  Payout = 2
  MaxToolRuns = 0
  MaxCrashes = 1
  Faults <- AllFaults
INVARIANTS
  StoreMatchesChain
  PriceIsOfMarket
  RedeemOnce
