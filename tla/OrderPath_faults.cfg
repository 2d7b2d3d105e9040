SPECIFICATION Spec
CONSTANTS
  MaxRounds = 2
  MaxPositions = 1
  IntentCap = 1
  UpdateCap = 1
  MaxCrashes = 1
  Faults <- AllFaults
INVARIANTS
  TypeOK
  FillBookedOnce
  IInv
PROPERTIES
  StatusFollowsLifecycle
