SPECIFICATION Spec
CONSTANTS
  MaxRounds = 1
  MaxPositions = 2
  IntentCap = 1
  UpdateCap = 2
  MaxCrashes = 0
  Faults <- NoFaults
INVARIANTS
  OnePositionPerRound
