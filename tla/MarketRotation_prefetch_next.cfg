SPECIFICATION Spec
CONSTANTS
  Interval = 3
  PollDelay = 1
  Early = 0
  LifecycleCap = 2
  MaxTime = 8
INVARIANTS
  PrefetchIsNextRound
