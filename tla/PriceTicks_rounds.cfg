SPECIFICATION TicksSpec
CONSTANTS
  Interval = 2
  PollDelay = 1
  Early = 1
  LifecycleCap = 1
  MaxTime = 4
  FeedCap = 1
  TickCap = 1
  TickCache = 2
  Epoch = 4
  MaxTicks = 3
  MaxErrors = 1
INVARIANTS
  TicksTypeOK
  CutoffIsResolvedNext
PROPERTIES
  ResolvedInOrder
  RotationIsMarketWatch
  PriceIsLast
  TicksArrive
