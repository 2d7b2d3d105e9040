SPECIFICATION Spec
CONSTANTS
  MaxRounds = 1
  MaxTicks = 5
  IntentCap = 1
  Prices <- AroundStrike
  Pauses <- SameOrNext
  Strike = 20000
  ClosesAt = 5
  Interval = 5
  Asks <- OffTheGrid
  Bankrolls <- SomeMoney
  MinSize = 30
  TickSize = 10
  BucketSecs = 1
  HistoryCap = 3
  TrendWindow = 3
  FastPeriod = 1
  SlowPeriod = 2
  RsiPeriod = 2
  EntryWindow = 4
  DangerZone = 0
  Margin = 0
  Stride = 2
  Warmup = 1
  Percent = 5
INVARIANTS
  TypeOK
  CandlesMatchTicks
  SidesAlike
  NeverEntersFlat
  QuantNeedsVolatility
  V1MirrorsSettlement
PROPERTIES
  LimitCoversAsk
