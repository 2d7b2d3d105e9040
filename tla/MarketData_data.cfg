SPECIFICATION FairSpec
CONSTANTS
  MaxRounds = 2
  RxCap = 1
  WireCap = 2
  MaxFeeds = 3
  MaxQuotes = 1
  MaxFaults = 1
  Outcomes <- OneOutcome
  Quotes <- TwoQuotes
  NoPrice = NoPrice
INVARIANTS
  TypeOK
  CacheIsOfOneMarket
PROPERTIES
  CacheMovesForward
  CacheCatchesUp
  PublishRebuilds
  MisfiledOnlyWhileUnread
