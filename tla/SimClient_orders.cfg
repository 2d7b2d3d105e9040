SPECIFICATION FairSpec
CONSTANTS
  MaxIds = 2
  Intents <- BuyAndSell
  Prices <- AroundLimit
  NoPrice = NoPrice
  Bankroll = 5
  Latency = 1
  MaxTime = 2
  MaxMoves = 2
  MaxRedeems = 1
INVARIANTS
  TypeOK
  ReservationsAddUp
  FilledOnlyIfCrossed
PROPERTIES
  PanicNeedsCancel
  CrossedIsFilled
  IsAnExchange
