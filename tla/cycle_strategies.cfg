\* A long signal with trailing, breakeven and one-candle strategy bars.
SPECIFICATION CyclesSpec
CONSTANTS
  Side = "long"
  EntryPrice = 20
  InitialStop = 16
  Target = 32
  Lifetime = 4
  TrailingPct = 25
  Breakeven = TRUE
  PriceTick = 1
  Leverage = 2
  CostNum = 1
  CostDen = 10
  None = None
  Shapes <- LongShapes
  BarCandles = 1
  ExitPrices = {21}
  FundingPayments <- NoFunding
  DailyLimit = 10
  AuthorDailyLimit = 10
  CooldownSeconds = 0
  DayLength = 100
  DayOffset = 0
  LastClock = 9
  MaxIntents = 3
  IntentInstants <- All
  ExternalInstants <- NoInstants
CHECK_DEADLOCK FALSE
INVARIANTS
  EverySignalOnce
  EveryStopFollowsTheBars
PROPERTIES
  EveryEntryIsEarned
  EveryCycleImplementsBook
