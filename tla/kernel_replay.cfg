\* A long of fixed margin, stop and take, with a cooldown of one bar.
SPECIFICATION Spec
CONSTANTS
  None = None
  Side = "long"
  StopRule <- StopFixed
  TakeRule <- TakeFixed
  TimeExitBars = 3
  EntryCondition <- LevelUp
  SignalExit <- LevelDown
  CooldownBars = 1
  Priority <- StopFirst
  Sizing <- Margin60
  Leverage = 5
  FeeBps = 10
  SlippageBps = 5
  QtyStep = 1
  MinQty = 1
  MinNotional = 5
  InitialCapital = 100
  ExecutionStart = 1
  ExecutionEnd = 6
  Frames <- MCFrames
CHECK_DEADLOCK FALSE
INVARIANTS
  TypeOK
  NextBarFill
  ExitsFollowTheBars
  TradesFormLedger
  MarginCovered
  OrdersReachTheCurve
