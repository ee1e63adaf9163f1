\* A short whose R-multiple take lies below zero.
SPECIFICATION Spec
CONSTANTS
  None = None
  Side = "short"
  StopRule <- StopWide
  TakeRule <- Take3R
  TimeExitBars = 3
  EntryCondition <- LevelUp
  SignalExit <- LevelDown
  CooldownBars = 1
  Priority <- StopFirst
  Sizing <- Fraction100
  Leverage = 2
  FeeBps = 10
  SlippageBps = 5
  QtyStep = 1
  MinQty = 1
  MinNotional = 5
  InitialCapital = 100
  ExecutionStart = 1
  ExecutionEnd = 5
  PaperWindowMaxBars = 5
  Shapes <- MCShapes
CHECK_DEADLOCK FALSE
INVARIANT
  SnapshotsRestore
