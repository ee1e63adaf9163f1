\* A short paper run against the replay of the same bars: a feature stop, a 1.5R take,
\* a crossing entry, risk sizing and the stop last in the priority.
SPECIFICATION Spec
CONSTANTS
  None = None
  Side = "short"
  StopRule <- StopFeatureExpr
  TakeRule <- TakeR
  TimeExitBars = 3
  EntryCondition <- CrossUp
  SignalExit <- LevelDown
  CooldownBars = 1
  Priority <- SignalFirst
  Sizing <- Risk10
  Leverage = 2
  FeeBps = 10
  SlippageBps = 5
  QtyStep = 1
  MinQty = 1
  MinNotional = 5
  InitialCapital = 100
  ExecutionStart = 1
  ExecutionEnd = 6
  PaperWindowMaxBars = 6
  Shapes <- MCShapes
CHECK_DEADLOCK FALSE
INVARIANTS
  RepliesAgree
  SnapshotsRestore
PROPERTY
  ImplementsReplay
