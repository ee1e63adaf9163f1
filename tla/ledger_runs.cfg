\* The pair: a stop, a target, a time exit and a cooldown of two aligned bars.
SPECIFICATION BooksSpec
CONSTANTS
  None = None
  Legs = {"a", "b"}
  LegSide <- PairSides
  QtyStep <- PairSteps
  MinQty <- PairMinQty
  MinNotional <- PairMinNotional
  MarginPerLeg = 50
  Leverage = 2
  StopPct = 15
  TakePct = 15
  TimeExitBars = 3
  EntryCondition <- NotBelowOne
  SignalExit <- NoCondition
  CooldownBars = 2
  Priority <- StopFirst
  FeeBps = 10
  SlippageBps = 5
  WarmupBars = 1
  GridBars = 6
  Shapes <- PairBars
CHECK_DEADLOCK FALSE
INVARIANTS
  BasketsKeepTheirRules
  LotBooksAreSound
  EveryRoundExpires
  TemplatesMirrorTheLedger
  RebalancesLand
  RotationsKeepTheirRules
