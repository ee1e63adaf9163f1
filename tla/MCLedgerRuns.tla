--------------------------- MODULE MCLedgerRuns ---------------------------
(***************************************************************************)
(* One run of a book.  Of a pair traded as one, a long and a short leg of  *)
(* coins around 10 and 30 (the parameters of the configuration file).  Of  *)
(* lots, under one of the templates the ledger serves: the grid, the DCA,  *)
(* the ones that read a line, and signal functions that may ask for        *)
(* anything, selling the oldest or the newest lots first.  Of a portfolio  *)
(* of two coins: the weekly rotation, the BTC dominance rotation, or a     *)
(* strategy that may ask for anything.                                     *)
(***************************************************************************)
EXTENDS BasketRun, TLC

Of(a, b) == ("a" :> a) @@ ("b" :> b)
PairBar(oa, ob, ca, cb, x) == [open |-> Of(oa, ob), close |-> Of(ca, cb), feature |-> x]

\* Bars of a pair: signal, spread lost, spread won, a gap in the feature, too dear.
PairBars == {PairBar(10, 30, 11, 30, 1), PairBar(10, 31, 8, 33, 1), PairBar(11, 29, 13, 27, 0),
             PairBar(10, 30, 10, 30, None), PairBar(10, 130, 10, 130, 1)}
PairSides == Of("long", "short")
PairSteps == Of(2, 1)
PairMinQty == Of(1, 1)
PairMinNotional == Of(20, 20)
NotBelowOne == [node |-> "compare", op |-> "below", threshold |-> 1, negated |-> TRUE]
NoCondition == [node |-> "none", op |-> "above", threshold |-> 0, negated |-> FALSE]
StopFirst == <<"stop_loss", "take_profit", "time_exit", "signal_exit">>

ASSUME PairAssumed == BasketAssumption

VARIABLES
  template,        \* "grid", "paused", "dca", "series", "oldest", "newest"; "portfolio" or "pair"
  phase, bar, ledger, pending, reason, entryBar, points, fillTimes, expiries,
  prices, purchases, held, refLevel, lotLines, resetPending, pendingLine,
  roundNotional, roundQty, lastBuyPrice, dipAdds, pendingAmount, pendingDip,
  roundsCompleted, dipAddsTotal, dips,
  feed, heldLots, buySignals, sellSignals, lotCapSkips

run == <<phase, bar, ledger, pending, reason, entryBar, points, fillTimes, expiries,
         prices, purchases, held>>
memory == <<refLevel, lotLines, resetPending, pendingLine>>
lots == <<run, memory, roundNotional, roundQty, lastBuyPrice, dipAdds, pendingAmount, pendingDip,
          roundsCompleted, dipAddsTotal, dips, feed, heldLots, buySignals, sellSignals,
          lotCapSkips>>
reader == <<feed, heldLots, buySignals, sellSignals, lotCapSkips>>
round == <<roundNotional, roundQty, lastBuyPrice, dipAdds, pendingAmount, pendingDip,
           roundsCompleted, dipAddsTotal, dips>>

Asked(action, notional, kind) == [action |-> action, notional |-> notional, kind |-> kind]
GridLines == [i \in 0..5 |-> 10 * (i + 2)]
GridSignals == {Asked("buy", 300, "signal_exit"), Asked("sell_lot", 300, "signal_exit"),
                Asked("sell_all", 300, "stop_loss")}

\* A range of 20 to 70 left on both sides, a stop below it, refused entries and a limit.
Grid == INSTANCE GridRun WITH
  LotOrder <- "lifo", FeeBps <- 100, SlippageBps <- 0, Capital <- 908,
  BuyNotional <- 300, SellNotional <- 300, Signals <- GridSignals,
  OpenPrices <- {15, 45}, ClosePrices <- {15, 25, 39, 50, 75},
  LastBar <- 5, Span <- 1, EndAt <- 6,
  TimeLayer <- TRUE, MaxHoldingBars <- 3, MaxHoldingTime <- 0, Cutoffs <- {},
  BlockedDecisions <- {2},
  Lines <- GridLines, GridCount <- 5, Below <- "stop_loss"

\* TLC evaluates a constant definition once for all instances of its module, unless the
\* module is itself instantiated.
Steps == INSTANCE LotSteps WITH
  LotOrder <- "lifo", FeeBps <- 100, SlippageBps <- 0, Capital <- 908,
  BuyNotional <- 300, SellNotional <- 300
Runs == INSTANCE ScaleRun WITH
  LotOrder <- "lifo", FeeBps <- 100, SlippageBps <- 0, Capital <- 908,
  BuyNotional <- 300, SellNotional <- 300, Signals <- GridSignals,
  OpenPrices <- {15, 45}, ClosePrices <- {15, 25, 39, 50, 75},
  LastBar <- 5, Span <- 1, EndAt <- 6,
  TimeLayer <- TRUE, MaxHoldingBars <- 3, MaxHoldingTime <- 0, Cutoffs <- {},
  BlockedDecisions <- {2}

\* Periods of two bars, two dips a round, cash that runs out.
Dca == INSTANCE DcaRun WITH
  LotOrder <- "fifo", FeeBps <- 100, SlippageBps <- 0, Capital <- 100,
  BuyNotional <- 20, SellNotional <- 20,
  Signals <- {Asked("buy", 20, "signal_exit"), Asked("buy", 30, "signal_exit"),
              Asked("sell_all", 20, "take_profit")},
  OpenPrices <- {7, 10}, ClosePrices <- {6, 9, 12},
  LastBar <- 6, Span <- 1, EndAt <- 7,
  TimeLayer <- TRUE, MaxHoldingBars <- 4, MaxHoldingTime <- 0, Cutoffs <- {},
  BlockedDecisions <- {3},
  DipAmount <- 30, DipPct <- 10, ProfitPct <- 10, MaxDipAdds <- 2, PeriodLength <- 2

\* Every archive of four days, some with a day missing or too young, and RSI with and
\* without its warm-up; room for two lots.
Archive(days) == [days -> {10, 50, 90}]
SeriesFeeds ==
  {[kind |-> "greed", warm |-> TRUE, archive |-> a, earliest |-> -2] : a \in Archive({-2, 0, 2, 4})}
  \cup {[kind |-> "greed", warm |-> TRUE, archive |-> [d \in days |-> 10], earliest |-> -2] :
          days \in {{-2, 0, 4}, {-2, 0, 2}, {0, 2, 4}, {-4, -2, 0, 2, 4, 6}}}
  \cup {[kind |-> "greed", warm |-> TRUE, archive |-> [d \in {-2, 0, 2, 4} |-> 10], earliest |-> 0]}
  \cup {[kind |-> "rsi", warm |-> w, archive |-> <<>>, earliest |-> 0] : w \in BOOLEAN}
Series == INSTANCE SeriesRun WITH
  LotOrder <- "fifo", FeeBps <- 100, SlippageBps <- 0, Capital <- 70,
  BuyNotional <- 20, SellNotional <- 15,
  Signals <- {Asked(action, 20, "signal_exit") : action \in {"buy", "sell", "sell_all"}},
  OpenPrices <- {10}, ClosePrices <- {9},
  LastBar <- 6, Span <- 1, EndAt <- 7,
  TimeLayer <- TRUE, MaxHoldingBars <- 4, MaxHoldingTime <- 0, Cutoffs <- {},
  BlockedDecisions <- {3},
  DayLength <- 2, BuyThreshold <- 20, SellThreshold <- 80, MaxLots <- 2, Feeds <- SeriesFeeds
NoFeed == [kind |-> "none", warm |-> FALSE, archive |-> <<>>, earliest |-> 0]
NoReader == feed = NoFeed /\ heldLots = 0 /\ buySignals = 0 /\ sellSignals = 0 /\ lotCapSkips = 0

\* Charges of 10 and 5 percent on money that rounds; every kind of expiry.
Oldest == INSTANCE ScaleRun WITH
  LotOrder <- "fifo", FeeBps <- 1000, SlippageBps <- 500, Capital <- 45,
  BuyNotional <- 17, SellNotional <- 13,
  Signals <- {Asked("buy", 17, "signal_exit"), Asked("buy", 11, "signal_exit"),
              Asked("sell", 17, "signal_exit"), Asked("sell_all", 17, "take_profit")},
  OpenPrices <- {2, 5}, ClosePrices <- {3},
  LastBar <- 5, Span <- 2, EndAt <- 12,
  TimeLayer <- TRUE, MaxHoldingBars <- 4, MaxHoldingTime <- 0, Cutoffs <- {7},
  BlockedDecisions <- {4}

\* A limit in time, and a window that ends where the last bar opens.
Newest == INSTANCE ScaleRun WITH
  LotOrder <- "lifo", FeeBps <- 1000, SlippageBps <- 500, Capital <- 45,
  BuyNotional <- 17, SellNotional <- 13,
  Signals <- {Asked("buy", 17, "signal_exit"), Asked("sell", 17, "signal_exit"),
              Asked("sell_lot", 17, "signal_exit")},
  OpenPrices <- {2, 3, 5}, ClosePrices <- {3},
  LastBar <- 5, Span <- 2, EndAt <- 10,
  TimeLayer <- TRUE, MaxHoldingBars <- 0, MaxHoldingTime <- 6, Cutoffs <- {},
  BlockedDecisions <- {}

\* The grid again, held through a fall below its range, with room for every line.
Paused == INSTANCE GridRun WITH
  LotOrder <- "lifo", FeeBps <- 100, SlippageBps <- 0, Capital <- 2000,
  BuyNotional <- 300, SellNotional <- 300, Signals <- GridSignals,
  OpenPrices <- {45}, ClosePrices <- {15, 25, 50, 75},
  LastBar <- 6, Span <- 1, EndAt <- 7,
  TimeLayer <- TRUE, MaxHoldingBars <- 0, MaxHoldingTime <- 0, Cutoffs <- {},
  BlockedDecisions <- {3},
  Lines <- GridLines, GridCount <- 5, Below <- "pause"

-----------------------------------------------------------------------------
VARIABLES
  strategy,        \* "rotation", "dominance" or "free", and "lots" or "pair" otherwise
  stage, day, book, target, snapshots, opened, blockedDays,
  availableAt, cursor, visible, emaOver, reading, exitDays, decisions, halted

readings == <<availableAt, cursor, visible, emaOver, reading, exitDays, decisions, halted>>
portfolio == <<stage, day, book, target, snapshots, opened, blockedDays, readings>>

TwoCoins == <<"a", "b">>
Coins(a, b) == [a |-> a, b |-> b]

Ledgers == INSTANCE PortfolioSteps WITH
  Pool <- TwoCoins, QtyStep <- Coins(1, 2), MinQty <- Coins(0, 0), MinNotional <- Coins(20, 0),
  Scale <- 10, FeeRate <- 1, SlippageRate <- 1, InitialCash <- 40

\* Day 0 is a Sunday, Mondays are days 1 and 8.
Rotation == INSTANCE RotationRun WITH
  Pool <- TwoCoins, QtyStep <- Coins(1, 2), MinQty <- Coins(0, 0), MinNotional <- Coins(20, 0),
  Scale <- 10, FeeRate <- 1, SlippageRate <- 1, InitialCash <- 40, Targets <- {},
  OpenPrices <- {Coins(3, 2), Coins(1, 3)}, ClosePrices <- {Coins(2, 2)}, LastDay <- 8,
  TopK <- 1, RiskEnabled <- TRUE, FirstWeekday <- 6, phase <- stage

\* Costs of 20 and 10 percent; targets that sell one coin to buy the other, leave the
\* table or stay put.
Free == INSTANCE PortfolioRun WITH
  Pool <- TwoCoins, QtyStep <- Coins(1, 2), MinQty <- Coins(0, 4), MinNotional <- Coins(6, 0),
  Scale <- 10, FeeRate <- 2, SlippageRate <- 1, InitialCash <- 40,
  Targets <- {Coins(5, 5), Coins(9, 1), Coins(0, 10), Coins(0, 0)},
  OpenPrices <- {Coins(3, 2), Coins(5, 1)}, ClosePrices <- {Coins(3, 2)},
  LastDay <- 4, phase <- stage

\* Five points after the archived ones, read a day late or several, in any order; a
\* history one point short included.
Dominance == INSTANCE DominanceRun WITH
  Pool <- TwoCoins, QtyStep <- Coins(1, 2), MinQty <- Coins(0, 0), MinNotional <- Coins(12, 0),
  Scale <- 10, FeeRate <- 1, SlippageRate <- 1, InitialCash <- 40, Targets <- {},
  OpenPrices <- {Coins(3, 2), Coins(1, 3)}, ClosePrices <- {Coins(2, 2)}, LastDay <- 7,
  Archived <- 19, EmaPeriod <- 21, PointDays <- <<-2, -1, 0, 3, 4>>,
  Availabilities <- {<<0, 1, 4, 5, 6>>, <<5, 1, 1, 3, 4>>, <<1, 0, 3, 6, 5>>, <<2, 3, 4, 5, 6>>},
  phase <- stage

ASSUME EveryLedger ==
  /\ Grid!GridAssumption /\ Grid!RunAssumption /\ Grid!LotAssumption
  /\ Paused!GridAssumption /\ Paused!RunAssumption /\ Paused!LotAssumption
  /\ Dca!DcaParameters /\ Dca!RunAssumption /\ Dca!LotAssumption
  /\ Series!SeriesParameters /\ Series!RunAssumption /\ Series!LotAssumption
  /\ Oldest!RunAssumption /\ Oldest!LotAssumption
  /\ Newest!RunAssumption /\ Newest!LotAssumption
  /\ Rotation!PortfolioAssumption /\ Rotation!TargetAssumption /\ Rotation!RotationAssumption
  /\ Free!PortfolioAssumption /\ Free!TargetAssumption
  /\ Dominance!DominanceParameters /\ Dominance!PortfolioAssumption
  /\ Dominance!TargetAssumption

LotsInit ==
  /\ Grid!EmptyGrid /\ Dca!FirstRound
  /\ \/ template = "grid" /\ Grid!Init /\ NoReader
     \/ template = "paused" /\ Paused!Init /\ NoReader
     \/ template = "dca" /\ Dca!Init /\ NoReader
     \/ template = "series" /\ Series!SeriesInit
     \/ template = "oldest" /\ Oldest!Init /\ NoReader
     \/ template = "newest" /\ Newest!Init /\ NoReader
NoPortfolio ==
  /\ strategy = "lots" /\ Rotation!Init
  /\ blockedDays = {} /\ Dominance!NothingRead /\ availableAt = <<>>

PortfolioInit ==
  /\ blockedDays = {} /\ Dominance!NothingRead
  /\ \/ strategy = "rotation" /\ Rotation!Init /\ availableAt = <<>>
     \/ strategy = "dominance" /\ Dominance!DominanceInit
     \/ strategy = "free" /\ Free!Init /\ availableAt = <<>>
NoLots == template = "portfolio" /\ Grid!EmptyGrid /\ Dca!FirstRound /\ Grid!Init /\ NoReader

LotsNext ==
  \/ template = "grid" /\ Grid!GridNext /\ UNCHANGED <<round, reader>>
  \/ template = "paused" /\ Paused!GridNext /\ UNCHANGED <<round, reader>>
  \/ template = "dca" /\ Dca!DcaNext /\ UNCHANGED <<memory, reader>>
  \/ template = "series" /\ Series!SeriesNext /\ UNCHANGED <<memory, round>>
  \/ template = "oldest" /\ Oldest!Next /\ UNCHANGED <<memory, round, reader>>
  \/ template = "newest" /\ Newest!Next /\ UNCHANGED <<memory, round, reader>>

PortfolioNext ==
  \/ strategy = "rotation" /\ Rotation!RotationNext /\ UNCHANGED readings
  \/ strategy = "dominance" /\ Dominance!DominanceNext /\ UNCHANGED blockedDays
  \/ strategy = "free" /\ Free!Next /\ UNCHANGED <<blockedDays, readings>>

\* The pair beside whatever the others start with, which stands still.
PairInit ==
  /\ template = "pair" /\ strategy = "pair"
  /\ Grid!EmptyGrid /\ Dca!FirstRound /\ Grid!Init /\ NoReader
  /\ Rotation!Init /\ blockedDays = {} /\ Dominance!NothingRead /\ availableAt = <<>>

BooksInit == Init /\ (PairInit \/ (LotsInit /\ NoPortfolio) \/ (PortfolioInit /\ NoLots))
BooksNext ==
  \/ template = "pair" /\ Next /\ UNCHANGED <<template, strategy, lots, portfolio>>
  \/ LotsNext /\ UNCHANGED <<template, strategy, portfolio, vars>>
  \/ PortfolioNext /\ UNCHANGED <<template, strategy, lots, vars>>
BooksSpec == BooksInit /\ [][BooksNext]_<<template, strategy, lots, portfolio, vars>>

-----------------------------------------------------------------------------
\* Types, under every template, and NeverEngineError: the ledger's own assertions on cash,
\* profit, quantities and the order of its lots never fire.
LedgersSound ==
  /\ Grid!NeverEngineError
  /\ CASE template = "grid" -> Grid!GridTypeOK
       [] template = "paused" -> Paused!GridTypeOK
       [] template = "dca" -> Dca!TypeOK
       [] template = "series" -> Series!TypeOK \/ phase = "refused"
       [] template = "oldest" -> Oldest!TypeOK
       [] template = "newest" -> Newest!TypeOK
       [] OTHER -> TRUE

\* ServerRecomputesFees under every template: the charges of a sold-out lot's trades are
\* those the documented formula recomputes from the trades alone.
FeesRecompute ==
  CASE template = "grid" -> Grid!ServerRecomputesFees
    [] template = "paused" -> Paused!ServerRecomputesFees
    [] template = "dca" -> Dca!ServerRecomputesFees
    [] template = "series" -> Series!ServerRecomputesFees
    [] template = "oldest" -> Oldest!ServerRecomputesFees
    [] template = "newest" -> Newest!ServerRecomputesFees
    [] OTHER -> TRUE

\* CurveEndsAtTheResult under every template: the curve ends at the cash the run leaves,
\* the capital and every trade's profit, and only the end of the data closes at end_at.
CurvesEndAtResults ==
  CASE template = "grid" -> Grid!CurveEndsAtTheResult
    [] template = "paused" -> Paused!CurveEndsAtTheResult
    [] template = "dca" -> Dca!CurveEndsAtTheResult
    [] template = "series" -> Series!CurveEndsAtTheResult
    [] template = "oldest" -> Oldest!CurveEndsAtTheResult
    [] template = "newest" -> Newest!CurveEndsAtTheResult
    [] OTHER -> TRUE

\* RoundsExpire under every template: no close holds lots of a round that was due at an
\* earlier close.
EveryRoundExpires ==
  CASE template = "grid" -> Grid!RoundsExpire
    [] template = "paused" -> Paused!RoundsExpire
    [] template = "dca" -> Dca!RoundsExpire
    [] template = "series" -> Series!RoundsExpire
    [] template = "oldest" -> Oldest!RoundsExpire
    [] template = "newest" -> Newest!RoundsExpire
    [] OTHER -> TRUE

\* Each lot run's books: the assertions hold, the charges recompute, the curve ends right.
LotBooksAreSound == LedgersSound /\ FeesRecompute /\ CurvesEndAtResults

\* LinesMirrorTheLots and BelowRangeIsFlat of the grid: the lines it remembers are the
\* book of the ledger, and a close below the range leaves no lot after the next open.
GridMirrors ==
  /\ template = "grid" => Grid!LinesMirrorTheLots /\ Grid!BelowRangeIsFlat
  /\ template = "paused" => Paused!LinesMirrorTheLots

\* RoundMirrorsTheLots, DipsAreCounted and RoundsAreCounted of the DCA: the round it
\* measures its target on is the ledger's, it spends the dips it asked for and no more
\* than it may, and the rounds it reports are those sold.
DcaMirrors ==
  template = "dca" =>
    Dca!RoundMirrorsTheLots /\ Dca!DipsAreCounted /\ Dca!RoundsAreCounted
\* LotsAreCounted and ReadsTheLastWholeDay of Fear & Greed: the lots it counts are the
\* ledger's, and every close reads the last day that was over.
SeriesMirrors == template = "series" => Series!LotsAreCounted /\ Series!ReadsTheLastWholeDay
\* What a template keeps beside the ledger agrees with it, refusals and expiries included.
TemplatesMirrorTheLedger == GridMirrors /\ DcaMirrors /\ SeriesMirrors

-----------------------------------------------------------------------------
\* Types, and SnapshotsReconcile, under every strategy: cash is never borrowed, no
\* quantity is owed, and every snapshot is what its fills replay to.
EverySnapshotReconciles ==
  CASE strategy = "rotation" -> Rotation!RotationTypeOK /\ Rotation!SnapshotsReconcile
    [] strategy = "dominance" -> Dominance!DominanceTypeOK /\ Dominance!SnapshotsReconcile
    [] strategy = "free" -> Free!TypeOK /\ Free!SnapshotsReconcile
    [] OTHER -> TRUE

\* LandsOnTarget under every strategy: a rebalance leaves every coin as near its target as
\* steps, minimums and cash allow.
EveryRebalanceLands ==
  CASE strategy = "rotation" -> Rotation!LandsOnTarget
    [] strategy = "dominance" -> Dominance!LandsOnTarget
    [] strategy = "free" -> Free!LandsOnTarget
    [] OTHER -> TRUE

\* Rebalances land where they aim, and every later snapshot replays from their fills.
RebalancesLand == EverySnapshotReconciles /\ EveryRebalanceLands

\* RiskOff, BuysOnMondays and FailsOnMinimumsOnly of the rotation: out of the market while
\* the risk layer says so, in it from Mondays only, and an engine error names a sale that
\* a minimum refused.  ReadsWhatIsAvailable, ExitsFollowEntries and HaltsBeforeTrading of
\* the dominance: no point is read early or dropped, and exits and entries take turns.
RotationsKeepTheirRules ==
  /\ strategy = "rotation" =>
       Rotation!RiskOff /\ Rotation!BuysOnMondays /\ Rotation!FailsOnMinimumsOnly
  /\ strategy = "dominance" =>
       /\ Dominance!ReadsWhatIsAvailable /\ Dominance!ExitsFollowEntries
       /\ Dominance!HaltsBeforeTrading
=============================================================================
