--------------------------- MODULE MCCycleReplay ---------------------------
(***************************************************************************)
(* Replays of one strategy's cycle: a long signal whose stop is managed    *)
(* (the parameters of the configuration file), a short one, an author with *)
(* several strategies and tight quotas, and a long run of settlements.     *)
(***************************************************************************)
EXTENDS CycleReplay

Shape(h, l, c) == [high |-> h, low |-> l, close |-> c]

\* Long: entry 20, stop 16, target 32, 1R at 24, trailing 25 percent.  A dip that fills,
\* a rise that closes at 1R, a higher one that closes short of it, a fall through every
\* stop, a spike to the target.
LongShapes ==
  {Shape(22, 19, 21), Shape(25, 23, 24), Shape(29, 22, 22), Shape(24, 15, 17), Shape(33, 25, 31)}

All == 0..LastClock
NoInstants == {}
NoFunding == {0}

VARIABLE strategy     \* "long", "short", "quotas" or "settlements"

\* TLC evaluates a constant definition once for all instances of its module, unless the
\* module is itself instantiated.
Signals0 == INSTANCE SignalSteps
Cycles == INSTANCE CycleReplay

\* Entry 20, stop 26, target 10, 1R at 14; trailing 60 percent, ticks of two, strategy
\* bars of two candles, no expiry.
Short == INSTANCE CycleReplay WITH
  Side <- "short", EntryPrice <- 20, InitialStop <- 26, Target <- 10, Lifetime <- 0,
  TrailingPct <- 60, Breakeven <- TRUE, PriceTick <- 2, CostNum <- 0, CostDen <- 1,
  Shapes <- {Shape(21, 19, 19), Shape(15, 14, 14), Shape(19, 11, 17), Shape(27, 18, 25)},
  BarCandles <- 2, LastClock <- 12, MaxIntents <- 2, IntentInstants <- 0..7

\* Days of six units from a shifted midnight, other strategies entering, a cooldown.
Quotas == INSTANCE CycleReplay WITH
  Target <- 24, Lifetime <- 3, TrailingPct <- 0, Breakeven <- FALSE,
  Leverage <- 1, CostNum <- 0, CostDen <- 1,
  Shapes <- {Shape(22, 19, 20), Shape(24, 21, 22)}, BarCandles <- 0,
  FundingPayments <- {0, 5},
  DailyLimit <- 2, AuthorDailyLimit <- 3, CooldownSeconds <- 3, DayLength <- 6, DayOffset <- -1,
  LastClock <- 10, MaxIntents <- 5, IntentInstants <- 0..10, ExternalInstants <- {2, 3, 8}

\* Every candle fills; rule exits make trades that gain, break even, lose a little or a
\* lot, one after the other.
Settlements == INSTANCE CycleReplay WITH
  EntryPrice <- 26, InitialStop <- 20, Target <- 60, Lifetime <- 0,
  TrailingPct <- 0, Breakeven <- FALSE, Leverage <- 1, CostNum <- 0, CostDen <- 1,
  Shapes <- {Shape(26, 26, 26)}, BarCandles <- 0, ExitPrices <- {22, 25, 26, 27},
  LastClock <- 10, MaxIntents <- 11, IntentInstants <- {0, 2, 4, 6, 8, 10}

ASSUME OtherStrategies ==
  /\ Short!SignalAssumption /\ Short!CycleAssumption
  /\ Quotas!SignalAssumption /\ Quotas!CycleAssumption
  /\ Settlements!SignalAssumption /\ Settlements!CycleAssumption

CyclesInit ==
  \/ strategy = "long" /\ Init
  \/ strategy = "short" /\ Short!Init
  \/ strategy = "quotas" /\ Quotas!Init
  \/ strategy = "settlements" /\ Settlements!Init

CyclesNext ==
  \/ strategy = "long" /\ Next /\ UNCHANGED strategy
  \/ strategy = "short" /\ Short!Next /\ UNCHANGED strategy
  \/ strategy = "quotas" /\ Quotas!Next /\ UNCHANGED strategy
  \/ strategy = "settlements" /\ Settlements!Next /\ UNCHANGED strategy

CyclesSpec == CyclesInit /\ [][CyclesNext]_<<vars, strategy>>

-----------------------------------------------------------------------------
\* StopFollowsTheBars, and the types, under every strategy: the level in force, and the level
\* a trade is stopped out at, is the one the strategy bars before that candle give.
EveryStopFollowsTheBars ==
  CASE strategy = "long" -> TypeOK /\ StopFollowsTheBars
    [] strategy = "short" -> Short!TypeOK /\ Short!StopFollowsTheBars
    [] strategy = "quotas" -> Quotas!TypeOK /\ Quotas!StopFollowsTheBars
    [] strategy = "settlements" -> Settlements!TypeOK /\ Settlements!StopFollowsTheBars

EarnedByStrategy ==
  CASE strategy = "long" -> Earned
    [] strategy = "short" -> Short!Earned
    [] strategy = "quotas" -> Quotas!Earned
    [] strategy = "settlements" -> Settlements!Earned

\* EntriesAreEarned under every strategy: an intent is published exactly when the whole
\* history of the cycle allows it.
EveryEntryIsEarned ==
  [][intents' # intents /\ outcome' \in Refusals \cup {"published"}
       => ((outcome' = "published") <=> EarnedByStrategy)]_vars

\* ImplementsBook under every strategy: every step of the replay is one of SignalBook with
\* that strategy's levels.
EveryCycleImplementsBook ==
  [][CASE strategy = "long" -> Book!Next
       [] strategy = "short" -> Short!Book!Next
       [] strategy = "quotas" -> Quotas!Book!Next
       [] strategy = "settlements" -> Settlements!Book!Next]_<<active, settlements>>
=============================================================================
