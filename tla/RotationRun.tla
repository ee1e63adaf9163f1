---------------------------- MODULE RotationRun ----------------------------
(***************************************************************************)
(* run_rotation of backtesting-py/portfolio_rotation.py: every Monday the  *)
(* TopK strongest coins of a frozen pool in equal parts, and out of the    *)
(* market from a BTC close under its EMA until the next Monday that finds  *)
(* it above.  The portfolio is PortfolioRun.                               *)
(*                                                                         *)
(* The ranking of a Monday and the side of BTC's EMA a close falls on are  *)
(* data: any TopK coins, any side.                                         *)
(***************************************************************************)
EXTENDS PortfolioRun, FiniteSets

CONSTANTS
  TopK,
  RiskEnabled,      \* btc_risk_enabled
  FirstWeekday      \* weekday of day 0, Monday = 0

RotationAssumption ==
  /\ TopK \in 1..Len(Pool) /\ RiskEnabled \in BOOLEAN /\ FirstWeekday \in 0..6

VARIABLE blockedDays     \* blocked_times

rotationVars == <<vars, blockedDays>>

\* Equal weights rounded down; what rounding leaves stays in cash.
EqualWeights(chosen) == [s \in Symbols |-> IF s \in chosen THEN Scale \div TopK ELSE 0]

AllCash == [s \in Symbols |-> 0]

Chosen == {c \in SUBSET Symbols : Cardinality(c) = TopK}

\* Mutation: a day that is not blocked ranks, Monday or not.
AnyDay(d) == TRUE

Monday(d) == (FirstWeekday + d) % 7 = 0

\* What may be decided for day d, given the side of the close before it.
Decisions(d, blocked) ==
  IF blocked THEN {AllCash}
  ELSE IF Monday(d) THEN {EqualWeights(c) : c \in Chosen} ELSE {NoTarget}

RotationInit == Init /\ blockedDays = {}

RotationOpen == (\E prices \in OpenPrices : Open(prices)) /\ UNCHANGED blockedDays

\* The close of a day before the last decides for the next day.
RotationClose ==
  \E prices \in ClosePrices, blocked \in IF RiskEnabled THEN BOOLEAN ELSE {FALSE} :
    IF day = LastDay THEN Close(prices, NoTarget) /\ UNCHANGED blockedDays
    ELSE /\ \E decision \in Decisions(day + 1, blocked) : Close(prices, decision)
         /\ blockedDays' = blockedDays \cup (IF blocked THEN {day + 1} ELSE {})

RotationNext == RotationOpen \/ RotationClose

RotationSpec == RotationInit /\ [][RotationNext]_rotationVars

Flat(snapshot) == \A s \in Symbols : snapshot.quantities[s] = 0

\* ENGINE_ERROR liquidation_below_minimum: a minimum kept a coin past a
\* liquidation.
Failed == \E i \in 1..Len(snapshots) : snapshots[i].ts \in blockedDays /\ ~Flat(snapshots[i])

-----------------------------------------------------------------------------
RotationTypeOK == TypeOK /\ blockedDays \subseteq 1..LastDay

\* A run that succeeds holds nothing from the open after a BTC close under
\* the EMA to the next Monday that is not blocked.
RiskOff ==
  phase = "done" /\ ~Failed =>
    \A b \in blockedDays, d \in 1..LastDay :
      b <= d /\ (\A m \in (b + 1)..d : Monday(m) => m \in blockedDays)
        => Flat(snapshots[d + 1])

\* Coins are bought on Mondays that are not blocked only; and sold then, or on
\* a blocked day.
BuysOnMondays ==
  \A i \in 1..Len(book.fills) :
    LET f == book.fills[i]
        ranked == (FirstWeekday + f.ts) % 7 = 0 /\ f.ts \notin blockedDays
    IN ranked \/ (f.side = "sell" /\ f.ts \in blockedDays)

\* The engine error is what it says: on a day it names, the sale of a coin
\* still held was refused for being under a minimum, never for another reason.
FailsOnMinimumsOnly ==
  \A d \in blockedDays, s \in Symbols :
    d < Len(snapshots) /\ snapshots[d + 1].quantities[s] > 0 =>
      \E i \in 1..Len(book.rejections) :
        LET r == book.rejections[i]
        IN /\ r.ts = d /\ r.symbol = s /\ r.side = "sell"
           /\ r.reason \in {"below_min_qty", "below_min_notional"}
=============================================================================
