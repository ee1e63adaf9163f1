------------------------------ MODULE GridRun ------------------------------
(***************************************************************************)
(* The grid template of backtesting-py/cutie_backtesting_provider.py       *)
(* (_build_grid): signal and on_fill over the lot ledger.  A close below   *)
(* the reference line buys on it, a close one line above the newest lot's  *)
(* line sells that lot, and a close below the range may clear the book.    *)
(***************************************************************************)
EXTENDS ScaleRun

CONSTANTS
  Lines,         \* [0..GridCount -> price], lower to upper
  GridCount,
  Below          \* below_lower_action: "pause" or "stop_loss"

GridAssumption ==
  /\ GridCount \in 5..100
  /\ Lines \in [0..GridCount -> Nat \ {0}]
  /\ \A i \in 0..GridCount - 1 : Lines[i] < Lines[i + 1]
  /\ Below \in {"pause", "stop_loss"}
  /\ LotOrder = "lifo"
  /\ Signals = {Signal("buy"), Signal("sell_lot"),
                [Signal("sell_all") EXCEPT !.kind = "stop_loss"]}

VARIABLES
  refLevel,        \* the line the next buy is for
  lotLines,        \* the buy line of each held lot, oldest first
  resetPending,    \* the range was left below and not entered again
  pendingLine      \* the line a pending buy is for

memory == <<refLevel, lotLines, resetPending, pendingLine>>
gridVars == <<vars, memory>>

\* level(): -1 below the range, GridCount + 1 above it.
Level(price) ==
  IF price < Lines[0] THEN -1
  ELSE IF price > Lines[GridCount] THEN GridCount + 1
  ELSE Max({i \in 0..GridCount : Lines[i] <= price})

BuyLine == Lesser(refLevel, GridCount - 1)
InRange(lv) == 0 <= lv /\ lv <= GridCount

StopsOut(lv) == lv = -1 /\ Below = "stop_loss" /\ ~resetPending
Resets(lv) == resetPending /\ InRange(lv)
WantsBuy(lv) == InRange(lv) /\ lv < BuyLine

WantsSell(lv) == lotLines # <<>> /\ lv >= Last(lotLines) + 1

\* What signal() returns at a level, after the first bar.
GridSignal(lv) ==
  IF lv = -1
  THEN IF StopsOut(lv) /\ lotLines # <<>>
       THEN [Signal("sell_all") EXCEPT !.kind = "stop_loss"] ELSE Hold
  ELSE IF Resets(lv) THEN Hold
  ELSE IF WantsBuy(lv) THEN Signal("buy")
  ELSE IF WantsSell(lv) THEN Signal("sell_lot")
  ELSE Hold

\* What signal() remembers: nothing of a buy or a sell before it fills.
Remember(lv) ==
  /\ resetPending' = (StopsOut(lv) \/ (resetPending /\ ~Resets(lv)))
  /\ refLevel' = IF Resets(lv) THEN lv
                 ELSE IF lv # -1 /\ ~WantsBuy(lv) /\ lotLines = <<>> /\ lv > refLevel
                 THEN Lesser(lv, GridCount)
                 ELSE refLevel
  /\ pendingLine' = IF lv # -1 /\ ~Resets(lv) /\ WantsBuy(lv) THEN BuyLine ELSE pendingLine
  /\ UNCHANGED lotLines

\* on_fill.
OnFill(filled, price) ==
  IF ~filled THEN UNCHANGED memory
  ELSE CASE pending.action = "buy" ->
              /\ lotLines' = Append(lotLines, pendingLine)
              /\ refLevel' = pendingLine - 1
              /\ UNCHANGED <<resetPending, pendingLine>>
         [] pending.action = "sell_lot" ->
              /\ lotLines' = Front(lotLines)
              /\ refLevel' = Last(lotLines)
              /\ UNCHANGED <<resetPending, pendingLine>>
         [] pending.action = "sell_all" ->
              /\ lotLines' = <<>>
              /\ refLevel' = IF reason = "time_expiry" THEN Level(price) ELSE refLevel
              /\ resetPending' = IF reason = "time_expiry" THEN FALSE ELSE resetPending
              /\ UNCHANGED pendingLine

EmptyGrid == refLevel = 0 /\ lotLines = <<>> /\ resetPending = FALSE /\ pendingLine = None

GridInit == Init /\ EmptyGrid

GridOpen(price) ==
  /\ OpenBar(price)
  /\ OnFill(Fill(price).filled, price)

\* The first close only sets the reference; a close that is not asked
\* changes nothing.
GridClose(price) ==
  IF bar = 0
  THEN /\ CloseBar(price, Hold)
       /\ refLevel' = Level(price)
       /\ UNCHANGED <<lotLines, resetPending, pendingLine>>
  ELSE IF Asks
  THEN CloseBar(price, GridSignal(Level(price))) /\ Remember(Level(price))
  ELSE CloseBar(price, Hold) /\ UNCHANGED memory

GridNext ==
  \/ \E price \in OpenPrices : GridOpen(price)
  \/ \E price \in ClosePrices : GridClose(price)
  \/ Finish /\ UNCHANGED memory

GridSpec == GridInit /\ [][GridNext]_gridVars

-----------------------------------------------------------------------------
\* Types of the memory, and the ledger never raises under it.
GridTypeOK ==
  /\ TypeOK /\ NeverEngineError
  /\ refLevel \in -1..GridCount + 1
  /\ \A i \in 1..Len(lotLines) : lotLines[i] \in Int
  /\ resetPending \in BOOLEAN

\* The template's memory is the ledger's book: one line per held lot, each
\* held line below the one bought before it, none of them the bottom or the
\* top one, and the next buy is for the line under the newest lot - whatever
\* was refused, short of cash or expired on the way.
LinesMirrorTheLots ==
  phase \in {"open", "close", "end"} =>
    /\ Len(lotLines) = Len(ledger.lots)
    /\ \A i \in 1..Len(lotLines) : lotLines[i] \in 1..GridCount - 1
    /\ \A i \in 1..Len(lotLines) - 1 : lotLines[i] > lotLines[i + 1]
    /\ lotLines # <<>> => refLevel = Last(lotLines) - 1

\* With the range stop on, a close below the range is followed by an open
\* that leaves no lot held.
BelowRangeIsFlat ==
  Below = "stop_loss" =>
    \A i \in 1..Len(prices) - 1 :
      prices[i] < Lines[0] /\ OpenTime(i) < EndAt => ~held[i + 1]
=============================================================================
