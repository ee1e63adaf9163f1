------------------------------ MODULE BasketRun ------------------------------
(***************************************************************************)
(* simulate_v3 of backtesting-py/strategy_kernel.py: a basket of legs that *)
(* are entered and left together, over bars that count only where every    *)
(* leg has one.  Bar k of the shared grid opens at time k and closes at    *)
(* k + 1; indexes of aligned bars are 1-based and count warmup bars.       *)
(* Money is in 1/10000 of a quote unit, as in KernelSteps.                 *)
(***************************************************************************)
EXTENDS Integers, Sequences, FiniteSets, Functions, SequencesExt

CONSTANTS
  Legs,             \* market.legs
  LegSide,          \* "long" or "short" of each
  QtyStep, MinQty, MinNotional,    \* instrument rules of each
  MarginPerLeg, Leverage,          \* risk.position_sizing.value, risk.leverage
  StopPct, TakePct,                \* exit levels, in percent of the whole margin
  TimeExitBars,                    \* 0 when null
  EntryCondition, SignalExit,      \* [node, op, threshold, negated]; node "none" is null
  CooldownBars, Priority,
  FeeBps, SlippageBps,
  WarmupBars,                      \* bars of the grid before start_at
  GridBars,                        \* bound: length of the grid
  Shapes,                          \* the aligned bars the market may print
  None

BasketAssumption ==
  /\ LegSide \in [Legs -> {"long", "short"}] /\ Cardinality(Legs) >= 2
  /\ \A rule \in {QtyStep, MinQty, MinNotional} : rule \in [Legs -> Nat \ {0}]
  /\ MarginPerLeg \in Nat \ {0} /\ Leverage \in Nat \ {0}
  /\ StopPct \in Nat \ {0} /\ TakePct \in Nat \ {0}
  /\ TimeExitBars \in Nat /\ CooldownBars \in Nat /\ FeeBps \in Nat /\ SlippageBps \in Nat
  /\ {Priority[i] : i \in 1..4} = {"stop_loss", "take_profit", "time_exit", "signal_exit"}
  /\ WarmupBars \in Nat /\ GridBars \in Nat \ {0} /\ WarmupBars < GridBars
  /\ Shapes \subseteq [open : [Legs -> Nat \ {0}], close : [Legs -> Nat \ {0}], feature : Int \cup {None}]
  /\ None \notin Shapes

VARIABLES
  grid,            \* frames so far: a shape, or None where a leg has no bar
  aligned,         \* the grid positions of the aligned ones
  pending_entry,   \* aligned index of the signal, 0 when none
  position,        \* the basket, or <<>>
  last_exit_index, \* 0 when none
  trades, diagnostics, skipped_bars,
  mtm_points,
  status,          \* "running" or "done"
  signals          \* history: aligned indexes of the signals

vars == <<grid, aligned, pending_entry, position, last_exit_index, trades, diagnostics,
          skipped_bars, mtm_points, status, signals>>

SumOf(f) == FoldFunction(+, 0, f)
Signed(leg, from, to) == IF LegSide[leg] = "long" THEN to - from ELSE from - to

----------------------------------------------------------------------------
\* _condition_hit_v3: a feature against a threshold, or its crossing from the
\* aligned bar before; a gap in anything it reads is never a hit.
Hit(cond, features, index) ==
  LET t == cond.threshold
      beyond(i) == IF cond.op = "above" THEN features[i] > t ELSE features[i] < t
      reads == IF cond.node = "cross" /\ index > 1 THEN {index - 1, index} ELSE {index}
      crossed == index > 1 /\ ~beyond(index - 1) /\ beyond(index)
  IN /\ cond.node # "none"
     /\ \A i \in reads : features[i] # None
     /\ (IF cond.node = "cross" THEN crossed ELSE beyond(index)) # cond.negated

Features(g, a) == [i \in DOMAIN a |-> g[a[i]].feature]

----------------------------------------------------------------------------
FloorToStep(leg, amount, price) == (amount \div (price * QtyStep[leg])) * QtyStep[leg]

FirstPass(bar) == [leg \in Legs |-> FloorToStep(leg, MarginPerLeg * Leverage, bar.open[leg])]

\* The least notional of the legs that can be bought at all.
Anchor(bar) ==
  LET notionals == {FirstPass(bar)[leg] * bar.open[leg] : leg \in {l \in Legs : FirstPass(bar)[l] > 0}}
  IN IF notionals = {} THEN 0 ELSE CHOOSE n \in notionals : \A m \in notionals : n <= m

Quantities(bar) == [leg \in Legs |-> FloorToStep(leg, Anchor(bar), bar.open[leg])]

RejectedLegs(bar) ==
  {leg \in Legs :
     \/ FirstPass(bar)[leg] <= 0
     \/ Quantities(bar)[leg] < MinQty[leg]
     \/ Quantities(bar)[leg] * bar.open[leg] < MinNotional[leg]}

\* open_basket: all legs at this bar's opens, or none.
Opened(bar, at) ==
  IF RejectedLegs(bar) # {} THEN <<>>
  ELSE << [qty |-> Quantities(bar), entry |-> bar.open, opened_at |-> at, bars_held |-> 1,
           pending_stop |-> FALSE, pending_take |-> FALSE, pending_signal_exit |-> FALSE] >>

----------------------------------------------------------------------------
ExitDue(kind, pos) ==
  CASE kind = "stop_loss"   -> pos.pending_stop
    [] kind = "take_profit" -> pos.pending_take
    [] kind = "signal_exit" -> pos.pending_signal_exit
    [] OTHER                -> TimeExitBars > 0 /\ pos.bars_held >= TimeExitBars

DueExits(pos) == {i \in 1..4 : ExitDue(Priority[i], pos)}
FirstDue(pos) == Priority[CHOOSE i \in DueExits(pos) : \A j \in DueExits(pos) : i <= j]

Prices(kind, bar) == IF kind \in {"time_exit", "end_of_data"} THEN bar.close ELSE bar.open

LegPnl(pos, leg, price) ==
  pos.qty[leg] * (Signed(leg, pos.entry[leg], price) * 10000
                   - (pos.entry[leg] + price) * (FeeBps + SlippageBps))

\* close_basket: all legs at the same price of the same bar.
Closed(pos, kind, bar, at) ==
  [seq |-> Len(trades) + 1, opened_at |-> pos.opened_at,
   closed_at |-> IF kind \in {"time_exit", "end_of_data"} THEN at + 1 ELSE at,
   exit_kind |-> kind, qty |-> pos.qty, entry |-> pos.entry, exit |-> Prices(kind, bar),
   pnl |-> SumOf([leg \in Legs |-> LegPnl(pos, leg, Prices(kind, bar)[leg])])]

\* basket_pnl_pct, as profit at the close times a hundred, over the margin.
ProfitAt(pos, bar) ==
  SumOf([leg \in Legs |-> pos.qty[leg] * Signed(leg, pos.entry[leg], bar.close[leg])])
MarginTotal == MarginPerLeg * Cardinality(Legs)
StopBreached(pos, bar) == 100 * ProfitAt(pos, bar) <= -StopPct * MarginTotal
TakeReached(pos, bar) == 100 * ProfitAt(pos, bar) >= TakePct * MarginTotal

\* basket_mtm: profit at the close less the entry side's costs.
MarkToMarket(pos, bar) ==
  10000 * ProfitAt(pos, bar)
    - SumOf([leg \in Legs |-> pos.qty[leg] * pos.entry[leg] * (FeeBps + SlippageBps)])

Flagged(pos, bar, features, index) ==
  [pos EXCEPT
     !.pending_stop = StopBreached(pos, bar),
     !.pending_take = TakeReached(pos, bar),
     !.pending_signal_exit = Hit(SignalExit, features, index)]

Eligible(index, exited) == exited = 0 \/ index - exited >= CooldownBars

----------------------------------------------------------------------------
Init ==
  /\ grid = <<>> /\ aligned = <<>>
  /\ pending_entry = 0 /\ position = <<>> /\ last_exit_index = 0
  /\ trades = <<>> /\ diagnostics = <<>> /\ skipped_bars = 0
  /\ mtm_points = <<>> /\ status = "running" /\ signals = <<>>

Here == Len(grid)    \* open time of the bar that comes next
Warmup == Here < WarmupBars

\* Mutation: the pending entry waits for the next aligned bar.
DroppedByGap == FALSE

EntryDropped == pending_entry # 0

\* A bar some leg lacks: a pending entry is dropped, a basket carries over.
SkipFrame ==
  /\ status = "running" /\ Here < GridBars
  /\ grid' = Append(grid, None)
  /\ skipped_bars' = IF Warmup THEN skipped_bars ELSE skipped_bars + 1
  /\ IF EntryDropped
     THEN /\ diagnostics' = Append(diagnostics, [bar |-> aligned[pending_entry], kind |-> "no_next_bar"])
          /\ pending_entry' = 0
     ELSE UNCHANGED <<diagnostics, pending_entry>>
  /\ UNCHANGED <<aligned, position, last_exit_index, trades, mtm_points, status, signals>>

WarmupFrame(bar) ==
  /\ status = "running" /\ Here < GridBars
  /\ Warmup
  /\ grid' = Append(grid, bar)
  /\ aligned' = Append(aligned, Here + 1)
  /\ UNCHANGED <<pending_entry, position, last_exit_index, trades, diagnostics, skipped_bars,
                 mtm_points, status, signals>>

\* The basket after the fill of a pending entry and the count of a held bar.
Entered(bar) ==
  IF pending_entry # 0 THEN Opened(bar, Here)
  ELSE IF position # <<>> THEN << [position[1] EXCEPT !.bars_held = @ + 1] >>
  ELSE <<>>

Refused(entered, bar) == pending_entry # 0 /\ entered = <<>>

AlignedFrame(bar) ==
  LET index == Len(aligned) + 1
      features == Features(grid', aligned')
      entered == Entered(bar)
      leaves == entered # <<>> /\ DueExits(entered[1]) # {}
      stays == entered # <<>> /\ ~leaves
  IN /\ status = "running" /\ Here < GridBars
     /\ ~Warmup
     /\ grid' = Append(grid, bar)
     /\ aligned' = Append(aligned, Here + 1)
     /\ diagnostics' = IF Refused(entered, bar)
                       THEN Append(diagnostics, [bar |-> Here + 1, kind |-> "leg_min_order"])
                       ELSE diagnostics
     /\ trades' = IF leaves
                  THEN Append(trades, Closed(entered[1], FirstDue(entered[1]), bar, Here))
                  ELSE trades
     /\ last_exit_index' = IF leaves THEN index ELSE last_exit_index
     /\ position' = IF stays THEN << Flagged(entered[1], bar, features, index) >> ELSE <<>>
     /\ mtm_points' = IF stays
                      THEN Append(mtm_points, [ts |-> Here + 1, realized_count |-> Len(trades),
                                               unrealized |-> MarkToMarket(entered[1], bar)])
                      ELSE mtm_points
     /\ LET signal == /\ ~stays
                      /\ Eligible(index, last_exit_index')
                      /\ Hit(EntryCondition, features, index)
        IN /\ pending_entry' = IF signal THEN index ELSE 0
           /\ signals' = IF signal THEN Append(signals, index) ELSE signals
     /\ UNCHANGED <<skipped_bars, status>>

\* The end of the grid: a pending entry has no next bar, a basket is closed
\* at the last aligned close.
Finish ==
  /\ status = "running" /\ Here > 0
  /\ status' = "done"
  /\ diagnostics' = IF pending_entry # 0
                    THEN Append(diagnostics, [bar |-> aligned[pending_entry], kind |-> "no_next_bar"])
                    ELSE diagnostics
  /\ pending_entry' = 0
  /\ IF position # <<>>
     THEN LET last == aligned[Len(aligned)]
          IN /\ trades' = Append(trades, Closed(position[1], "end_of_data", grid[last], last - 1))
             /\ last_exit_index' = Len(aligned)
     ELSE UNCHANGED <<trades, last_exit_index>>
  /\ position' = <<>>
  /\ UNCHANGED <<grid, aligned, skipped_bars, mtm_points, signals>>

Next ==
  \/ \E bar \in Shapes : WarmupFrame(bar) \/ AlignedFrame(bar)
  \/ SkipFrame
  \/ Finish

Spec == Init /\ [][Next]_vars

----------------------------------------------------------------------------
Basket ==
  [qty : [Legs -> Nat], entry : [Legs -> Nat \ {0}], opened_at : Nat, bars_held : Nat \ {0},
   pending_stop : BOOLEAN, pending_take : BOOLEAN, pending_signal_exit : BOOLEAN]

\* Types; a basket and a pending entry exclude each other, and the aligned bars
\* are those every leg has.
TypeOK ==
  /\ grid \in Seq(Shapes \cup {None})
  /\ aligned \in Seq(Nat \ {0}) /\ {aligned[i] : i \in DOMAIN aligned} = {k \in DOMAIN grid : grid[k] # None}
  /\ pending_entry \in 0..Len(aligned) /\ last_exit_index \in 0..Len(aligned)
  /\ position \in Seq(Basket) /\ Len(position) + (IF pending_entry # 0 THEN 1 ELSE 0) <= 1
  /\ skipped_bars = Cardinality({k \in WarmupBars + 1..Len(grid) : grid[k] = None})
  /\ status \in {"running", "done"}

Baskets == {position[i] : i \in DOMAIN position} \cup {trades[i] : i \in DOMAIN trades}
HeldUntil(basket, last) == {k \in basket.opened_at + 1..last : grid[k] # None}
Latest(S) == {k \in S : \A j \in S : j <= k}

\* Every basket was filled at the opens of one bar that every leg has, right
\* after - on the calendar, not just among the aligned bars - a bar of the
\* window whose condition could be read and was met.
FillsFollowSignals ==
  \A b \in Baskets :
    LET bar == b.opened_at + 1
    IN /\ bar - 1 > WarmupBars
       /\ grid[bar] # None /\ b.entry = grid[bar].open
       /\ grid[bar - 1] # None /\ grid[bar - 1].feature # None
       /\ \E i \in DOMAIN signals : aligned[signals[i]] = bar - 1

\* Stops and targets of the basket are cashed at the first bar after the close
\* that reached them: a basket still held saw none before its last bar, one
\* that was left had none before the bar it was decided on, and left as a stop
\* exactly when that bar's close says so and the stop comes first.
LeftAtTheFirstBreach ==
  /\ \A i \in DOMAIN position :
       LET held == HeldUntil(position[i], Len(grid))
       IN /\ \A k \in held \ Latest(held) :
               ~StopBreached(position[i], grid[k]) /\ ~TakeReached(position[i], grid[k])
          /\ TimeExitBars > 0 => Cardinality(held) < TimeExitBars
  /\ \A i \in DOMAIN trades :
       LET t == trades[i]
           exit == IF t.exit_kind = "time_exit" THEN t.closed_at ELSE t.closed_at + 1
           held == HeldUntil(t, exit - 1)
       IN t.exit_kind # "end_of_data" =>
            /\ grid[exit] # None
            /\ \A k \in held \ Latest(held) :
                 ~StopBreached(t, grid[k]) /\ ~TakeReached(t, grid[k])
            /\ \A k \in Latest(held) :
                 /\ t.exit_kind = "stop_loss" => StopBreached(t, grid[k])
                 /\ t.exit_kind = "take_profit" => TakeReached(t, grid[k])
                 /\ StopBreached(t, grid[k]) /\ Priority[1] = "stop_loss" => t.exit_kind = "stop_loss"

\* No leg weighs more than what the leg that comes out worst at rounding can
\* buy of its budget, and each comes to within one of its own steps of that:
\* no leg is the heavier one because its steps are the finer.
LegsBalanced ==
  \A b \in Baskets :
    LET notional(leg) == b.qty[leg] * b.entry[leg]
        step(leg) == QtyStep[leg] * b.entry[leg]
        budget == MarginPerLeg * Leverage
        affords(leg) == budget - (budget % step(leg))
    IN \A y \in Legs :
         /\ 0 < notional(y) /\ \A z \in Legs : notional(y) <= affords(z)
         /\ \E z \in Legs : affords(z) < notional(y) + step(y)

\* Every signal became a basket, a diagnostic, or is still pending.
SignalsAccounted ==
  /\ TypeOK
  /\ Len(signals) = Len(trades) + Len(position) + Len(diagnostics)
                   + (IF pending_entry # 0 THEN 1 ELSE 0)

\* The cooldown is served in bars that every leg has: bars the basket could
\* not have traded on do not shorten it.
CooldownServed ==
  \A i \in DOMAIN trades : \A j \in DOMAIN signals :
    LET t == trades[i]
        exit == CHOOSE e \in DOMAIN aligned :
                  aligned[e] = IF t.exit_kind \in {"time_exit", "end_of_data"}
                               THEN t.closed_at ELSE t.closed_at + 1
    IN aligned[signals[j]] > t.opened_at => signals[j] - exit >= CooldownBars

\* In a finished run every mark of the equity curve lies within the trade that
\* follows the trades counted in it, so that the curve ends at a trade.
MarksBelongToTrades ==
  status = "done" =>
    \A i \in DOMAIN mtm_points :
      LET m == mtm_points[i]
      IN /\ m.realized_count + 1 \in DOMAIN trades
         /\ trades[m.realized_count + 1].opened_at < m.ts
         /\ m.ts <= trades[m.realized_count + 1].closed_at

\* The promises of a pair together: a basket fills at the very next bar of all legs, no signal
\* is lost, the cooldown counts aligned bars, the legs weigh the same and leave together at the
\* first bar after a breach, and every mark lies in its trade.
BasketsKeepTheirRules ==
  /\ FillsFollowSignals /\ SignalsAccounted /\ CooldownServed
  /\ LeftAtTheFirstBreach /\ LegsBalanced /\ MarksBelongToTrades
=============================================================================
