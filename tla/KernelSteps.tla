---------------------------- MODULE KernelSteps ----------------------------
(***************************************************************************)
(* The single-position strategy kernel of backtesting-py/strategy_kernel.py*)
(* as pure steps over one KernelState record.  Historical replay           *)
(* (StrategyKernel) and the hourly paper run (PaperTick) are built from    *)
(* the same Evaluate, as simulate() and paper_tick() are in the code.      *)
(*                                                                         *)
(* Units.  Prices are whole price ticks.  Decimals below one tick (percent *)
(* stops, feature prices) are in hundredths of a tick and go through       *)
(* Quantize.  Money is in 1/10000 of a quote unit, so that a bps charge on *)
(* an integer notional is exact, as it is in the code's decimal128.  Bar   *)
(* k opens at time k and closes at k + 1.  Frame indexes are 1-based.      *)
(***************************************************************************)
EXTENDS Integers, Sequences

CONSTANTS
  Side,             \* entry.side: "long" or "short"
  StopRule,         \* exit.stop_loss: [model, value]; model "none" is null
  TakeRule,         \* exit.take_profit: [model, value]
  TimeExitBars,     \* exit.time_exit_bars, 0 when null
  EntryCondition,   \* entry.condition: [node, op, threshold]
  SignalExit,       \* exit.signal_exit: the same, node "none" when null
  CooldownBars,     \* entry.cooldown_bars
  Priority,         \* execution.intrabar_priority
  Sizing,           \* risk.position_sizing: [model, value, basis]
  Leverage,         \* risk.leverage
  FeeBps,           \* cost_model.fee_bps
  SlippageBps,      \* cost_model.slippage_bps
  QtyStep, MinQty, MinNotional,        \* instrument_rules
  InitialCapital,                      \* whole quote units
  ExecutionStart, ExecutionEnd,        \* execution window [start, end)
  None

Bps == 10000
Sub == 100

ExitKinds == {"stop_loss", "take_profit", "time_exit", "signal_exit"}
Conditions ==
  [node : {"none", "compare", "cross"}, op : {"above", "below"}, threshold : Int]

\* What strategy validation lets through (strategy_kernel.py 1070-1275).
ASSUME SpecAssumption ==
  /\ Side \in {"long", "short"}
  /\ StopRule \in [model : {"none", "fixed_percent", "feature_expression"}, value : Nat]
  /\ TakeRule \in [model : {"none", "fixed_percent", "r_multiple", "feature_expression"},
                   value : Nat]
  /\ TakeRule.model = "r_multiple" => StopRule.model # "none"
  /\ TimeExitBars \in Nat
  /\ EntryCondition \in Conditions /\ EntryCondition.node # "none"
  /\ SignalExit \in Conditions
  /\ CooldownBars \in Nat
  /\ Priority \in [1..4 -> ExitKinds]
  /\ \A k \in ExitKinds : \E i \in 1..4 : Priority[i] = k
  /\ Sizing \in [model : {"fixed_notional", "fixed_margin", "equity_fraction", "risk_fraction"},
                 value : Nat \ {0}, basis : {"equity", "initial"}]
  /\ Sizing.model = "risk_fraction" => StopRule.model # "none"

\* Trusted instrument rules, capital and window (initial_state).
ASSUME RunAssumption ==
  /\ Leverage \in Nat \ {0}
  /\ FeeBps \in Nat /\ SlippageBps \in Nat
  /\ QtyStep \in Nat \ {0} /\ MinQty \in Nat \ {0} /\ MinNotional \in Nat \ {0}
  /\ InitialCapital \in Nat \ {0}
  /\ ExecutionStart \in Nat /\ ExecutionEnd \in Nat /\ ExecutionStart < ExecutionEnd
  /\ None \notin Int

----------------------------------------------------------------------------
Frame ==
  [open_at : Nat, open : Nat \ {0}, high : Nat \ {0}, low : Nat \ {0},
   close : Nat \ {0}, feature : Int]

CloseAt(frame) == frame.open_at + 1

Pending ==
  [signal_index : Nat \ {0}, stop_value : Int \cup {None}, take_value : Int \cup {None}]

Position ==
  [qty : Int, entry_price : Int, opened_at : Nat, stop_loss : Int \cup {None},
   take_profit : Int \cup {None}, bars_held : Nat \ {0}, pending_signal_exit : BOOLEAN]

InitialState ==
  [equity |-> InitialCapital * Bps, frames |-> <<>>, pending_entry |-> <<>>,
   position |-> <<>>, last_exit_index |-> 0, trade_seq |-> 0, trades |-> <<>>,
   decisions |-> <<>>, diagnostics |-> <<>>]

\* pending_entry and position are Optional: a sequence of at most one element.
IsSome(opt) == opt # <<>>
The(opt) == opt[1]

----------------------------------------------------------------------------
\* _value / _condition: a feature against a threshold, or its crossing.
Holds(cond, frames, index) ==
  LET now == frames[index].feature
      before == frames[index - 1].feature
      t == cond.threshold
  IN \/ /\ cond.node = "compare"
        /\ IF cond.op = "above" THEN now > t ELSE now < t
     \/ /\ cond.node = "cross" /\ index > 1
        /\ IF cond.op = "above" THEN before <= t /\ now > t ELSE before >= t /\ now < t

\* The decimal a feature_expression stop or take reads on the signal frame.
StopValue(frame) ==
  IF StopRule.model # "feature_expression" THEN None
  ELSE IF Side = "long" THEN Sub * frame.low - StopRule.value
                        ELSE Sub * frame.high + StopRule.value
TakeValue(frame) ==
  IF TakeRule.model # "feature_expression" THEN None
  ELSE IF Side = "long" THEN Sub * frame.high + TakeRule.value
                        ELSE Sub * frame.low - TakeRule.value

\* Hundredths of a tick to whole ticks, rounded in the given direction.
Quantize(value, direction) ==
  IF direction = "down" THEN value \div Sub ELSE -((-value) \div Sub)

Abs(n) == IF n < 0 THEN -n ELSE n

StopLoss(pending, price) ==
  CASE StopRule.model = "none" -> None
    [] StopRule.model = "fixed_percent" ->
         IF Side = "long" THEN Quantize(price * (Sub - StopRule.value), "down")
                          ELSE Quantize(price * (Sub + StopRule.value), "up")
    [] OTHER -> Quantize(pending.stop_value, IF Side = "long" THEN "down" ELSE "up")

TakeProfit(pending, price, stop) ==
  LET away == IF Side = "long" THEN "up" ELSE "down"
      sign == IF Side = "long" THEN 1 ELSE -1
  IN CASE TakeRule.model = "none" -> None
       [] TakeRule.model = "fixed_percent" ->
            Quantize(price * (Sub + sign * TakeRule.value), away)
       [] TakeRule.model = "r_multiple" ->
            Quantize(Sub * price + sign * TakeRule.value * Abs(price - stop), away)
       [] OTHER -> Quantize(pending.take_value, away)

\* A stop or take on the wrong side of the entry (or 1R of zero) refuses it.
WrongSide(price, stop, take) ==
  \/ stop # None /\ IF Side = "long" THEN stop >= price ELSE stop <= price
  \/ take # None /\ IF Side = "long" THEN take <= price ELSE take >= price

----------------------------------------------------------------------------
\* Position sizing: whole quantity steps, never more than the raw quantity.
FloorToStep(numerator, denominator) ==
  (numerator \div (denominator * QtyStep)) * QtyStep

Quantity(equity, price, stop) ==
  LET basis == IF Sizing.basis = "initial" THEN InitialCapital * Bps ELSE equity
  IN CASE Sizing.model = "fixed_notional" -> FloorToStep(Sizing.value, price)
       [] Sizing.model = "fixed_margin" -> FloorToStep(Sizing.value * Leverage, price)
       [] Sizing.model = "equity_fraction" ->
            FloorToStep(equity * Leverage * Sizing.value, 100 * price * (Bps + FeeBps))
       [] OTHER -> FloorToStep(basis * Sizing.value, 100 * Bps * Abs(price - stop))

\* risk_quantity and entry_margin_after_fees raise SizingRejected.
SizingRejected(equity, price, stop, qty) ==
  /\ Sizing.model = "risk_fraction"
  /\ \/ qty < QtyStep
     \/ qty * price * (Bps + Leverage * (FeeBps + SlippageBps)) > equity * Leverage

\* Mutation: the margin is checked against the capital the run started with.
LimitOnInitialCapital(equity, price, qty) ==
  \/ qty < MinQty
  \/ qty * price < MinNotional
  \/ qty * price > InitialCapital * Leverage

InstrumentOrMarginLimit(equity, price, qty) ==
  \/ qty < MinQty
  \/ qty * price < MinNotional
  \/ qty * price * Bps > equity * Leverage

OrderRejected(equity, price, stop, take) ==
  LET qty == Quantity(equity, price, stop)
  IN \/ WrongSide(price, stop, take)
     \/ Sizing.model = "risk_fraction" /\ stop <= 0
     \/ SizingRejected(equity, price, stop, qty)
     \/ InstrumentOrMarginLimit(equity, price, qty)

\* Mutation: the slot is filled but the order stays pending.
OpenPendingKept(st, frame, index) ==
  LET stop == StopLoss(The(st.pending_entry), frame.open)
      take == TakeProfit(The(st.pending_entry), frame.open, stop)
  IN IF ~IsSome(st.pending_entry) \/ OrderRejected(st.equity, frame.open, stop, take) THEN st
     ELSE [st EXCEPT
             !.position = << [qty |-> Quantity(st.equity, frame.open, stop),
                              entry_price |-> frame.open, opened_at |-> frame.open_at,
                              stop_loss |-> stop, take_profit |-> take, bars_held |-> 1,
                              pending_signal_exit |-> FALSE] >>,
             !.decisions = Append(@, [frame_index |-> index, kind |-> "entry_filled"])]

\* _open_pending: fill the pending entry at this bar's open, or drop it.
OpenPending(st, frame, index) ==
  LET pending == The(st.pending_entry)
      price == frame.open
      stop == StopLoss(pending, price)
      take == TakeProfit(pending, price, stop)
  IN IF ~IsSome(st.pending_entry) THEN st
     ELSE IF OrderRejected(st.equity, price, stop, take)
     THEN [st EXCEPT
             !.pending_entry = <<>>,
             !.diagnostics = Append(@, [frame_index |-> index, kind |-> "order_rejected"])]
     ELSE [st EXCEPT
             !.pending_entry = <<>>,
             !.position = << [qty |-> Quantity(st.equity, price, stop), entry_price |-> price,
                              opened_at |-> frame.open_at, stop_loss |-> stop,
                              take_profit |-> take, bars_held |-> 1,
                              pending_signal_exit |-> FALSE] >>,
             !.decisions = Append(@, [frame_index |-> index, kind |-> "entry_filled"])]

----------------------------------------------------------------------------
\* _exit_candidates: which exits the bar makes due, and at which price.
StopGapped(pos, frame) ==
  pos.stop_loss # None /\
    IF Side = "long" THEN frame.open <= pos.stop_loss ELSE frame.open >= pos.stop_loss
StopTouched(pos, frame) ==
  pos.stop_loss # None /\
    IF Side = "long" THEN frame.low <= pos.stop_loss ELSE frame.high >= pos.stop_loss
TakeGapped(pos, frame) ==
  pos.take_profit # None /\
    IF Side = "long" THEN frame.open >= pos.take_profit ELSE frame.open <= pos.take_profit
TakeTouched(pos, frame) ==
  pos.take_profit # None /\
    IF Side = "long" THEN frame.high >= pos.take_profit ELSE frame.low <= pos.take_profit

ExitDue(kind, pos, frame) ==
  CASE kind = "stop_loss"   -> StopGapped(pos, frame) \/ StopTouched(pos, frame)
    [] kind = "take_profit" -> TakeGapped(pos, frame) \/ TakeTouched(pos, frame)
    [] kind = "signal_exit" -> pos.pending_signal_exit
    [] OTHER                -> TimeExitBars > 0 /\ pos.bars_held >= TimeExitBars

ExitPrice(kind, pos, frame) ==
  CASE kind = "stop_loss"   -> IF StopGapped(pos, frame) THEN frame.open ELSE pos.stop_loss
    [] kind = "take_profit" -> IF TakeGapped(pos, frame) THEN frame.open ELSE pos.take_profit
    [] kind = "signal_exit" -> frame.open
    [] OTHER                -> frame.close

\* _close: settle the trade, both fee sides included, and free the slot.
NetPnl(pos, exit_price) ==
  LET delta == IF Side = "long" THEN exit_price - pos.entry_price
                                ELSE pos.entry_price - exit_price
  IN delta * pos.qty * Bps - (pos.entry_price + exit_price) * pos.qty * (FeeBps + SlippageBps)

\* Mutation: the trade records the balance from before its own pnl.
CloseStaleBalance(st, frame, index, kind, price) ==
  LET pos == The(st.position)
  IN [st EXCEPT
        !.equity = @ + NetPnl(pos, price),
        !.trade_seq = @ + 1,
        !.trades = Append(@, [seq |-> st.trade_seq + 1, opened_at |-> pos.opened_at,
                              closed_at |-> frame.open_at, entry_price |-> pos.entry_price,
                              exit_price |-> price, exit_kind |-> kind,
                              pnl |-> NetPnl(pos, price), equity_after |-> st.equity,
                              stop_loss |-> pos.stop_loss, take_profit |-> pos.take_profit]),
        !.decisions = Append(@, [frame_index |-> index, kind |-> "exit_filled"]),
        !.position = <<>>,
        !.last_exit_index = index]

Close(st, frame, index, kind, price) ==
  LET pos == The(st.position)
      pnl == NetPnl(pos, price)
      at == IF kind \in {"time_exit", "end_of_data"} THEN CloseAt(frame) ELSE frame.open_at
  IN [st EXCEPT
        !.equity = @ + pnl,
        !.trade_seq = @ + 1,
        !.trades = Append(@, [seq |-> st.trade_seq + 1, opened_at |-> pos.opened_at,
                              closed_at |-> at, entry_price |-> pos.entry_price,
                              exit_price |-> price, exit_kind |-> kind, pnl |-> pnl,
                              equity_after |-> st.equity + pnl,
                              stop_loss |-> pos.stop_loss, take_profit |-> pos.take_profit]),
        !.decisions = Append(@, [frame_index |-> index, kind |-> "exit_filled"]),
        !.position = <<>>,
        !.last_exit_index = index]

----------------------------------------------------------------------------
\* The stages of StrategyKernel.evaluate, in the order of the method.
Admissible(st, frame) ==
  /\ CloseAt(frame) <= ExecutionEnd
  /\ st.frames # <<>> => st.frames[Len(st.frames)].open_at < frame.open_at
  /\ frame.low <= frame.open /\ frame.low <= frame.close
  /\ frame.open <= frame.high /\ frame.close <= frame.high

CountHeldBar(st, held) ==
  IF held /\ IsSome(st.position)
  THEN [st EXCEPT !.position = << [The(st.position) EXCEPT !.bars_held = @ + 1] >>]
  ELSE st

\* Mutation: exits are not looked for on the entry bar.
TakeExitAfterEntryBar(st, frame, index) ==
  LET pos == The(st.position)
      due == {i \in 1..4 : ExitDue(Priority[i], pos, frame)}
      first == CHOOSE i \in due : \A j \in due : i <= j
  IN IF IsSome(st.position) /\ pos.bars_held > 1 /\ due # {}
     THEN Close(st, frame, index, Priority[first], ExitPrice(Priority[first], pos, frame))
     ELSE st

TakeExit(st, frame, index) ==
  LET pos == The(st.position)
      due == {i \in 1..4 : ExitDue(Priority[i], pos, frame)}
      first == CHOOSE i \in due : \A j \in due : i <= j
  IN IF IsSome(st.position) /\ due # {}
     THEN Close(st, frame, index, Priority[first], ExitPrice(Priority[first], pos, frame))
     ELSE st

FlagSignalExit(st, index) ==
  IF IsSome(st.position)
  THEN [st EXCEPT
          !.position = << [The(st.position) EXCEPT !.pending_signal_exit = Holds(SignalExit, st.frames, index)] >>]
  ELSE st

Eligible(st, index) ==
  st.last_exit_index = 0 \/ index - st.last_exit_index >= CooldownBars

SignalEntry(st, frame, index) ==
  IF /\ ~IsSome(st.position) /\ ~IsSome(st.pending_entry)
     /\ Eligible(st, index)
     /\ Holds(EntryCondition, st.frames, index)
  THEN [st EXCEPT
          !.pending_entry = << [signal_index |-> index, stop_value |-> StopValue(frame),
                                take_value |-> TakeValue(frame)] >>,
          !.decisions = Append(@, [frame_index |-> index, kind |-> "entry_pending"])]
  ELSE st

Arrive(st, frame) == [st EXCEPT !.frames = Append(@, frame)]

\* Mutation: the signal is taken first and filled on its own bar.
EvaluateSameBar(st, frame) ==
  LET index == Len(st.frames) + 1
      arrived == Arrive(st, frame)
      opened == OpenPending(SignalEntry(arrived, frame, index), frame, index)
      exited == TakeExit(CountHeldBar(opened, IsSome(st.position)), frame, index)
  IN IF frame.open_at < ExecutionStart THEN arrived ELSE FlagSignalExit(exited, index)

Evaluate(st, frame) ==
  LET index == Len(st.frames) + 1
      arrived == Arrive(st, frame)
      opened == OpenPending(arrived, frame, index)
      counted == CountHeldBar(opened, IsSome(st.position))
      exited == TakeExit(counted, frame, index)
      flagged == FlagSignalExit(exited, index)
  IN IF frame.open_at < ExecutionStart THEN arrived
     ELSE SignalEntry(flagged, frame, index)

\* Mutation: the pending order of the last bar disappears without a trace.
FinalizeForgetsOrder(st) ==
  LET index == Len(st.frames)
  IN IF IsSome(st.position)
     THEN Close(st, st.frames[index], index, "end_of_data", st.frames[index].close)
     ELSE [st EXCEPT !.pending_entry = <<>>]

\* finalize: a pending order has no next bar; a position closes at the last close.
Finalize(st) ==
  LET index == Len(st.frames)
      dropped == IF IsSome(st.pending_entry)
                 THEN [st EXCEPT
                         !.diagnostics = Append(@, [frame_index |-> index, kind |-> "no_next_bar"]),
                         !.pending_entry = <<>>]
                 ELSE st
  IN IF IsSome(dropped.position)
     THEN Close(dropped, st.frames[index], index, "end_of_data", st.frames[index].close)
     ELSE dropped

----------------------------------------------------------------------------
\* The state between two frames, and the records of its logs.
Trade ==
  [seq : Nat \ {0}, opened_at : Nat, closed_at : Nat, entry_price : Int, exit_price : Int,
   exit_kind : ExitKinds \cup {"end_of_data"}, pnl : Int, equity_after : Int,
   stop_loss : Int \cup {None}, take_profit : Int \cup {None}]

Decision == [frame_index : Nat, kind : {"entry_pending", "entry_filled", "exit_filled"}]
Diagnostic == [frame_index : Nat, kind : {"order_rejected", "no_next_bar"}]

KernelState ==
  [equity : Int, frames : Seq(Frame), pending_entry : Seq(Pending), position : Seq(Position),
   last_exit_index : Nat, trade_seq : Nat, trades : Seq(Trade), decisions : Seq(Decision),
   diagnostics : Seq(Diagnostic)]
=============================================================================
