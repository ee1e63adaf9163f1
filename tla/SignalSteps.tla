---------------------------- MODULE SignalSteps ----------------------------
(***************************************************************************)
(* One limit signal and its author's risk account, as pure steps:          *)
(*   - the candle detector (signal_lifecycle_kernel.py), reached through   *)
(*     advance_limit_signal (strategy_signal_replay.py);                   *)
(*   - the trailing and breakeven ratchet (strategy_dynamic_stop.py);      *)
(*   - the settlement of a completed trade (strategy_risk_accounting.py).  *)
(*                                                                         *)
(* Prices are integers.  A 5-minute candle is two clock units long: candle *)
(* i opens at 2i and closes at 2i + 1, and an intent may come at either.   *)
(* Equity is a fraction of the initial equity; equity and peak are kept    *)
(* over one common denominator, Scale to the power of the trades settled.  *)
(***************************************************************************)
EXTENDS Integers, Sequences, FiniteSets

CONSTANTS
  Side,                               \* direction of the strategy
  EntryPrice, InitialStop, Target,    \* a signal's entry, stop and single target
  Lifetime,                           \* expires_at - created_at; 0: no expiry
  TrailingPct,                        \* StopRules.trailing_pct; 0: none
  Breakeven,                          \* StopRules.breakeven
  PriceTick,                          \* StopRules.price_tick
  Leverage,
  CostNum, CostDen,                   \* fee plus slippage rate of one side
  None

ASSUME SignalAssumption ==
  /\ Side \in {"long", "short"}
  /\ EntryPrice \in Nat \ {0} /\ InitialStop \in Nat \ {0} /\ Target \in Nat \ {0}
  /\ IF Side = "long" THEN InitialStop < EntryPrice /\ EntryPrice < Target
                      ELSE Target < EntryPrice /\ EntryPrice < InitialStop
  /\ Lifetime \in Nat /\ TrailingPct \in 0..99 /\ Breakeven \in BOOLEAN
  /\ PriceTick \in Nat \ {0} /\ Leverage \in Nat \ {0}
  \* align_initial_prices puts the three prices on the tick before the signal exists
  /\ \A price \in {EntryPrice, InitialStop, Target} : price % PriceTick = 0
  /\ CostNum \in Nat /\ CostDen \in Nat \ {0}
  /\ None \notin Int

Candle == [open_time : Nat, high : Nat \ {0}, low : Nat \ {0}, close : Nat \ {0}]
CloseTime(candle) == candle.open_time + 1

Signal ==
  [created_at : Nat, status : {"published", "active", "closed"},
   lifecycle_status : {"awaiting_entry", "entered", "tp_full", "stopped_out",
                       "expired_unfilled", "strategy_exited"},
   entry_hit_at : Int \cup {None}, stop_loss : Int,
   closed_at : Int \cup {None}, close_price : Int \cup {None}]

NewSignal(at) ==
  [created_at |-> at, status |-> "published", lifecycle_status |-> "awaiting_entry",
   entry_hit_at |-> None, stop_loss |-> InitialStop, closed_at |-> None, close_price |-> None]

----------------------------------------------------------------------------
Adverse(candle, level) ==
  IF Side = "long" THEN candle.low <= level ELSE candle.high >= level
Favourable(candle, level) ==
  IF Side = "long" THEN candle.high >= level ELSE candle.low <= level

Entered(sig, candle) ==
  [sig EXCEPT !.status = "active", !.lifecycle_status = "entered",
              !.entry_hit_at = CloseTime(candle)]

Closed(sig, why, at, price) ==
  [sig EXCEPT !.status = "closed", !.lifecycle_status = why, !.closed_at = at,
              !.close_price = price]

Expired(sig, candle) ==
  Lifetime > 0 /\ sig.status = "published" /\ sig.created_at + Lifetime <= CloseTime(candle)

OpenedAfter(sig, candle) == candle.open_time >= sig.created_at

\* detect_candle_events on one closed candle, with the same-candle rulings: stop
\* before a viable entry and target before entry expire the signal unfilled; the
\* target wins over the stop.
Advance(sig, candle) ==
  LET tp == Favourable(candle, Target)
      sl == Adverse(candle, sig.stop_loss)
      entry == Adverse(candle, EntryPrice)
      at == CloseTime(candle)
  IN CASE sig.status = "closed" -> sig
       [] Expired(sig, candle) ->
            Closed(sig, "expired_unfilled", sig.created_at + Lifetime, None)
       [] ~Expired(sig, candle) /\ ~OpenedAfter(sig, candle) -> sig
       [] ~Expired(sig, candle) /\ OpenedAfter(sig, candle) /\ sig.status = "published" ->
            CASE entry /\ tp         -> Closed(Entered(sig, candle), "tp_full", at, Target)
              [] entry /\ ~tp /\ sl  -> Closed(sig, "expired_unfilled", at, sig.stop_loss)
              [] entry /\ ~tp /\ ~sl -> Entered(sig, candle)
              [] ~entry /\ tp        -> Closed(sig, "expired_unfilled", at, Target)
              [] OTHER               -> sig
       [] sig.status = "active" /\ tp        -> Closed(sig, "tp_full", at, Target)
       [] sig.status = "active" /\ ~tp /\ sl -> Closed(sig, "stopped_out", at, sig.stop_loss)
       [] OTHER -> sig

----------------------------------------------------------------------------
\* StopState of an entered signal, and the closed strategy bar that moves it.
Bar == [open_at : Nat, close_at : Nat, high : Nat \ {0}, low : Nat \ {0}, close : Nat \ {0}]
StopState ==
  [entry_at : Int, effective_stop : Int, extreme : Int, breakeven_active : BOOLEAN,
   last_bar_close : Int \cup {None}]

InitialStopState(sig) ==
  [entry_at |-> sig.entry_hit_at, effective_stop |-> sig.stop_loss, extreme |-> EntryPrice,
   breakeven_active |-> FALSE, last_bar_close |-> None]

Tighten(a, b) == IF Side = "long" THEN IF a >= b THEN a ELSE b
                                  ELSE IF a <= b THEN a ELSE b

\* n / d rounded to whole price ticks: up for a long, down for a short.
RoundToTick(n, d) ==
  IF Side = "long" THEN -((-n) \div (d * PriceTick)) * PriceTick
                   ELSE (n \div (d * PriceTick)) * PriceTick

\* The trailing level of an extreme, in hundredths; no trailing rule, no level.
Trail(extreme) ==
  IF Side = "long" THEN extreme * (100 - TrailingPct) ELSE extreme * (100 + TrailingPct)

\* The better end of a bar.
Extreme(bar) == IF Side = "long" THEN bar.high ELSE bar.low

ReachedOneR(close) ==
  IF Side = "long" THEN close >= 2 * EntryPrice - InitialStop
                   ELSE close <= 2 * EntryPrice - InitialStop

\* Mutation: the new level is not held against the stop in force.
MovedStopLoose(state, bar) ==
  [state EXCEPT !.effective_stop = RoundToTick(Trail(Extreme(bar)), 100),
                !.extreme = Tighten(state.extreme, Extreme(bar)), !.last_bar_close = bar.close_at]

\* Where one bar moves the stop: trailing from the extreme, breakeven once the
\* bar closes 1R in favour, and never looser than it was.
MovedStop(state, bar) ==
  LET extreme == Tighten(state.extreme, Extreme(bar))
      active == state.breakeven_active \/ (Breakeven /\ ReachedOneR(bar.close))
      trailed == IF TrailingPct = 0 THEN 100 * state.effective_stop
                 ELSE Tighten(100 * state.effective_stop, Trail(extreme))
      candidate == IF active THEN Tighten(trailed, 100 * EntryPrice) ELSE trailed
      stop == IF candidate = 100 * state.effective_stop THEN state.effective_stop
              ELSE Tighten(state.effective_stop, RoundToTick(candidate, 100))
  IN [state EXCEPT !.effective_stop = stop, !.extreme = extreme,
                   !.breakeven_active = active, !.last_bar_close = bar.close_at]

\* advance_stop: entry bars and bars already seen are no-ops.
AdvanceStop(state, bar) ==
  LET seen == state.last_bar_close # None /\ bar.close_at <= state.last_bar_close
  IN IF bar.open_at <= state.entry_at \/ seen THEN state
     ELSE MovedStop(state, bar)

----------------------------------------------------------------------------
\* net_return of a trade on its initial margin, over Scale.
Scale == EntryPrice * CostDen
NetReturn(price, funding) ==
  LET move == IF Side = "long" THEN price - EntryPrice ELSE EntryPrice - price
  IN Leverage * (move * CostDen - (EntryPrice + price) * CostNum - funding * CostDen)

RiskState ==
  [equity : Nat, peak_equity : Nat \ {0}, consecutive_losses : Nat, entries_paused : BOOLEAN]

InitialRisk ==
  [equity |-> 1, peak_equity |-> 1, consecutive_losses |-> 0, entries_paused |-> FALSE]

Larger(a, b) == IF a >= b THEN a ELSE b

\* settle_risk: the pause is for good.
SettleRisk(risk, ret) ==
  LET equity == Larger(0, risk.equity * (Scale + ret))
      peak == Larger(risk.peak_equity * Scale, equity)
      losses == CASE ret < 0 -> risk.consecutive_losses + 1
                  [] ret > 0 -> 0
                  [] OTHER   -> risk.consecutive_losses
  IN [equity |-> equity, peak_equity |-> peak, consecutive_losses |-> losses,
      entries_paused |-> risk.entries_paused \/ 5 * (peak - equity) >= peak \/ losses >= 5]
=============================================================================
