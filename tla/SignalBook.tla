---------------------------- MODULE SignalBook ----------------------------
(***************************************************************************)
(* What the replay of a strategy's signals promises, whatever the candles, *)
(* the stop management and the quotas: one signal at a time; it waits, is  *)
(* filled or expires; while it is open its stop only tightens; it is left  *)
(* once, at its target, at the stop then in force, or by an exit rule; and *)
(* only a trade that was filled is booked.                                 *)
(***************************************************************************)
EXTENDS Integers, Sequences

CONSTANTS Side, InitialStop, Target, ExitPrices

VARIABLES
  signal,    \* <<>>, or << [stage, stop] >> with stage "waiting" or "open"
  booked     \* exit prices of the trades, in order

NoWorse(new, old) == IF Side = "long" THEN new >= old ELSE new <= old

Init == signal = <<>> /\ booked = <<>>

Publish ==
  /\ signal = <<>>
  /\ signal' = << [stage |-> "waiting", stop |-> InitialStop] >>
  /\ UNCHANGED booked

Fill ==
  /\ signal # <<>> /\ signal[1].stage = "waiting"
  /\ signal' = << [signal[1] EXCEPT !.stage = "open"] >>
  /\ UNCHANGED booked

\* Unfilled signals leave no trade.
Expire ==
  /\ signal # <<>> /\ signal[1].stage = "waiting"
  /\ signal' = <<>>
  /\ UNCHANGED booked

\* A candle may fill a signal and reach its target at once.
FillAndReachTarget ==
  /\ signal # <<>> /\ signal[1].stage = "waiting"
  /\ signal' = <<>>
  /\ booked' = Append(booked, Target)

TightenStop ==
  /\ signal # <<>> /\ signal[1].stage = "open"
  /\ Len(signal') = 1
  /\ signal'[1] = [signal[1] EXCEPT !.stop = signal'[1].stop]
  /\ NoWorse(signal'[1].stop, signal[1].stop)
  /\ UNCHANGED booked

Leave ==
  /\ signal # <<>> /\ signal[1].stage = "open"
  /\ \E price \in {Target, signal[1].stop} \cup ExitPrices : booked' = Append(booked, price)
  /\ signal' = <<>>

Next == Publish \/ Fill \/ Expire \/ FillAndReachTarget \/ TightenStop \/ Leave

Spec == Init /\ [][Next]_<<signal, booked>>
=============================================================================
