------------------------- MODULE MCStrategyKernel -------------------------
(***************************************************************************)
(* Replays of a single position over a handful of bar shapes around price  *)
(* 20, at every open time of a short window.                               *)
(***************************************************************************)
EXTENDS StrategyKernel

Bar(t, o, h, l, c, x) ==
  [open_at |-> t, open |-> o, high |-> h, low |-> l, close |-> c, feature |-> x]

\* flat, rise, fall, gap up, gap down, and a bar that reaches both ways.
BarsAt(t) == {Bar(t, 20, 20, 20, 20, 0), Bar(t, 20, 25, 19, 24, 1), Bar(t, 20, 21, 15, 16, 0),
              Bar(t, 27, 28, 26, 26, 1), Bar(t, 13, 14, 12, 14, 0), Bar(t, 20, 26, 14, 20, 1)}
MCFrames == UNION {BarsAt(t) : t \in 0..(ExecutionEnd - 1)}

StopFixed == [model |-> "fixed_percent", value |-> 10]
StopFeatureExpr == [model |-> "feature_expression", value |-> 50]
TakeFixed == [model |-> "fixed_percent", value |-> 20]
TakeR == [model |-> "r_multiple", value |-> 150]

CrossUp == [node |-> "cross", op |-> "above", threshold |-> 0]
LevelUp == [node |-> "compare", op |-> "above", threshold |-> 0]
LevelDown == [node |-> "compare", op |-> "below", threshold |-> 1]
NoCondition == [node |-> "none", op |-> "above", threshold |-> 0]

StopFirst == <<"stop_loss", "take_profit", "time_exit", "signal_exit">>
SignalFirst == <<"signal_exit", "time_exit", "take_profit", "stop_loss">>

Margin60 == [model |-> "fixed_margin", value |-> 60, basis |-> "equity"]
Fraction100 == [model |-> "equity_fraction", value |-> 100, basis |-> "equity"]
Risk10 == [model |-> "risk_fraction", value |-> 10, basis |-> "equity"]
=============================================================================
