---------------------------- MODULE MCPaperTick ----------------------------
(* Small instances of PaperTick: three or four bar shapes, a short window. *)
EXTENDS PaperTick

Shape(o, h, l, c, x) == [open |-> o, high |-> h, low |-> l, close |-> c, feature |-> x]

\* calm without a signal, calm with one, a bar through any stop.
MCShapes == {Shape(20, 20, 20, 20, 0), Shape(20, 21, 19, 21, 1), Shape(18, 26, 14, 15, 0)}

StopFixed == [model |-> "fixed_percent", value |-> 20]
StopWide == [model |-> "fixed_percent", value |-> 40]
StopFeatureExpr == [model |-> "feature_expression", value |-> 50]
TakeFixed == [model |-> "fixed_percent", value |-> 30]
TakeR == [model |-> "r_multiple", value |-> 150]
Take3R == [model |-> "r_multiple", value |-> 300]

CrossUp == [node |-> "cross", op |-> "above", threshold |-> 0]
LevelUp == [node |-> "compare", op |-> "above", threshold |-> 0]
LevelDown == [node |-> "compare", op |-> "below", threshold |-> 1]
NoCondition == [node |-> "none", op |-> "above", threshold |-> 0]

StopFirst == <<"stop_loss", "take_profit", "time_exit", "signal_exit">>
SignalFirst == <<"signal_exit", "time_exit", "take_profit", "stop_loss">>
Risk10 == [model |-> "risk_fraction", value |-> 10, basis |-> "equity"]
Fraction100 == [model |-> "equity_fraction", value |-> 100, basis |-> "equity"]

=============================================================================
