--------------------------- MODULE MCTemplateRun ---------------------------
(***************************************************************************)
(* The single-position templates, each part of them in runs of its own:     *)
(*   overlay    four bars of six shapes around 100, under fourteen settings *)
(*   turtle     the same bars, three settings of the group                  *)
(*   signals    every indicator template, on bars that stand still or dip   *)
(*   events     windows, unlocks and releases over six bars                 *)
(*   patterns   every reversal detector, long and short, on every path over *)
(*              a few levels: swings one bar wide, and Chan's strokes behind *)
(*              a first center                                              *)
(***************************************************************************)
EXTENDS TemplateRun

VARIABLES
  part,
  setting, turn, group, adds,
  template, prev, cur, flag, ground, tied,
  tale, legs, log, rows,
  study, bars, facts, signal, pattern

turtleVars == <<setting, turn, group, adds>>
signalVars == <<template, prev, cur, flag, ground, tied>>
eventVars == <<tale, legs, log, rows>>
patternVars == <<study, bars, facts, signal, pattern>>

Candle(o, h, l, c) == [o |-> o, h |-> h, l |-> l, c |-> c]
ShapeCandles ==
  {Candle(100, 100, 100, 100), Candle(100, 120, 100, 120), Candle(100, 100, 80, 80),
   Candle(120, 120, 80, 100), Candle(60, 60, 60, 60), Candle(120, 140, 120, 120)}

Plain == [layer |-> FALSE, clock |-> FALSE, leverage |-> 1, size |-> 100, risk |-> 0, compound |-> FALSE, stop |-> 0,
          take |-> 0, trail |-> 0, breakeven |-> FALSE, holding |-> 0, levels |-> <<>>, confirm |-> 0,
          frozen |-> "none", reward |-> 0]
Group == [side |-> 1, multiple |-> 2, step |-> 1, risk |-> 10, max |-> 3, take |-> 0]
RunSettings == {Group, [Group EXCEPT !.side = 0, !.take = 20, !.max = 2, !.risk = 40],
                [Group EXCEPT !.side = -1, !.take = 10, !.risk = 40]}
Layered == [Plain EXCEPT !.layer = TRUE]
Thirds == <<[r |-> 1, share |-> 30], [r |-> 2, share |-> 40]>>

RunLayers ==
  {[Plain EXCEPT !.stop = 10, !.take = 20, !.clock = TRUE],
   [Plain EXCEPT !.leverage = 5, !.size = 50],
   [Layered EXCEPT !.stop = 10, !.take = 20, !.holding = 2],
   [Layered EXCEPT !.stop = 20, !.trail = 10, !.breakeven = TRUE],
   [Layered EXCEPT !.trail = 10, !.levels = Thirds],
   [Layered EXCEPT !.leverage = 5, !.stop = 10, !.take = 20, !.size = 50],
   [Layered EXCEPT !.stop = 10, !.risk = 1], [Layered EXCEPT !.stop = 10, !.risk = 1, !.compound = TRUE],
   [Layered EXCEPT !.stop = 10, !.take = 20, !.confirm = 2],
   [Plain EXCEPT !.stop = 10, !.take = 10, !.frozen = "close", !.confirm = 2],
   [Plain EXCEPT !.stop = 10, !.take = 20, !.frozen = "wave", !.clock = TRUE],
   [Plain EXCEPT !.frozen = "signal", !.reward = 2, !.leverage = 5, !.size = 50],
   [Plain EXCEPT !.frozen = "signal", !.reward = 2, !.confirm = 3],
   [Layered EXCEPT !.stop = 30, !.levels = Thirds, !.leverage = 5, !.size = 50]}

\* For the disagreements with the documentation: a leveraged run with a stop, and a macro
\* release with one.
StoppedLayers == {[Layered EXCEPT !.leverage = 5, !.stop = 10, !.take = 20, !.size = 50]}

\* TLC evaluates a constant definition once for all instances of its module, unless the
\* module is itself instantiated.
Brokers == INSTANCE BrokerSteps
Overlays == INSTANCE TemplateRun

-----------------------------------------------------------------------------
Turtle == INSTANCE TurtleRun WITH Settings <- RunSettings

Signals == INSTANCE TemplateSignals WITH
  Candles <- {Candle(100, 100, 100, 100), Candle(100, 120, 80, 100)},
  Layers <- {[Plain EXCEPT !.clock = TRUE], [Layered EXCEPT !.stop = 10], [Plain EXCEPT !.confirm = 2]},
  LastBar <- 4, MinBars <- 2,
  Templates <- {"ema_cross", "macd", "supertrend", "parabolic_sar", "bollinger_reversal", "bollinger_breakout",
     "keltner_breakout", "ema_pullback", "ema_pullback_short", "rsi_reversal", "breakout", "breakout_short", "volume_breakout", "cci_rsi",
     "ema_rsi_pullback", "roc", "stoch_oversold_cross", "bollinger_squeeze_breakout",
     "adx_di_cross", "ema_trend_rsi", "bias_reversion", "ema_triple_alignment",
     "macd_above_zero", "ichimoku_cloud_breakout", "red_streak_rsi"}

Flat(p) == [open |-> p, high |-> p, low |-> p, close |-> p]
Wide(m, w) == [open |-> m, high |-> m + w, low |-> m - w, close |-> m]
Mirrored(m) == 220 - m

Study == [kind |-> "double", short |-> FALSE, n |-> 1, warmup |-> 0, length |-> 8,
         minGap |-> 2, maxGap |-> 4, tolerance |-> 10, swing |-> 30, head |-> 20, shoulder |-> 30,
         validFrom |-> 2, level |-> 500, gain |-> 50, threshold |-> 0, line |-> <<>>, gap |-> 2, opening |-> <<>>, alphabet |-> {}]
Lines ==
  {<<-2, -2, -2, -1, -1, 1, 1, 1>>, <<-2, -2, -1, -1, 1, -1, 1, 1>>,
   <<-2, -1, -2, -1, -2, 1, -1, 1>>, <<1, -2, 1, -1, -2, -1, 1, 1>>, <<-1, -1, -2, -2, -1, -1, -1, 1>>}
LongStudies ==
  {[Study EXCEPT !.alphabet = {Flat(p) : p \in {97, 100, 104, 110}}],
   [Study EXCEPT !.kind = "shoulders", !.warmup = 1, !.opening = <<Flat(110), Flat(100), Flat(104)>>,
                !.length = 9, !.alphabet = {Flat(p) : p \in {90, 100, 102, 104, 110}}]}
  \cup {[Study EXCEPT !.kind = k, !.line = l, !.length = 7, !.alphabet = {Flat(p) : p \in {97, 100, 104}}] :
          k \in {"rsi", "macd"}, l \in Lines}
ShortStudies ==
  {[s EXCEPT !.short = TRUE,
             !.opening = [i \in DOMAIN @ |-> Flat(Mirrored(@[i].open))],
             !.alphabet = {Flat(Mirrored(b.open)) : b \in @},
             !.line = [i \in DOMAIN @ |-> -@[i]]] : s \in LongStudies}
\* Down, up, down: a first center about 100 to 118, then anything.
ChanOpening == <<110, 120, 110, 100, 109, 118, 110, 102, 112>>
ChanStudies ==
  {[Study EXCEPT !.kind = "chan", !.short = s, !.length = 15,
                !.opening = [i \in DOMAIN ChanOpening |->
                               Wide(IF s THEN Mirrored(ChanOpening[i]) ELSE ChanOpening[i], 2)],
                !.alphabet = {Wide(IF s THEN Mirrored(m) ELSE m, 2) : m \in {98, 124, 130, 136}}
                             \cup {Wide(110, 30)}] : s \in BOOLEAN}
  \cup {[Study EXCEPT !.kind = "chan", !.length = 6,
                     !.alphabet = {Wide(m, w) : m \in {100, 104, 110}, w \in {2, 9}}]}
\* Waves from 100 or 98 to 110 or 112, candles that rise at a level of the way back, and
\* one that confirms both ends; any bars, or a first wave and any bars.
Rising == [open |-> 103, high |-> 106, low |-> 103, close |-> 106]
FreeWaves ==
  [Study EXCEPT !.kind = "fibonacci", !.length = 7, !.level = 786,
                !.alphabet = {Flat(100), Flat(110), Wide(105, 7), Rising}]
FibonacciStudies ==
  {FreeWaves,
   [FreeWaves EXCEPT !.level = 500, !.length = 12, !.opening = <<Flat(110), Flat(100), Rising, Flat(110), Rising>>,
                     !.alphabet = {Flat(100), Flat(110), Rising}]}
AllStudies == LongStudies \cup ShortStudies \cup ChanStudies \cup FibonacciStudies

Patterns == INSTANCE PatternSignals WITH Studies <- AllStudies, Spread <- 10, desk <- pattern

EventCandles ==
  {Candle(100, 100, 100, 100), Candle(100, 130, 100, 130), Candle(120, 120, 80, 100), Candle(60, 60, 60, 60)}
EventLayers ==
  {Plain, [Plain EXCEPT !.clock = TRUE, !.stop = 10, !.take = 20], [Layered EXCEPT !.stop = 10, !.take = 20],
   [Plain EXCEPT !.leverage = 5, !.size = 50],
   [Layered EXCEPT !.leverage = 5, !.size = 50, !.stop = 30,
                   !.levels = <<[r |-> 1, share |-> 40], [r |-> 2, share |-> 40]>>],
   [Layered EXCEPT !.holding = 2], [Layered EXCEPT !.holding = 2, !.stop = 10],
   [Layered EXCEPT !.holding = 1, !.stop = 10]}
Tale == [kind |-> "window", events |-> <<2>>, side |-> 1, before |-> 0, after |-> 2, hold |-> 2,
         low |-> 0, high |-> 0, stop |-> 10, reward |-> 2]
EventTales ==
  {[Tale EXCEPT !.events = <<2, 3>>], [Tale EXCEPT !.events = <<2, 2, 4>>, !.after = 1, !.side = -1],
   [Tale EXCEPT !.events = <<1, 3, 6>>, !.before = 1],
   [Tale EXCEPT !.kind = "unlock", !.events = <<3, 4>>, !.before = 1, !.after = 1],
   [Tale EXCEPT !.kind = "unlock", !.events = <<3, 5>>, !.before = 1, !.after = 1],
   [Tale EXCEPT !.kind = "surprise", !.events = <<2, 4>>, !.hold = 1],
   [Tale EXCEPT !.kind = "surprise", !.events = <<2, 3, 4>>, !.side = -1],
   [Tale EXCEPT !.kind = "breakout", !.events = <<2, 2>>, !.low = 90, !.high = 110]}
Events == INSTANCE EventRun WITH
  Candles <- EventCandles, Layers <- EventLayers, Tales <- EventTales, LastBar <- 5

ASSUME PartsAssumed ==
  Turtle!TurtleAssumption /\ Signals!SignalsAssumption /\ Patterns!PatternsAssumption

-----------------------------------------------------------------------------
OverlayIdle == phase = "end" /\ layer = Plain /\ desk = EmptyRun /\ queue = EmptyQueue
TurtleIdle == turn = "end" /\ setting = Group /\ group = Turtle!EmptyGroup /\ adds = Turtle!NoAdds
SignalsIdle ==
  /\ template = "none" /\ prev = Signals!NoReading /\ cur = Signals!NoReading
  /\ flag = FALSE /\ ground = FALSE /\ tied = FALSE
EventsIdle == tale = Tale /\ legs = <<>> /\ log = <<>> /\ rows = <<>>
PatternsIdle == study = Study /\ bars = <<>> /\ facts = <<>> /\ signal = <<>> /\ pattern = <<>>

OverlayInit == part = "overlay" /\ Init /\ TurtleIdle /\ SignalsIdle /\ EventsIdle /\ PatternsIdle
EventsInit == part = "events" /\ Events!EventInit /\ TurtleIdle /\ SignalsIdle /\ PatternsIdle
TemplatesInit ==
  \/ OverlayInit
  \/ part = "turtle" /\ Turtle!TurtleInit /\ OverlayIdle /\ SignalsIdle /\ EventsIdle /\ PatternsIdle
  \/ part = "signals" /\ Signals!SignalsInit /\ TurtleIdle /\ EventsIdle /\ PatternsIdle
  \/ EventsInit
  \/ part = "patterns" /\ Patterns!PatternInit /\ OverlayIdle /\ TurtleIdle /\ SignalsIdle /\ EventsIdle

OverlayNext ==
  part = "overlay" /\ Next /\ UNCHANGED <<part, turtleVars, signalVars, eventVars, patternVars>>
EventsNext ==
  part = "events" /\ Events!EventSteps /\ UNCHANGED <<part, turtleVars, signalVars, patternVars>>
TurtleNext ==
  part = "turtle" /\ Turtle!TurtleSteps /\ UNCHANGED <<part, vars, signalVars, eventVars, patternVars>>
SignalsNext ==
  part = "signals" /\ Signals!SignalsNext /\ UNCHANGED <<part, turtleVars, eventVars, patternVars>>
PatternsNext ==
  part = "patterns" /\ Patterns!PatternSteps /\ UNCHANGED <<part, vars, turtleVars, signalVars, eventVars>>
TemplatesNext == OverlayNext \/ EventsNext \/ TurtleNext \/ SignalsNext \/ PatternsNext

allVars == <<part, vars, turtleVars, signalVars, eventVars, patternVars>>
TemplatesSpec == TemplatesInit /\ [][TemplatesNext]_allVars
OverlaySpec == OverlayInit /\ [][OverlayNext]_allVars
EventsSpec == EventsInit /\ [][EventsNext]_allVars

-----------------------------------------------------------------------------
\* The three promises of the protective orders, of every overlay run: no entry past its
\* stop, no touch of a level carried on, no liquidation price crossed and held.
ProtectionHolds ==
  part = "overlay" => EntriesFaceTheirStop /\ NoTouchIsMissed /\ NoLiquidationIsMissed

\* ExitsAreWhatTheySay, of every overlay run.
ExitsArePaidAsNamed == part = "overlay" => ExitsAreWhatTheySay

\* Nothing a run asked for is lost: the account settles with its trades, the partial
\* targets take their share, and every pattern signal is waiting or was settled once.
RunsAddUp ==
  part = "overlay" => TypeOK /\ RunsSettle /\ LevelsTakeTheirShare /\ SignalsAreAccountedFor

\* A turtle group is what the broker holds, leaves as one, and accounts for its units.
GroupsStayWhole ==
  part = "turtle" =>
    Turtle!GroupMatchesTheBroker /\ Turtle!GroupsLeaveTogether /\ Turtle!UnitsAreAccountedFor

\* LeavesWhenItsLevelTurns and NothingEntersCold, of every indicator template.
PositionsFollowTheirLevel ==
  part = "signals" => Signals!LeavesWhenItsLevelTurns /\ Signals!NothingEntersCold

\* EntriesAreEarned of the indicator templates: no entry without a new turn since the last.
SignalsAreEarned ==
  [][part = "signals" => Signals!EarnedStep]_<<vars, signalVars>>

\* The detectors hold together: a signal is its pattern's, strokes alternate and join, a
\* third point stands clear of its center, and an entry keeps room to its stop and target.
PatternsAreSound ==
  part = "patterns" =>
    /\ Patterns!SignalsMatchTheirPattern /\ Patterns!StrokesHangTogether
    /\ Patterns!ThirdPointsStandClear /\ Patterns!EntriesHaveRoom

\* Every event of the list is told once, trades on its own bar, and every trade of the
\* window and the unlock is reported for the exit that closed it.
EventsAreTold ==
  part = "events" =>
    Events!EveryEventIsTold /\ Events!EventsTradeOnTheirBar /\ Events!ReasonsAreTheExits

\* The reasons of a macro template's trades are the exits that closed them
\* (settle_event_window_exits: the rows left over are the engine's own closes).
MacroReasonsAreTheExits == part = "events" => Events!MacroReasonsAreTheExits

=============================================================================
