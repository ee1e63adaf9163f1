--------------------------- MODULE PatternSignals ---------------------------
(***************************************************************************)
(* The pattern detectors: double bottoms and tops, heads and shoulders,    *)
(* divergences, Chan's third points and Fibonacci retracements             *)
(* (strategy_swing_points, strategy_bottom_patterns, strategy_top_patterns,*)
(* strategy_divergence, strategy_chan, _build_fibonacci_retracement), each read bar by bar as its loop reads them, and the    *)
(* next-open entry their strategies share.                                 *)
(*                                                                         *)
(* The short side mirrors the long one: pivots are highs for lows, and     *)
(* Past(a, b) is a < b for a > b.  Frozen stops are held in thousandths,   *)
(* necklines and targets as fractions <<numerator, denominator>>.          *)
(***************************************************************************)
EXTENDS Integers, Sequences, FiniteSetsExt, SequencesExt

CONSTANTS
  Studies,      \* the detectors and the bars each may meet
  Spread        \* what the broker adds to an entry, in thousandths

VARIABLES
  study,        \* the study of this run
  bars,         \* the bars so far, the warm-up ones first
  facts,        \* what the detector remembers
  signal,       \* what the detector says at the bar last read
  desk          \* the strategy: order, held, trade, and the signals by fate

patternVars == <<study, bars, facts, signal, desk>>

None == [none |-> TRUE]
Is(x) == x # None
short == study.short
Past(a, b) == IF short THEN a < b ELSE a > b
Larger(a, b) == IF a > b THEN a ELSE b
Smaller(a, b) == IF a < b THEN a ELSE b
Swings == {"double", "shoulders"}
Divergences == {"rsi", "macd"}

PatternsAssumption ==
  /\ Spread \in Nat
  /\ \A s \in Studies :
       /\ s.kind \in Swings \cup Divergences \cup {"chan", "fibonacci"}
       /\ s.short \in BOOLEAN
       /\ s.n \in Nat \ {0} /\ s.warmup \in Nat

---------------------------------------------------------------------------
(* Swing points, told n bars after they stood.                             *)

ExtremeOf(b, i, top) == IF top THEN b[i].high ELSE b[i].low
Opposite(b, i) == ExtremeOf(b, i, ~short)

IsPivot(b, j, top) ==
  \A k \in ((j - study.n)..(j + study.n)) \ {j} :
    IF top THEN b[k].high < b[j].high ELSE b[k].low > b[j].low
\* The top or bottom confirmed by the last bar of b, if there is one.
Confirmed(b, top) ==
  LET j == Len(b) - study.n IN
  IF Len(b) > 2 * study.n /\ IsPivot(b, j, top)
  THEN [index |-> j, price |-> ExtremeOf(b, j, top)] ELSE None
SwingPoint(b) == Confirmed(b, short)

---------------------------------------------------------------------------
(* Double bottoms and heads and shoulders.                                 *)

Count == IF study.kind = "double" THEN 2 ELSE 3
Within(a, b, tolerance) ==
  1000 * (Larger(a, b) - Smaller(a, b)) =< tolerance * Smaller(a, b)

\* The best price strictly between two points, the earliest of equals.
Peak(b, left, right) ==
  LET between == (left.index + 1)..(right.index - 1)
      best == {i \in between : \A k \in between : ~Past(Opposite(b, k), Opposite(b, i))}
  IN [index |-> Min(best), price |-> Opposite(b, Min(best))]

DoubleHolds(b, used) ==
  LET gap == used[2].index - used[1].index
      neck == Peak(b, used[1], used[2])
  IN /\ gap >= study.minGap /\ gap =< study.maxGap
     /\ Within(used[1].price, used[2].price, study.tolerance)
     /\ IF short
        THEN 1000 * neck.price =< (1000 - study.swing) * Smaller(used[1].price, used[2].price)
        ELSE 1000 * neck.price >= (1000 + study.swing) * Larger(used[1].price, used[2].price)

ShouldersHold(used) ==
  /\ \A i \in {1, 3} :
       IF short THEN 1000 * used[2].price >= (1000 + study.head) * used[i].price
                ELSE 1000 * used[2].price =< (1000 - study.head) * used[i].price
  /\ Within(used[1].price, used[3].price, study.shoulder)

FrozenStop(price) == price * (IF short THEN 1001 ELSE 999)

Setup(b, used) ==
  [points |-> used,
   necks |-> [i \in 1..(Count - 1) |-> Peak(b, used[i], used[i + 1])],
   stop |-> FrozenStop(used[Count].price)]

\* The neckline at bar t: through one or two points.
NeckSpan(setup) ==
  LET d == setup.necks[Len(setup.necks)].index - setup.necks[1].index IN IF d = 0 THEN 1 ELSE d
NeckAt(setup, t) ==
  LET first == setup.necks[1]
      last == setup.necks[Len(setup.necks)]
  IN first.price * NeckSpan(setup) + (last.price - first.price) * (t - first.index)

Breaks(setup, close, t) == Past(close * NeckSpan(setup), NeckAt(setup, t))
Fails(setup, close) == Past(setup.stop, 1000 * close)
MeasuredMove(setup, t) ==
  LET points == setup.points
      deepest == CHOOSE p \in ToSet(points) : \A q \in ToSet(points) : ~Past(p.price, q.price)
      from == IF study.kind = "double" THEN deepest ELSE points[2]
  IN <<NeckAt(setup, t) + NeckAt(setup, from.index) - from.price * NeckSpan(setup), NeckSpan(setup)>>
MoveHolds(setup, t) ==
  /\ Past(MeasuredMove(setup, t)[1], NeckAt(setup, t))
  /\ short => MeasuredMove(setup, t)[1] > 0
  /\ Past(NeckAt(setup, t) * 1000, setup.stop * NeckSpan(setup))

\* Mutant: a point whose pattern does not hold leaves the old setup armed.
ArmedOnlyByPatterns(b, points) ==
  LET used == SubSeq(points, Len(points) - Count + 1, Len(points)) IN
  IF Len(points) < Count THEN None
  ELSE IF (study.kind = "double" /\ DoubleHolds(b, used)) \/ (study.kind = "shoulders" /\ ShouldersHold(used))
       THEN Setup(b, used) ELSE facts.active
\* A new point drops the armed setup and may arm another.
ArmedByPoint(b, points) ==
  LET used == SubSeq(points, Len(points) - Count + 1, Len(points)) IN
  CASE Len(points) < Count -> None
    [] Len(points) >= Count ->
         IF (study.kind = "double" /\ DoubleHolds(b, used)) \/ (study.kind = "shoulders" /\ ShouldersHold(used))
         THEN Setup(b, used) ELSE None

\* One round of the detector's loop: after the points, the close fails the armed
\* setup, breaks its neckline, or leaves it armed.
Ends(armed, close, t) == Is(armed) /\ (Fails(armed, close) \/ Breaks(armed, close, t))
SwingTold(armed, close, t) ==
  IF Ends(armed, close, t) /\ ~Fails(armed, close) /\ MoveHolds(armed, t)
  THEN [bar |-> t, stop |-> armed.stop, target |-> MeasuredMove(armed, t)] ELSE None
SwingJudged(points, armed, close, t) ==
  /\ facts' = [points |-> points, active |-> IF Ends(armed, close, t) THEN None ELSE armed]
  /\ signal' = SwingTold(armed, close, t)
SwingStep(b) ==
  LET point == SwingPoint(b)
      points == IF Is(point) THEN Append(facts.points, point) ELSE facts.points
  IN SwingJudged(points, IF Is(point) THEN ArmedByPoint(b, points) ELSE facts.active,
                 b[Len(b)].close, Len(b))

---------------------------------------------------------------------------
(* Divergences between the swing points and an indicator line.             *)

Line(t) == study.line[t]
Crosses(t) ==
  /\ t > 1
  /\ IF short THEN Line(t - 1) >= 0 /\ Line(t) < 0 ELSE Line(t - 1) =< 0 /\ Line(t) > 0

Diverges(left, right) ==
  /\ left.index >= study.validFrom
  /\ right.index - left.index >= study.minGap /\ right.index - left.index =< study.maxGap
  /\ Past(left.price, right.price)
  /\ Past(Line(right.index), Line(left.index))
  /\ study.kind = "rsi" => Past(study.threshold, Line(left.index))

DivergenceStep(b) ==
  LET t == Len(b)
      point == SwingPoint(b)
      left == facts.previous
      armed == CASE ~Is(point) -> facts.armed
                 [] ~Is(left) -> None
                 [] ~Diverges(left, point) -> None
                 [] OTHER -> [left |-> left, right |-> point, stop |-> FrozenStop(point.price)]
      fails == Is(armed) /\ Fails(armed, b[t].close)
      speaks == Is(armed) /\ ~fails /\ (study.kind = "rsi" \/ Crosses(t))
  IN /\ facts' = [previous |-> IF Is(point) THEN point ELSE left,
                  armed |-> IF fails \/ speaks THEN None ELSE armed]
     /\ signal' = IF speaks THEN [bar |-> t, stop |-> armed.stop] ELSE None

---------------------------------------------------------------------------
(* Chan's merged bars, fractals, strokes, centers and third points.        *)

EmptyChan ==
  [merged |-> <<>>, direction |-> "none", seed |-> {}, endpoint |-> None,
   strokes |-> <<>>, centers |-> <<>>, departure |-> None, thirds |-> <<>>, third |-> None]

Included(a, b) ==
  \/ a.high =< b.high /\ a.low >= b.low
  \/ a.high >= b.high /\ a.low =< b.low
MergedInto(a, b, direction) ==
  IF direction = "up"
  THEN [a EXCEPT !.high = Larger(@, b.high), !.low = Larger(@, b.low)]
  ELSE [a EXCEPT !.high = Smaller(@, b.high), !.low = Smaller(@, b.low)]
Union(a, b) == [high |-> Larger(a.high, b.high), low |-> Smaller(a.low, b.low)]

Stroke(start, end) ==
  [start |-> start, end |-> end, up |-> end.top,
   high |-> Larger(start.price, end.price), low |-> Smaller(start.price, end.price)]
\* The end of a stroke towards a departure, the other one, and a center's edge there.
Outer(s) == IF short THEN s.low ELSE s.high
Inner(s) == IF short THEN s.high ELSE s.low
Edge(center) == IF short THEN center.zd ELSE center.zg
HasCenter(f) == f.centers # <<>>
Center(f) == f.centers[Len(f.centers)]

\* A fractal beyond the endpoint it repeats takes its place, in the last stroke
\* and in the departure that stroke may be.
Replaced(f, point) ==
  LET last == Stroke(f.strokes[Len(f.strokes)].start, point) IN
  IF ~(IF point.top THEN point.price > f.endpoint.price ELSE point.price < f.endpoint.price)
  THEN f
  ELSE [f EXCEPT !.endpoint = point,
                 !.strokes = IF @ = <<>> THEN @ ELSE [@ EXCEPT ![Len(@)] = last],
                 !.departure = IF Is(@) /\ point.top = ~short THEN last ELSE @]

\* A stroke leaves the center, or pulls back after one that did.
Judged(f, stroke) ==
  LET center == Center(f)
      away == stroke.up = ~short
      clear == Past(Inner(stroke), Edge(center))
      speaks == clear /\ ~center.used
      fact == [center |-> Len(f.centers), edge |-> Edge(center), first |-> center.first,
               departure |-> f.departure, pullback |-> stroke, speaks |-> speaks]
  IN CASE ~HasCenter(f) -> f
       [] away /\ Past(Outer(stroke), Edge(center)) -> [f EXCEPT !.departure = stroke]
       [] ~away /\ Is(f.departure) ->
            [f EXCEPT !.thirds = Append(@, fact), !.departure = None,
                      !.centers = IF speaks THEN [@ EXCEPT ![Len(@)].used = TRUE] ELSE @,
                      !.third = IF speaks THEN [stop |-> FrozenStop(Inner(stroke)), level |-> Edge(center)]
                                ELSE @]
       [] OTHER -> f

\* Three strokes that overlap and belong to no center are one.
Centred(f) ==
  LET k == Len(f.strokes)
      triple == {f.strokes[i] : i \in (k - 2)..k}
      zg == Min({s.high : s \in triple})
      zd == Max({s.low : s \in triple})
  IN IF k >= 3 /\ (HasCenter(f) => k - 2 > Center(f).last) /\ zg > zd
     THEN [f EXCEPT !.centers = Append(@, [zg |-> zg, zd |-> zd, first |-> k - 2, last |-> k, used |-> FALSE]),
                    !.departure = None]
     ELSE f

Pointed(f, point) ==
  LET stroke == Stroke(f.endpoint, point)
      drawn == [f EXCEPT !.endpoint = point, !.strokes = Append(@, stroke)]
  IN CASE ~Is(f.endpoint) -> [f EXCEPT !.endpoint = point]
       [] point.top = f.endpoint.top -> Replaced(f, point)
       [] point.at - f.endpoint.at < study.gap -> f
       [] ~(IF point.top THEN point.price > f.endpoint.price ELSE point.price < f.endpoint.price) -> f
       [] OTHER -> Centred(Judged(drawn, stroke))

\* The fractal a newly independent bar completes.
Fractal(f) ==
  LET k == Len(f.merged)
      left == f.merged[k - 2]
      mid == f.merged[k - 1]
      right == f.merged[k]
      top == mid.high > Larger(left.high, right.high) /\ mid.low > Larger(left.low, right.low)
      bottom == mid.high < Smaller(left.high, right.high) /\ mid.low < Smaller(left.low, right.low)
  IN IF k >= 3 /\ (top \/ bottom)
     THEN Pointed(f, [top |-> top, at |-> k - 1, price |-> IF top THEN mid.high ELSE mid.low])
     ELSE f

\* ChanRecognizer.push: contained bars merge, into a seed while no direction is known.
Pushed(f, b) ==
  LET k == Len(f.merged)
      last == f.merged[k]
      direction == IF b.high > last.high THEN "up" ELSE "down"
      resolved == IF f.seed = {} THEN last
                  ELSE FoldSet(LAMBDA x, y : MergedInto(y, x, direction), CHOOSE x \in f.seed : TRUE, f.seed)
      turned == [f EXCEPT !.direction = direction, !.seed = {}, !.merged = [@ EXCEPT ![k] = resolved]]
  IN CASE k = 0 -> [f EXCEPT !.merged = <<b>>]
       [] Included(b, last) /\ f.direction = "none" ->
            [f EXCEPT !.seed = (IF @ = {} THEN {last} ELSE @) \cup {b},
                      !.merged = [@ EXCEPT ![k] = Union(last, b)]]
       [] Included(b, last) /\ f.direction # "none" ->
            [f EXCEPT !.merged = [@ EXCEPT ![k] = MergedInto(last, b, f.direction)]]
       [] ~Included(b, last) /\ Included(b, resolved) ->
            [turned EXCEPT !.merged = [@ EXCEPT ![k] = MergedInto(resolved, b, direction)]]
       [] OTHER -> Fractal([turned EXCEPT !.merged = Append(@, b)])

ChanStep(b) ==
  LET t == Len(b)
      f == Pushed([facts EXCEPT !.third = None], [high |-> b[t].high, low |-> b[t].low])
  IN /\ facts' = f
     /\ signal' = IF Is(f.third) THEN [bar |-> t, stop |-> f.third.stop, level |-> f.third.level] ELSE None

---------------------------------------------------------------------------
(* Fibonacci retracements: a confirmed low, the confirmed high right after  *)
(* it, and a candle that turns up at a level of the way back.  The prices   *)
(* of a wave are in thousandths, its stop in millionths.                    *)

EmptyWaves == [previous |-> None, wave |-> None]
Retraced(low, high, level) == 1000 * high - level * (high - low)
WaveStop(low, high) == 999 * (IF study.level < 786 THEN Retraced(low, high, 786) ELSE 1000 * low)
Wave(low, high, t) ==
  [low |-> low.price, high |-> high.price, since |-> t, invalid |-> FALSE,
   level |-> Retraced(low.price, high.price, study.level), stop |-> WaveStop(low.price, high.price)]
IsWave(previous, high) ==
  /\ Is(previous) /\ ~previous.top /\ high.index > previous.index
  /\ 1000 * (high.price - previous.price) >= study.gain * previous.price

\* The order of a low and a high confirmed by one candle is not known.
PreviousPoint(f, low, high) ==
  CASE Is(low) /\ Is(high) -> None
    [] Is(low) /\ ~Is(high) -> low @@ [top |-> FALSE]
    [] ~Is(low) /\ Is(high) -> high @@ [top |-> TRUE]
    [] OTHER -> f.previous
\* An order makes its wave used: it enters no more, and can no longer fail.
Used(wave) == desk.used = wave.since
\* _fib_update at bar t.
NewWave(f, low, high, t) ==
  CASE ~Is(low) /\ ~Is(high) -> f.wave
    [] ~Is(low) /\ Is(high) /\ IsWave(f.previous, high) -> Wave(f.previous, high, t)
    [] OTHER -> None
Failed(wave, close) ==
  IF Is(wave) /\ ~Used(wave) /\ 1000000 * close < wave.stop THEN [wave EXCEPT !.invalid = TRUE] ELSE wave
Updated(f, low, high, b) ==
  [previous |-> PreviousPoint(f, low, high),
   wave |-> Failed(NewWave(f, low, high, Len(b)), b[Len(b)].close)]

\* The candle that enters: down to the level, closed not under it, and rising.
TurnsAt(level, candle) ==
  /\ 1000000 * candle.low =< level * (1000 + study.tolerance)
  /\ 1000000 * candle.close >= level * (1000 - study.tolerance)
  /\ candle.close > candle.open
FibonacciTold(f, t, candle) ==
  LET ready == Is(f.wave) /\ ~Used(f.wave) /\ ~f.wave.invalid /\ t > f.wave.since
  IN /\ facts' = f
     /\ signal' = IF ready /\ TurnsAt(f.wave.level, candle)
                  THEN [bar |-> t, stop |-> f.wave.stop, target |-> <<f.wave.high, 1>>, wave |-> f.wave.since]
                  ELSE None
FibonacciStep(b) ==
  FibonacciTold(Updated(facts, Confirmed(b, FALSE), Confirmed(b, TRUE), b), Len(b), b[Len(b)])

---------------------------------------------------------------------------
(* The strategies: one position, entered at the open after the signal.     *)

Fill(open) == open * (IF short THEN 1000 - Spread ELSE 1000 + Spread)   \* _adjusted_price

\* An open that has passed the frozen stop, or has left nothing of the frozen
\* target, cancels the entry.
StopPassed(order, open) ==
  CASE study.kind \in Swings -> ~Past(1000 * open, order.stop)
    [] study.kind = "fibonacci" -> ~Past(1000000 * open, order.stop)
    [] OTHER -> ~Past(Fill(open), order.stop)
TargetPassed(order, open) ==
  \/ study.kind \in Swings /\ ~Past(1000 * order.target[1], Fill(open) * order.target[2])
  \/ study.kind = "fibonacci" /\ open >= order.target[1]
Target(order, open) ==
  IF study.kind \in Swings \cup {"fibonacci"} THEN order.target
  ELSE <<Fill(open) + 2 * (Fill(open) - order.stop), 1000>>

Opened(open) ==
  LET order == desk.order IN
  CASE ~Is(order) -> desk
    [] Is(order) /\ (StopPassed(order, open) \/ TargetPassed(order, open)) ->
         [desk EXCEPT !.order = None, !.skipped = @ + 1]
    [] OTHER -> [desk EXCEPT !.order = None, !.held = TRUE,
                             !.trades = Append(@, [signal |-> order, bar |-> Len(bars) + 1, entry |-> Fill(open),
                                                   target |-> Target(order, open)])]

\* next(): a signal met while a position stands, on the last bar, or with the
\* gates closed is gone.
Listens(t) ==
  /\ t > study.warmup + 1
  /\ study.kind \in Divergences => t >= study.validFrom
Placed(d, closed) ==
  CASE ~Is(signal') \/ ~Listens(Len(bars')) -> d
    [] d.held -> [d EXCEPT !.lost = @ + 1]
    [] Len(bars') >= study.length \/ closed -> [d EXCEPT !.lost = @ + 1]
    [] OTHER -> [d EXCEPT !.order = signal', !.used = IF study.kind = "fibonacci" THEN signal'.wave ELSE @]

PatternInit ==
  /\ study \in Studies
  /\ bars = <<>>
  /\ facts = CASE study.kind \in Swings -> [points |-> <<>>, active |-> None]
               [] study.kind \in Divergences -> [previous |-> None, armed |-> None]
               [] study.kind = "fibonacci" -> EmptyWaves
               [] OTHER -> EmptyChan
  /\ signal = None
  /\ desk = [order |-> None, held |-> FALSE, trades |-> <<>>, used |-> 0, skipped |-> 0, lost |-> 0]

\* The bars a study may meet: a fixed opening, then any of its alphabet.
NextBars ==
  IF Len(bars) < Len(study.opening) THEN {study.opening[Len(bars) + 1]} ELSE study.alphabet

\* How long a position stands is the broker's and the overlay's business.
ReadBar(b, closed, leaves) ==
  LET read == Append(bars, b)
      opened == Opened(b.open)
  IN /\ bars' = read
     /\ CASE study.kind \in Swings -> SwingStep(read)
          [] study.kind \in Divergences -> DivergenceStep(read)
          [] study.kind = "fibonacci" -> FibonacciStep(read)
          [] OTHER -> ChanStep(read)
     /\ leaves => opened.held
     /\ desk' = Placed(IF leaves THEN [opened EXCEPT !.held = FALSE] ELSE opened, closed)
     /\ closed => Is(signal')
     /\ UNCHANGED study

PatternSteps ==
  /\ Len(bars) < study.length
  /\ \E b \in NextBars, closed, leaves \in BOOLEAN : ReadBar(b, closed, leaves)

PatternSpec == PatternInit /\ [][PatternSteps]_patternVars

---------------------------------------------------------------------------
(* Properties.                                                             *)

\* The points confirmed by bar t, oldest first.
PointsBy(t) ==
  LET tops == SelectSeq([i \in 1..t |-> i], LAMBDA i : Is(SwingPoint(SubSeq(bars, 1, i))))
  IN [k \in 1..Len(tops) |-> SwingPoint(SubSeq(bars, 1, tops[k]))]

\* What a chart reader would say of bar t, knowing nothing of the loop: the
\* last points form the pattern, no close since the last of them was confirmed
\* has failed it or passed the neckline, and this close passes it.
PatternAt(t) ==
  LET points == PointsBy(t)
      used == SubSeq(points, Len(points) - Count + 1, Len(points))
      setup == Setup(SubSeq(bars, 1, t), used)
      confirmed == used[Count].index + study.n
  IN /\ Len(points) >= Count
     /\ IF study.kind = "double" THEN DoubleHolds(bars, used) ELSE ShouldersHold(used)
     /\ \A u \in confirmed..(t - 1) :
          ~Fails(setup, bars[u].close) /\ ~Breaks(setup, bars[u].close, u)
     /\ ~Fails(setup, bars[t].close) /\ Breaks(setup, bars[t].close, t) /\ MoveHolds(setup, t)
DivergenceAt(t) ==
  LET points == PointsBy(t)
      left == points[Len(points) - 1]
      right == points[Len(points)]
      confirmed == right.index + study.n
      stop == FrozenStop(right.price)
      turns(u) == study.kind = "rsi" \/ Crosses(u)
  IN /\ Len(points) >= 2 /\ Diverges(left, right)
     /\ \A u \in confirmed..(t - 1) : ~turns(u) /\ ~Past(stop, 1000 * bars[u].close)
     /\ turns(t) /\ ~Past(stop, 1000 * bars[t].close)

\* The last two candles that confirmed a point are a low's and a high's, the close has
\* not been under the wave's stop since, and the wave has made no order before this one.
RetracementAt(t) ==
  LET at(u, top) == Confirmed(SubSeq(bars, 1, u), top)
      told == SelectSeq([u \in 1..t |-> u], LAMBDA u : Is(at(u, FALSE)) \/ Is(at(u, TRUE)))
      right == told[Len(told)]
      left == told[Len(told) - 1]
      low == at(left, FALSE)
      high == at(right, TRUE)
  IN /\ Len(told) >= 2 /\ right < t
     /\ Is(low) /\ ~Is(at(left, TRUE)) /\ Is(high) /\ ~Is(at(right, FALSE))
     /\ 1000 * (high.price - low.price) >= study.gain * low.price
     /\ \A u \in right..t : 1000000 * bars[u].close >= WaveStop(low.price, high.price)
     /\ TurnsAt(Retraced(low.price, high.price, study.level), bars[t])
     /\ desk.used = right => Is(desk.order)
PatternTold(t) ==
  CASE study.kind \in Swings -> PatternAt(t)
    [] study.kind = "fibonacci" -> RetracementAt(t)
    [] OTHER -> DivergenceAt(t)

\* A swing, divergence or wave detector speaks at exactly the closes at which its
\* pattern, read off the chart, is complete for the first time: a newer point
\* replaces the pattern, a failed or broken one never speaks again.
SignalsMatchTheirPattern ==
  (bars # <<>> /\ study.kind # "chan") =>
    (Is(signal) <=> PatternTold(Len(bars)))

\* Merged bars never contain one another, and strokes hang together on them:
\* each starts where the one before ended, turns, and spans the gap.
StrokesHangTogether ==
  study.kind = "chan" =>
    LET m == facts.merged
        s == facts.strokes
    IN /\ \A k \in 1..(Len(m) - 1) : facts.seed = {} => ~Included(m[k], m[k + 1])
       /\ \A k \in DOMAIN s :
            /\ s[k].end.at - s[k].start.at >= study.gap
            /\ s[k].end.price = (IF s[k].up THEN m[s[k].end.at].high ELSE m[s[k].end.at].low)
            /\ s[k].end = (IF k = Len(s) THEN facts.endpoint ELSE s[k + 1].start)
            /\ s[k].up # s[k].start.top /\ s[k].low < s[k].high

\* A third point is told of a center once, after a stroke that left it, drawn
\* after the center was complete, and a pullback right behind that stays clear.
ThirdPointsStandClear ==
  study.kind = "chan" =>
    \A k \in DOMAIN facts.thirds :
      LET third == facts.thirds[k] IN
      third.speaks =>
        /\ third.departure.end = third.pullback.start
        /\ Past(Outer(third.departure), third.edge) /\ Past(Inner(third.pullback), third.edge)
        /\ \A i \in 1..(third.first + 2) : facts.strokes[i].start.at < third.departure.start.at
        /\ \A j \in 1..(k - 1) : facts.thirds[j].center = third.center => ~facts.thirds[j].speaks

\* Every position was entered at the open right after its signal, short of its
\* target and clear of its stop, whatever the gap and the spread; a wave, whose open
\* is compared before the spread, is entered once.
EntriesHaveRoom ==
  \A k \in DOMAIN desk.trades :
    LET trade == desk.trades[k]
        open == bars[trade.bar].open
    IN
    /\ trade.bar = trade.signal.bar + 1
    /\ IF study.kind = "fibonacci"
       THEN /\ open < trade.target[1] /\ 1000000 * open > trade.signal.stop
            /\ \A j \in 1..(k - 1) : desk.trades[j].signal.wave # trade.signal.wave
       ELSE /\ Past(trade.entry, trade.signal.stop)
            /\ Past(1000 * trade.target[1], trade.entry * trade.target[2])
=============================================================================
