-------------------------- MODULE TemplateSignals --------------------------
(***************************************************************************)
(* The signals of the single-asset indicator templates (_build_ema_cross   *)
(* to _build_ichimoku_cloud_breakout in cutie_backtesting_provider.py),    *)
(* each run under the overlay and the broker of TemplateRun.  Indicator    *)
(* lines are read, not computed: a reading orders them among themselves    *)
(* and against their thresholds, on a scale of a few integers; a line      *)
(* that is not finite is Undef, and no comparison with it holds.           *)
(***************************************************************************)
EXTENDS TemplateRun

CONSTANTS
  Templates,     \* the templates a run may be of
  MinBars        \* the bars a template wants behind it (min_bars)

Undef == -9
Gt(x, y) == x # Undef /\ y # Undef /\ x > y
Ge(x, y) == x # Undef /\ y # Undef /\ x >= y
Reading(a, b, c, d) == [a |-> a, b |-> b, c |-> c, d |-> d]
NoReading == Reading(Undef, Undef, Undef, Undef)

VARIABLES
  template,
  prev, cur,     \* the readings of the bar before and of this one
  flag,          \* what the template remembers: `armed` or `_dipped`
  ground,        \* history: the entry has been earned anew since the last one
  tied           \* history: the two lines of a cross were equal since the last entry

signals == <<template, prev, cur, flag, ground, tied>>

Crosses == {"ema_cross", "macd"}
Flips == {"supertrend", "parabolic_sar"}
Bands == {"bollinger_reversal", "bollinger_breakout", "keltner_breakout"}
Pullbacks == {"ema_pullback", "ema_pullback_short"}

SignalsAssumption ==
  /\ MinBars \in Nat
  /\ Templates \subseteq
       Crosses \cup Flips \cup Bands \cup Pullbacks \cup
       {"rsi_reversal", "breakout", "breakout_short", "volume_breakout", "cci_rsi",
        "ema_rsi_pullback", "roc", "stoch_oversold_cross", "bollinger_squeeze_breakout",
        "adx_di_cross", "ema_trend_rsi", "bias_reversion", "ema_triple_alignment",
        "macd_above_zero", "ichimoku_cloud_breakout", "red_streak_rsi"}

\* How a template's lines may stand to each other.
\*   crosses, macd_above_zero: two lines     flips: the trend
\*   bands, squeeze: price, middle, outer band, and the squeeze
\*   channels, volume: close, entry channel, exit line, and the volume spike
\*   red_streak_rsi: falling bars in a row (short of, at, past the count), the RSI
\*   pullbacks: fast over slow, close past slow, close against fast and zone, touch
Readings ==
  CASE template \in Crosses -> {Reading(a, b, 0, 0) : a, b \in 0..1}
    [] template = "macd_above_zero" -> {Reading(a, b, 0, 0) : a, b \in -1..1}
    [] template \in Flips -> {Reading(a, 0, 0, 0) : a \in {-1, 1}}
    [] template \in Bands -> {Reading(a, 1, c, 0) : a \in 0..3, c \in {0, 2}}
    [] template = "bollinger_squeeze_breakout" -> {Reading(a, 1, 2, d) : a \in 0..3, d \in 0..1}
    [] template \in {"breakout", "breakout_short", "volume_breakout"} ->
         {Reading(a, b, c, d) : a \in 0..2, b, c, d \in 0..1}
    [] template = "cci_rsi" -> {Reading(a, b, 0, 0) : a \in {Undef} \cup -2..2, b \in -2..2}
    [] template = "ema_rsi_pullback" -> {Reading(a, b, 0, 0) : a \in 0..3, b \in 0..2}
    [] template = "stoch_oversold_cross" -> {Reading(a, b, 0, 0) : a, b \in {0, 1, 3, 4}}
    [] template = "adx_di_cross" -> {Reading(a, b, c, 0) : a \in 0..2, b, c \in 0..1}
    [] template = "ema_trend_rsi" -> {Reading(a, b, 0, 0) : a \in 0..1, b \in 0..2}
    [] template = "ema_triple_alignment" -> {Reading(a, b, c, 0) : a, b, c \in 0..2}
    [] template = "ichimoku_cloud_breakout" -> {Reading(a, b, c, 0) : a, b, c \in 0..1}
    [] template = "red_streak_rsi" -> {Reading(a, b, 0, 0) : a \in 0..2, b \in 0..1}
    [] template \in Pullbacks ->
         {r \in {Reading(a, b, c, d) : a, b, d \in 0..1, c \in 0..2} :
            (r.c < 2 => r.d = 1) /\ (r.a = 1 /\ r.c > 0 => r.b = 0)}
    [] OTHER -> {Reading(a, 0, 0, 0) : a \in 0..2}

\* Templates that look back at the reading before.
LooksBack == Crosses \cup Flips \cup {"macd_above_zero", "stoch_oversold_cross", "adx_di_cross",
                                      "ema_triple_alignment", "ichimoku_cloud_breakout", "red_streak_rsi"}
Kept(r) == IF template \in LooksBack THEN r ELSE NoReading

\* red_streak: a count goes up by one or back to nothing.
Follows(r) ==
  template = "red_streak_rsi" => (r.a = 1 => cur.a < 1) /\ (r.a = 2 => cur.a # 0)

\* The library calls no next() before the rolling lines are known.
Rolling == (Bands \ {"keltner_breakout"}) \cup {"breakout", "breakout_short", "roc"}

-----------------------------------------------------------------------------
(* One operator per template: what its next() does after the exits, with a  *)
(* position of this side (0 is flat) and enough bars or not.                *)

CrossedUp(p, r) == Gt(p.b, p.a) /\ Gt(r.a, r.b)
Enter(condition) == IF condition THEN "buy" ELSE "hold"
Leave(condition) == IF condition THEN "close" ELSE "hold"

EmaCross(held, warm, p, r) ==
  IF ~warm THEN "hold"
  ELSE IF CrossedUp(p, r) THEN "buy"
  ELSE Leave(held # 0 /\ Gt(p.a, p.b) /\ Gt(r.b, r.a))
MacdAboveZero(held, warm, p, r) ==
  IF held = 0 THEN Enter(warm /\ Ge(p.b, p.a) /\ Gt(r.a, r.b) /\ r.a > 0 /\ r.b > 0)
  ELSE Leave(Ge(p.a, p.b) /\ Gt(r.b, r.a))
RsiReversal(held, warm, r) ==
  IF ~warm THEN "hold" ELSE IF held = 0 THEN Enter(r.a < 1) ELSE Leave(r.a > 1)
BollingerReversal(held, r) == IF held = 0 THEN Enter(Gt(r.c, r.a)) ELSE Leave(Ge(r.a, r.b))
BollingerBreakout(held, r) == IF held = 0 THEN Enter(Gt(r.a, r.c)) ELSE Leave(Gt(r.b, r.a))
KeltnerBreakout(held, warm, r) ==
  IF held = 0 THEN Enter(warm /\ Gt(r.a, r.c)) ELSE Leave(Gt(r.b, r.a))
BollingerSqueeze(held, warm, r) ==
  IF held = 0 THEN Enter(warm /\ r.d = 1 /\ Gt(r.a, r.c)) ELSE Leave(Gt(r.b, r.a))
Breakout(held, r) == IF held = 0 THEN Enter(Gt(r.a, r.b)) ELSE Leave(Gt(r.c, r.a))
BreakoutShort(held, r) ==
  IF held = 0 THEN IF Gt(r.b, r.a) THEN "sell" ELSE "hold" ELSE Leave(Gt(r.a, r.c))
VolumeBreakout(held, warm, r) ==
  IF held # 0 THEN Leave(Gt(r.c, r.a)) ELSE Enter(warm /\ Gt(r.a, r.b) /\ r.d = 1)
CciRsi(held, warm, r) ==
  IF ~warm \/ r.a = Undef THEN "hold"
  ELSE IF held = 0 THEN IF r.a < -1 /\ r.b < -1 THEN "buy"
                        ELSE IF r.a > 1 /\ r.b > 1 THEN "sell" ELSE "hold"
  ELSE Leave(held * r.a > 0 \/ held * r.b > 0)
Roc(held, r) == IF held = 0 THEN Enter(Gt(r.a, 1)) ELSE Leave(Gt(1, r.a))
StochOversoldCross(held, warm, p, r) ==
  IF held = 0 THEN Enter(warm /\ Ge(p.b, p.a) /\ Gt(r.a, r.b) /\ r.a < 2)
  ELSE Leave(Ge(p.a, p.b) /\ Gt(r.b, r.a) /\ r.a > 2)
\* Mutation: the exit wants the cross and the weak trend together.
AdxDiBoth(held, warm, p, r) ==
  IF held = 0 THEN Enter(warm /\ r.a > 1 /\ Ge(p.c, p.b) /\ Gt(r.b, r.c))
  ELSE Leave(r.a < 1 /\ Ge(p.b, p.c) /\ Gt(r.c, r.b))
AdxDiCross(held, warm, p, r) ==
  IF held = 0 THEN Enter(warm /\ r.a > 1 /\ Ge(p.c, p.b) /\ Gt(r.b, r.c))
  ELSE Leave(p # NoReading /\ (r.a < 1 \/ (Ge(p.b, p.c) /\ Gt(r.c, r.b))))
TrendFlip(held, warm, p, r) ==
  IF held = 0 THEN Enter(warm /\ Gt(0, p.a) /\ Gt(r.a, 0)) ELSE Leave(Gt(p.a, 0) /\ Gt(0, r.a))
EmaTrendRsi(held, warm, r) ==
  IF held = 0 THEN Enter(warm /\ r.a = 1 /\ r.b < 1) ELSE Leave(r.b > 1)
BiasReversion(held, warm, r) == IF held = 0 THEN Enter(warm /\ r.a < 1) ELSE Leave(r.a > 1)
Aligned(r) == Gt(r.a, r.b) /\ Gt(r.b, r.c)
EmaTripleAlignment(held, warm, p, r) ==
  IF p = NoReading THEN "hold"
  ELSE IF held = 0 THEN Enter(warm /\ Aligned(r) /\ ~Aligned(p)) ELSE Leave(Gt(r.b, r.a))
IchimokuCloudBreakout(held, warm, p, r) ==
  IF held = 0 THEN Enter(warm /\ Ge(p.b, p.a) /\ Gt(r.a, r.b) /\ r.c = 1) ELSE Leave(Ge(r.b, r.a))
RedStreakRsi(held, warm, r) ==
  Enter(held = 0 /\ warm /\ r.a = 1 /\ r.b < 1 /\ ~AtFinalBar(desk))

\* A dip is remembered whatever is held, and spent by the order it earns.
Dipped(warm, r) == flag \/ (warm /\ r.a < 1)
EmaRsiPullback(held, warm, r) ==
  IF ~warm THEN "hold"
  ELSE IF held # 0 THEN Leave(r.a > 2 \/ r.b < 1)
  ELSE Enter(Dipped(warm, r) /\ r.a > 1 /\ r.b > 1)

\* Armed until an order; armed again by a later flat close beyond the zone.
EmaPullback(held, warm, r) ==
  IF held # 0 THEN Leave(r.b = 1)
  ELSE IF ~(warm /\ flag /\ r.a = 1 /\ r.d = 1 /\ r.c > 0) THEN "hold"
  ELSE IF template = "ema_pullback" THEN "buy" ELSE "sell"

SignalOf(held, warm, p, r) ==
  CASE template \in Crosses -> EmaCross(held, warm, p, r)
    [] template = "macd_above_zero" -> MacdAboveZero(held, warm, p, r)
    [] template = "rsi_reversal" -> RsiReversal(held, warm, r)
    [] template = "bollinger_reversal" -> BollingerReversal(held, r)
    [] template = "bollinger_breakout" -> BollingerBreakout(held, r)
    [] template = "keltner_breakout" -> KeltnerBreakout(held, warm, r)
    [] template = "bollinger_squeeze_breakout" -> BollingerSqueeze(held, warm, r)
    [] template = "breakout" -> Breakout(held, r)
    [] template = "breakout_short" -> BreakoutShort(held, r)
    [] template = "volume_breakout" -> VolumeBreakout(held, warm, r)
    [] template = "cci_rsi" -> CciRsi(held, warm, r)
    [] template = "roc" -> Roc(held, r)
    [] template = "stoch_oversold_cross" -> StochOversoldCross(held, warm, p, r)
    [] template = "adx_di_cross" -> AdxDiCross(held, warm, p, r)
    [] template \in Flips -> TrendFlip(held, warm, p, r)
    [] template = "ema_trend_rsi" -> EmaTrendRsi(held, warm, r)
    [] template = "bias_reversion" -> BiasReversion(held, warm, r)
    [] template = "ema_triple_alignment" -> EmaTripleAlignment(held, warm, p, r)
    [] template = "ichimoku_cloud_breakout" -> IchimokuCloudBreakout(held, warm, p, r)
    [] template = "red_streak_rsi" -> RedStreakRsi(held, warm, r)
    [] template = "ema_rsi_pullback" -> EmaRsiPullback(held, warm, r)
    [] template \in Pullbacks -> EmaPullback(held, warm, r)

\* Mutation: a dip is not spent by its order.
FlagStays(held, warm, r, signal) ==
  CASE template = "ema_rsi_pullback" -> Dipped(warm, r)
    [] template \in Pullbacks /\ signal \in {"buy", "sell"} -> FALSE
    [] template \in Pullbacks /\ held = 0 /\ warm /\ r.c > 1 -> TRUE
    [] OTHER -> flag

FlagAfter(held, warm, r, signal) ==
  CASE template = "ema_rsi_pullback" -> Dipped(warm, r) /\ signal # "buy"
    [] template \in Pullbacks /\ signal \in {"buy", "sell"} -> FALSE
    [] template \in Pullbacks /\ held = 0 /\ warm /\ r.c > 1 -> TRUE
    [] OTHER -> flag

-----------------------------------------------------------------------------
\* What an entry must see again before the next one: the other side of the
\* cross, the flip, the alignment; a dip; a streak from its start; a close beyond the zone.
Grounds(held, warm, p, r) ==
  CASE template \in Crosses \cup {"macd_above_zero", "stoch_oversold_cross"} -> ~Gt(r.a, r.b)
    [] template \in Flips -> r.a < 0
    [] template = "adx_di_cross" -> ~Gt(r.b, r.c)
    [] template = "ema_triple_alignment" -> ~Aligned(r)
    [] template = "ichimoku_cloud_breakout" -> ~Gt(r.a, r.b)
    [] template \in {"ema_rsi_pullback", "red_streak_rsi"} -> r.a < 1
    [] template \in Pullbacks -> held = 0 /\ warm /\ r.c > 1
    [] OTHER -> TRUE

Held(s) == IF s.trades = <<>> THEN 0 ELSE Head(s.trades).side
Warm == desk.bar + 1 >= MinBars

SignalsInit ==
  /\ Init /\ template \in Templates
  /\ prev = NoReading /\ cur = NoReading
  /\ flag = (template \in Pullbacks) /\ ground = (template \in Pullbacks) /\ tied = FALSE

BarOpens ==
  /\ \E k \in Candles, due \in BOOLEAN : BrokerNext(k, due)
  /\ prev' = cur
  /\ \E r \in {x \in Readings : Follows(x)} :
       cur' = IF template \in Rolling /\ desk.bar + 2 < MinBars THEN NoReading ELSE r
  /\ tied' = (tied \/ (cur'.a = cur'.b))
  /\ UNCHANGED <<template, flag, ground>>

\* next(): the exits, then the template's own signal and what it remembers.
Remembers(leaves, signal) ==
  /\ flag' = IF leaves THEN flag ELSE FlagAfter(Held(desk), Warm, cur, signal)
  /\ IF ~leaves /\ signal \in {"buy", "sell"}
     THEN ground' = FALSE /\ tied' = FALSE
     ELSE ground' = (ground \/ Grounds(Held(desk), Warm, prev, cur)) /\ tied' = tied
  /\ cur' = Kept(cur)
  /\ UNCHANGED <<template, prev>>
BarSignals(signal, open) ==
  /\ StrategyNext(signal, open)
  /\ Remembers(CheckExit([desk EXCEPT !.during = "next", !.pending = NoKind]).leaves, signal)
BarDecides(open) == BarSignals(SignalOf(Held(desk), Warm, prev, cur), open)

BarIsBlocked(open) ==
  /\ BlockedNext(open)
  /\ ground' = (ground \/ Grounds(Held(desk), Warm, prev, cur))
  /\ cur' = Kept(cur)
  /\ UNCHANGED <<template, prev, flag, tied>>

SignalsNext ==
  \/ BarOpens
  \/ \E open \in BOOLEAN : BarDecides(open) \/ BarIsBlocked(open)
  \/ Finalize /\ UNCHANGED signals

SignalsSpec == SignalsInit /\ [][SignalsNext]_<<vars, signals>>

-----------------------------------------------------------------------------
HasEntry(s) == \E i \in 1..Len(s.orders) : s.orders[i].kind = "entry"
Asks(signal) == phase = "next" /\ SignalOf(Held(desk), Warm, prev, cur) = signal

\* Every entry is earned anew: between two of them the lines of a cross were on
\* the other side, the trend had turned, an RSI had dipped, a streak had begun or a flat bar had
\* closed beyond the pullback zone - whether the gates let the earlier order
\* through, a stop closed it, or its own exit did.  What is held is bought
\* again only where a tie of the two lines hid the turn.
EarnedStep ==
  \A side \in {"buy", "sell"} :
    (phase = "next" /\ phase' # "next" /\ ~BlockedBar /\ Asks(side)
       /\ (HasEntry(desk') \/ queue'.registered > queue.registered)) =>
    /\ \/ ground \/ Grounds(Held(desk), Warm, prev, cur)
       \/ prev # NoReading /\ Grounds(Held(desk), Warm, NoReading, prev)
    /\ Held(desk) # 0 => tied
EntriesAreEarned == [][EarnedStep]_<<vars, signals>>

\* A template whose entry and exit are the two turns of one level never keeps a
\* position on the wrong side of it, however the turn met the fill; two lines
\* that were equal in between may hide a turn from the crossover templates, and
\* a confirmed entry may come after it.
LeavesWhenItsLevelTurns ==
  (phase \in {"bar", "final"} /\ desk.trades # <<>> /\ layer.confirm = 0) =>
    LET leaves == PendingClose(desk, Head(desk.trades), NoOrder)
    IN /\ template \in Flips /\ cur.a < 0 => leaves
       /\ template \in Crosses /\ ~tied /\ cur.a < cur.b => leaves
       /\ template \in {"macd_above_zero"} /\ cur.a < cur.b => leaves
       /\ template = "adx_di_cross" /\ (cur.b < cur.c \/ cur.a < 1) => leaves

\* No entry is placed before min_bars bars, guarded or by lines not yet known.
NothingEntersCold ==
  \A i \in 1..Len(desk.trades) : desk.trades[i].opened + 1 > MinBars
=============================================================================
