------------------------------ MODULE GapMasks -----------------------------
(***************************************************************************)
(* Single-asset templates on a range with missing candles: run_backtest     *)
(* (cutie_backtesting_provider.py) refuses a range that lacks too many and   *)
(* masks the entries a missing candle could reach, differently for the VWAP  *)
(* template (whole days), the range breakout (whole cycles), the calendar    *)
(* schedule (days and holding windows) and the entry filters (the bars that  *)
(* warm the indicators again).                                               *)
(* Time is counted in candles: candle s opens at s and is decided at s + 1;  *)
(* the run begins at 0, `off` candles into a day of DayLength candles.       *)
(***************************************************************************)
EXTENDS Integers, Sequences, FiniteSets, FiniteSetsExt, SequencesExt

CONSTANTS
  DayLength,          \* candles of a day, and of a local cycle
  End,                \* the last candle of the run
  Prefix,             \* candles the source may hold before the run
  MaxMissing,         \* bound: candles the source lacks
  MaxRun,             \* _htf_max_gap_bars
  TolNum, TolDen,     \* CENTRAL_GAP_TOLERANCE_RATIO
  Configs             \* [family, off, required, from, until, hold, lacks]

VARIABLES
  cfg,                \* the request
  world,              \* candles the source has
  phase,              \* "asked", "refused", "running", "died", "done"
  i,                  \* the bar being processed
  order,              \* market order waiting for the next open
  pos,                \* open position
  used,               \* cycles or events that had their entry
  trade               \* the trade closed last

gapVars == <<cfg, world, phase, i, order, pos, used, trade>>

Family == cfg.family
Day(t) == (t + cfg.off) \div DayLength
DayStart(t) == Day(t) * DayLength - cfg.off
\* The bars of the run, from index 0.
Sorted(S) == SelectSeq([k \in 1..(Prefix + End + 1) |-> k - Prefix - 1], LAMBDA s : s \in S)
Main == {s \in world : s >= 0}
Bars == Sorted(Main)
Slot(b) == Bars[b + 1]
Count == Cardinality(Main)
\* Holes between the first and the last candle of S.
Holes(S) == {t \in Min(S)..Max(S) : t \notin S}
Tolerated(S) == Cardinality(S) * TolDen >= (Cardinality(S) + Cardinality(Holes(S))) * TolNum

-----------------------------------------------------------------------------
(* The history in front of the run.                                         *)

\* Bars asked of _fetch_template_warmup.
WarmupBars ==
  CASE Family = "vwap" -> Max({2, cfg.required, (Min(Main) + cfg.off) % DayLength})
    [] Family \in {"range", "calendar"} -> cfg.required
    [] OTHER -> Max({2, cfg.required})
Warm ==
  LET before == Sorted({s \in world : s < Min(Main)})
      n == Min({WarmupBars, Len(before)})
  IN ToSet(SubSeq(before, Len(before) - n + 1, Len(before)))
\* _fetch_strict_time_history: the range templates read back to their cycle's start.
History == {s \in world : s >= DayStart(0)}
Strict == DayStart(0) \in world /\ End \in world

-----------------------------------------------------------------------------
(* What a hole masks.                                                       *)

\* UTC days of the VWAP template that lack a candle.
GapDays == {Day(t) : t \in Holes(Main)}
\* Local cycles of the range template: a hole masks its own cycle, and the one
\* before when that one's flatten order fills in the missing candle.
MaskedCycles ==
  {Day(t) : t \in Holes(History)}
  \cup {Day(t) - 1 : t \in {h \in Holes(History) :
                              Day(h - 1) # Day(h) /\ h <= DayStart(h - 1) + cfg.until}}
\* latest_exit_fill of a calendar entry.
Cutoffs(from) == {t \in from..(End + 2 * DayLength) : (t + cfg.off) % DayLength = cfg.until % DayLength}
LatestExitFill(entry) ==
  Min((IF cfg.hold > 0 THEN {Max({entry + cfg.hold, entry + 1})} ELSE {})
      \cup (IF cfg.until >= 0 THEN {Max({Min(Cutoffs(entry)), entry + 1})} ELSE {}))
\* _gap_mask_reason
GapMasked(event) ==
  \/ Day(event) \in GapDays
  \/ \E t \in Holes(Main) : event - 1 <= t /\ t <= LatestExitFill(event)
\* The entry filters' mask over the warm-up and the run: cold at the head of a series
\* (entry_mask), and again from the bar before each hole (_filter_init).
FilterFrom == Cardinality(Warm)
GapStarts == {b \in 1..(Count - 1) : Slot(b) # Slot(b - 1) + 1}
Warmed(b) == FilterFrom + b >= cfg.required - 1
\* Mutation: warmed again one bar too early.
FilterMaskShort(b) ==
  /\ Warmed(b)
  /\ \A g \in GapStarts : ~(g - 1 <= b /\ b < g + cfg.required - 2)
FilterMask(b) ==
  /\ Warmed(b)
  /\ \A g \in GapStarts : ~(g - 1 <= b /\ b < g + cfg.required - 1)
FilterAllows(b) == cfg.required = 0 \/ (b < Count - 1 /\ FilterMask(b))

\* The bars the VWAP accumulates: from midnight of the first day, when its candles
\* are all there, and else from the next day; never a day that lacks one.
VwapHistory ==
  LET midnight == DayStart(Min(Main))
      history == {s \in Warm : s >= midnight} \cup Main
      first == {s \in history : s < midnight + DayLength}
  IN IF Min(history) = midnight /\ Holes(first) = {} THEN history
     ELSE {s \in Main : s >= midnight + DayLength}
Valued == {s \in VwapHistory : Day(s) \notin GapDays}
\* prefix_vwap fails a run of bars that does not begin with its day.
VwapDies == \E s \in Valued : s - 1 \notin Valued /\ s # DayStart(s)

\* The closed candle of the filter's own timeframe (here a day) that each bar reads.
Latest(s) == Day(s + 1) - 1
HtfExpected == (Latest(Min(Main)) - cfg.required + 1)..Latest(Max(Main))
HtfActual == HtfExpected \ cfg.lacks
HtfReads(s) == Max({k \in HtfActual : k <= Latest(s)})
HtfRefused ==
  \/ HtfActual = {}
  \/ Cardinality(HtfActual) * TolDen < Cardinality(HtfExpected) * TolNum
  \/ \E k \in HtfExpected : k + MaxRun \in HtfExpected /\ k..(k + MaxRun) \cap HtfActual = {}
  \/ \E s \in Main : Cardinality({k \in HtfActual : k <= Latest(s)}) < cfg.required

-----------------------------------------------------------------------------
(* The run.                                                                 *)

None == [kind |-> "none"]
GapInit ==
  /\ cfg \in Configs
  /\ world \in {(-Prefix..End) \ lack : lack \in UNION {kSubset(n, -Prefix..End) : n \in 0..MaxMissing}}
  /\ phase = "asked" /\ i = 0 /\ order = None /\ pos = None /\ used = {} /\ trade = None

\* What run_backtest refuses, from the fetch to the engine.
RangeRefused == Family = "range" /\ (~Strict \/ ~Tolerated(History))
MainRefused == Family \in {"vwap", "calendar"} /\ ~Tolerated(Main)
FilterRefused ==
  /\ cfg.required > 0 /\ Family # "htf"
  /\ \/ Warm # {} /\ Holes(Warm \cup {Min(Main)}) # {}
     \/ ~Tolerated(Main)
     \/ Cardinality(Warm) + Count < cfg.required
Refused ==
  Count < 2 \/ RangeRefused \/ MainRefused \/ (Family = "htf" /\ HtfRefused) \/ FilterRefused
\* The gate of the entry filters; the coarse one has its own history.
Allows(b) ==
  IF Family = "htf" THEN b < Count - 1 ELSE FilterAllows(b)
Judge ==
  /\ phase = "asked"
  /\ phase' = CASE Refused -> "refused" [] ~Refused /\ Family = "vwap" /\ VwapDies -> "died" [] OTHER -> "running"
  /\ i' = 1
  \* The calendar's event on the second bar is decided before the first open.
  /\ \E take \in BOOLEAN :
       LET event == IF Count < 2 THEN 0 ELSE Slot(1)
           due == Family = "calendar" /\ phase' = "running" /\ (event + cfg.off) % DayLength = cfg.from
       IN /\ take => due /\ ~GapMasked(event) /\ Allows(0)
          /\ used' = IF due THEN {event} ELSE {}
          /\ order' = IF take THEN [kind |-> "entry", sig |-> Slot(0)] ELSE None
  /\ UNCHANGED <<cfg, world, pos, trade>>

\* The broker at the open of bar i: the order is filled, or cancelled when the open
\* is on the wrong side of its stop, and a protective order may close the position.
Closed(p, at) == [kind |-> "trade", sig |-> p.sig, fill |-> p.fill, exit |-> at]
Filled(cancelled) ==
  IF order.kind = "entry" /\ ~cancelled THEN [kind |-> "held", sig |-> order.sig, fill |-> Slot(i)]
  ELSE IF order.kind = "exit" THEN None ELSE pos
\* Only these templates look at the open before their order is filled.
MayCancel == order.kind = "entry" /\ Family \in {"vwap", "calendar"}
Process(cancelled, stopped) ==
  /\ cancelled => MayCancel
  /\ stopped => Filled(cancelled) # None
  /\ pos' = IF stopped THEN None ELSE Filled(cancelled)
  /\ trade' = CASE stopped -> Closed(Filled(cancelled), Slot(i))
                [] ~stopped /\ order.kind = "exit" -> Closed(pos, Slot(i))
                [] OTHER -> trade

\* expiry_due at the close of bar i.
Due(p) ==
  \/ cfg.hold > 0 /\ Slot(i) + 1 - p.fill >= cfg.hold
  \/ cfg.until >= 0 /\ \E t \in Cutoffs(p.fill) : t <= Slot(i) + 1
AtLastBar == i = Count - 1
Leave == order' = [kind |-> "exit"]
Enter == order' = [kind |-> "entry", sig |-> Slot(i)]
Stay == order' = None
Running == phase = "running" /\ i < Count

\* Every next() runs after the broker; a position leaves when it is due, or when
\* the template wants to.
NextHeld(wants) ==
  /\ pos' # None
  /\ IF (Due(pos') /\ ~AtLastBar) \/ wants THEN Leave ELSE Stay
VwapBar ==
  /\ Running /\ Family = "vwap"
  /\ \E cancelled, stopped, signal \in BOOLEAN :
       /\ Process(cancelled, stopped)
       /\ \/ NextHeld(signal /\ Slot(i) \in Valued)
          \/ /\ pos' = None
             /\ IF /\ signal /\ Slot(i) \in Valued /\ ~AtLastBar
                   /\ Day(Slot(i) + 1) = Day(Slot(i)) /\ Allows(i)
                THEN Enter ELSE Stay
  /\ i' = i + 1
  /\ UNCHANGED <<cfg, world, phase, used>>
RangeDies ==
  /\ Day(Slot(i)) \notin MaskedCycles /\ Slot(i) + 1 >= DayStart(Slot(i)) + cfg.from
  /\ \E t \in DayStart(Slot(i))..(DayStart(Slot(i)) + cfg.from - 1) : t \notin History
RangeBar ==
  /\ Running /\ Family = "range"
  /\ \E stopped, signal \in BOOLEAN :
       LET cycle == Day(Slot(i))
           at == Slot(i) + 1 - DayStart(Slot(i))
           breaks == /\ signal /\ cycle \notin MaskedCycles \cup used
                     /\ ~AtLastBar /\ cfg.from <= at /\ at < cfg.until
       IN /\ Process(FALSE, stopped)
          /\ \/ NextHeld(FALSE) /\ used' = used
             \/ /\ pos' = None
                /\ used' = IF breaks THEN used \cup {cycle} ELSE used
                /\ IF breaks /\ Allows(i) THEN Enter ELSE Stay
  /\ phase' = IF RangeDies THEN "died" ELSE phase
  /\ i' = i + 1
  /\ UNCHANGED <<cfg, world>>
CalendarBar ==
  /\ Running /\ Family = "calendar"
  /\ \E cancelled, stopped \in BOOLEAN :
       LET event == Slot(i) + 1
           due == (event + cfg.off) % DayLength = cfg.from /\ event \notin used
       IN /\ Process(cancelled, stopped)
          /\ used' = IF due THEN used \cup {event} ELSE used
          /\ \/ NextHeld(FALSE)
             \/ /\ pos' = None
                /\ IF due /\ ~AtLastBar /\ ~GapMasked(event) /\ Allows(i) THEN Enter ELSE Stay
  /\ i' = i + 1
  /\ UNCHANGED <<cfg, world, phase>>
\* Any other template, for the sake of its entry filter.
FilteredBar ==
  /\ Running /\ Family \in {"filtered", "htf"}
  /\ \E stopped, signal \in BOOLEAN :
       /\ Process(FALSE, stopped)
       /\ \/ NextHeld(signal)
          \/ pos' = None /\ IF signal /\ Allows(i) THEN Enter ELSE Stay
  /\ i' = i + 1
  /\ UNCHANGED <<cfg, world, phase, used>>
\* The last close settles what is open.
Settle ==
  /\ phase = "running" /\ i = Count
  /\ phase' = "done" /\ pos' = None /\ order' = None
  /\ trade' = IF pos = None THEN trade ELSE Closed(pos, Max(Main))
  /\ UNCHANGED <<cfg, world, i, used>>

GapSteps == Judge \/ VwapBar \/ RangeBar \/ CalendarBar \/ FilteredBar \/ Settle

-----------------------------------------------------------------------------
Entered == {x \in {pos, trade} : x # None}
\* No entry is decided on candles with a hole between them, nor filled across one:
\* not the VWAP's from its midnight, the range's from its cycle's start, nor the
\* bars that warm an entry filter; a coarse filter reads a closed candle that at
\* most MaxRun missing ones follow.
EntriesReadNoHole ==
  \A x \in Entered :
    /\ Family \in {"vwap", "range"} => DayStart(x.sig)..x.fill \subseteq world
    /\ Family = "calendar" => x.sig..x.fill \subseteq world
    /\ Family = "htf" => Latest(x.sig) - HtfReads(x.sig) <= MaxRun
    /\ cfg.required > 0 /\ Family # "htf" => (x.sig - cfg.required + 1)..x.fill \subseteq world

\* A position of the range and calendar templates is never held across a missing
\* candle: its exit order finds the very next one.
HoldingsCrossNoHole ==
  Family \in {"range", "calendar"} /\ trade # None => trade.fill..trade.exit \subseteq world

\* A range that was accepted does not fail later on the holes that were tolerated.
AcceptedRunsEnd == phase # "died"
=============================================================================
