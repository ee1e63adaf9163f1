--------------------------- MODULE ArtifactReplay --------------------------
(***************************************************************************)
(* How a compiled strategy gets its data (_replay_validated_artifact): the  *)
(* preflight of the declared warm-up, the fetch of the primary candles and  *)
(* of one more stream, the coverage check, the frames, and the references   *)
(* of a decision to earlier frames.  One unit of time is a primary candle,  *)
(* a row is the time it opens, a value is the set of rows it was made from. *)
(***************************************************************************)
EXTENDS Integers, FiniteSets, FiniteSetsExt

CONSTANTS
  Coarse,        \* primary candles in a bucket of the coarse interval
  Requests,      \* the requests
  HolesOf(_),    \* the rows a source may lack
  RsiFactor,     \* source bars an rsi needs per period (10)
  MaxRange       \* EXECUTION_MAX_RANGE_DAYS

VARIABLES
  request,       \* [start, end, primary, warm, features]: primary and warm are
                 \* the declared warmup_bars of the candles and of the stream
  hole,          \* the row no source has, or -1
  candles,       \* primary rows fetched
  stream,        \* rows of the other stream
  seen,          \* feature -> frame -> rows its value is made from
  stage

artifactVars == <<request, hole, candles, stream, seen, stage>>

\* A feature reads the primary candles ("primary"), buckets of them ("derived"),
\* a metric of either interval ("metric", "daily") or another stream.
Step(f) == IF f.source \in {"derived", "daily"} THEN Coarse ELSE 1
Streams(r) == {f \in r.features : f.source # "primary"}
IsMetric(f) == f.source \in {"metric", "daily"}

\* per_feature_lag_needs, max_primary_lag_frames: a cross looks one frame further back.
Need(f) == f.lag + IF f.cross THEN 1 ELSE 0
LagFrames(r) == Max({Need(f) : f \in r.features})

\* primitive_lookback_bars
Lookback(f) ==
  CASE f.primitive = "rsi_wilder" -> f.window + 1
    [] f.primitive = "rolling_quantile" -> f.min_periods
    [] OTHER -> f.window
\* _primitive_warmup_floor
WarmupFloor(f) ==
  CASE f.primitive \in {"rolling_sum", "rolling_extreme", "rolling_mean"} -> f.window
    [] f.primitive = "rolling_quantile" -> f.min_periods
    [] f.primitive = "rsi_wilder" -> RsiFactor * f.window
    [] OTHER -> 0

Recursive == {"rsi_wilder", "ema"}
History == Recursive \cup {"rolling_zscore", "rolling_mean"}

Floor(t, step) == (t \div step) * step
BucketStart(r, step) == Floor(r.start, step) - r.warm * step

\* Mutation: only the declared warm-up.
FramesDeclared(r) == r.start - r.primary
\* primary_frames_start
FramesStart(r) == r.start - Max({r.primary, LagFrames(r)})
\* metrics_asof_anchor: the latest point that is closed when the frame closes.
Anchor(open, step) == Floor(open + 1, step) - step

\* metrics_asof_fetch_window, its start.
MetricStart(r) ==
  LET step == Step(CHOOSE f \in Streams(r) : TRUE)
      lookback == Max({Max({Lookback(f), f.window}) : f \in Streams(r)})
  IN Min({BucketStart(r, step), Anchor(FramesStart(r), step) - (lookback - 1) * step})

-----------------------------------------------------------------------------
(* Compilation and preflight.                                              *)

\* capability_payload: the primitives offered of a source.
Capable(f) ==
  CASE f.source \in {"primary", "derived"} -> f.primitive # "rolling_sum"
    [] f.source = "stream" -> f.primitive \notin {"ema", "rolling_zscore"}
    [] OTHER -> f.primitive \in {"rolling_sum", "rolling_extreme", "rolling_mean"}

\* _validate_kline_primary_requirements, passthrough
PassthroughFits(r, f) ==
  /\ f.primitive \in {"ema", "rolling_zscore", "rolling_mean"} => r.primary >= Lookback(f)
  /\ f.primitive \in History /\ Need(f) > 0 => r.primary >= Lookback(f) - 1 + Need(f)
  /\ f.primitive = "rolling_extreme" => f.window = 1
  /\ f.primitive = "rolling_quantile" => f.min_periods = 1
\* ... and coarse
DerivedFits(r, f) ==
  /\ f.primitive = "rolling_extreme" => r.warm >= f.window
  /\ f.primitive \in {"ema", "rolling_zscore", "rolling_mean", "rolling_quantile"} =>
       r.warm >= Lookback(f)
\* _validate_rsi_warmup
RsiFits(r, f) ==
  f.primitive = "rsi_wilder" =>
    (IF f.source = "primary" THEN r.primary ELSE r.warm) >= RsiFactor * f.window
Compiles(r) ==
  \A f \in r.features :
    /\ Capable(f) /\ RsiFits(r, f)
    /\ f.source = "primary" => PassthroughFits(r, f)
    /\ f.source = "derived" => DerivedFits(r, f)

\* validate_execution_request: the additive floor, no lag on coarse candles.
WarmupDeclared(r, f) ==
  f.source \in {"primary", "daily"}
    \/ /\ Step(f) = 1 \/ Need(f) = 0
       /\ r.warm >= WarmupFloor(f) + Need(f)
\* ... and the range budget of every stream with its warm-up
Budget(r) ==
  /\ r.end - FramesStart(r) <= MaxRange
  /\ \A f \in Streams(r) :
       LET plain == r.start - r.warm * Step(f)
       IN IF IsMetric(f) THEN Floor(r.end, Step(f)) - Min({plain, MetricStart(r)}) <= MaxRange
          ELSE r.end - plain <= MaxRange
-----------------------------------------------------------------------------
(* The fetches.                                                            *)

Klines(lo, hi) == (lo..(hi - 1)) \ {hole}
\* _assert_contiguous; an empty answer is refused too.
Whole(rows, step) == rows # {} /\ Cardinality(rows) = (Max(rows) - Min(rows)) \div step + 1

\* The candles reach back for the lags, and for the buckets a bucket further.
PrimaryStart(r) ==
  Min({FramesStart(r)} \cup {BucketStart(r, Coarse) - Coarse : f \in {g \in r.features : g.source = "derived"}})

\* An rsi stays on its declared window, its seed must not move.
Anchored(r) == \E f \in Streams(r) : f.primitive = "rsi_wilder"

\* [declared start, fetch start, end] of the stream.
StreamWindow(r) ==
  LET f == CHOOSE g \in Streams(r) : TRUE
      declared == r.start - r.warm
      lagging == r.start - LagFrames(r)
  IN IF f.source = "derived" THEN <<BucketStart(r, Coarse), BucketStart(r, Coarse), r.end>>
     ELSE IF IsMetric(f) THEN <<MetricStart(r), MetricStart(r), Floor(r.end, Step(f))>>
     ELSE <<declared, IF Anchored(r) THEN declared ELSE Min({declared, lagging}), r.end>>

\* ohlcv_resample: buckets all of whose candles are there.
Buckets(rows) == {b \in rows : b % Coarse = 0 /\ b..(b + Coarse - 1) \subseteq rows}

\* _derive_kline_primary_feature_rows
Derived(lo, hi) == {b \in Buckets(candles) : lo <= b /\ b < hi}
\* _fetch_metric_series: its chunks end before the next begins.
Points(lo, hi, step) == {t \in lo..(hi - 1) : t % step = 0} \ {hole}

StreamRows(r) ==
  LET f == CHOOSE g \in Streams(r) : TRUE
      w == StreamWindow(r)
  IN IF f.source = "derived" THEN Derived(w[2], w[3]) ELSE Points(w[2], w[3], Step(f))

\* build_coverage_manifest: the declared range, complete to the last row.
Covers(rows, lo, hi, step) ==
  LET declared == {t \in rows : t >= lo}
  IN /\ (hi - lo) % step = 0 /\ declared # {}
     /\ Min(declared) <= lo /\ Max(rows) + step >= hi
     /\ Cardinality(declared) = (hi - lo) \div step
RequiredEnd(r, f) == IF f.source = "stream" THEN r.end ELSE Floor(r.end, Step(f))
Frames(r) == {t \in candles : t >= FramesStart(r)}
Covered(r) ==
  /\ Covers(Frames(r), r.start - r.primary, r.end, 1)
  /\ \A f \in Streams(r) : Covers(stream, StreamWindow(r)[1], RequiredEnd(r, f), Step(f))

-----------------------------------------------------------------------------
(* The frames and the decisions.                                           *)

\* Mutation: the row before the anchor ends the window.
WindowBefore(rows, anchor, step, n) ==
  {anchor - k * step : k \in 1..n} \cap (Min(rows)..Max(rows))
\* _stream_lookback: rows before the first fetched are short history, no gap.
Window(rows, anchor, step, n) ==
  {anchor - k * step : k \in 0..(n - 1)} \cap (Min(rows)..Max(rows))
\* _rsi_wilder_series and its like: a chain from the first row fetched.
Seeded(f, rows, anchor) ==
  LET upto == {t \in rows : t <= anchor}
  IN IF anchor \in rows /\ Cardinality(upto) >= Lookback(f) THEN upto ELSE {}
\* _evaluate_windowed_primitive: a full window, or min_periods of a quantile.
Windowed(f, rows, anchor) ==
  LET used == Window(rows, anchor, Step(f), f.window)
  IN IF Cardinality(used) >= IF f.primitive = "rolling_quantile" THEN f.min_periods ELSE f.window
     THEN used ELSE {}
\* The value of a feature on the frame that opens at open; {}: there is none.
Value(r, f, open) ==
  LET rows == IF f.source = "primary" THEN Frames(r) ELSE stream
  IN IF f.primitive \in Recursive THEN Seeded(f, rows, Anchor(open, Step(f)))
     ELSE Windowed(f, rows, Anchor(open, Step(f)))

\* Only the history of the candles themselves may lack a value, and only as
\* long as the declared warm-up lasts.
MayLack(r, f, open) ==
  /\ f.source = "primary" /\ f.primitive \in History
  /\ open - Min(Frames(r)) < r.primary

\* StrategyKernel._value: a reference counts frames back, a cross one more.
References(r, f, open) == {open - f.lag, open - Need(f)}
Decided(r) == {t \in Frames(r) : t >= r.start}

Moves(s) == stage' = s
ArtifactInit ==
  /\ request \in Requests /\ hole = -1 /\ stage = "received"
  /\ candles = {} /\ stream = {} /\ seen = <<>>

Validate ==
  /\ stage = "received"
  /\ IF Compiles(request) /\ Budget(request) /\ \A f \in request.features : WarmupDeclared(request, f)
     THEN hole' \in {-1} \cup HolesOf(request) /\ Moves("admitted")
     ELSE hole' = hole /\ Moves("rejected")
  /\ UNCHANGED <<request, candles, stream, seen>>
FetchPrimary ==
  /\ stage = "admitted"
  /\ candles' = Klines(PrimaryStart(request), request.end)
  /\ Moves(IF Whole(candles', 1) THEN "candles" ELSE "no_data")
  /\ UNCHANGED <<request, hole, stream, seen>>
FetchStream ==
  /\ stage = "candles" /\ Streams(request) # {}
  /\ stream' = StreamRows(request)
  /\ Moves(IF Whole(stream', Step(CHOOSE f \in Streams(request) : TRUE)) THEN "fetched" ELSE "no_data")
  /\ UNCHANGED <<request, hole, candles, seen>>
Cover ==
  /\ \/ stage = "fetched"
     \/ stage = "candles" /\ Streams(request) = {}
  /\ Moves(IF Covered(request) THEN "covered" ELSE "uncovered")
  /\ UNCHANGED <<request, hole, candles, stream, seen>>
BuildFrames ==
  /\ stage = "covered"
  /\ seen' = [f \in request.features |-> [open \in Frames(request) |-> Value(request, f, open)]]
  /\ Moves(IF \A f \in request.features, open \in Frames(request) :
                 seen'[f][open] # {} \/ MayLack(request, f, open)
           THEN "framed" ELSE "no_window")
  /\ UNCHANGED <<request, hole, candles, stream>>
\* Every reference of every decision, as if no condition were cut short.
Decide ==
  /\ stage = "framed"
  /\ Moves(IF \A f \in request.features, open \in Decided(request) :
                 \A t \in References(request, f, open) : t \in Frames(request) /\ seen[f][t] # {}
           THEN "replayed" ELSE "no_lag")
  /\ UNCHANGED <<request, hole, candles, stream, seen>>

ArtifactSteps == Validate \/ FetchPrimary \/ FetchStream \/ Cover \/ BuildFrames \/ Decide

-----------------------------------------------------------------------------
\* What the fetch asks for is what the coverage check demands: a source that
\* has every row never makes an admitted run fail as incomplete, and a source
\* with a hole in the declared range never gets past the check.
CoverageMatchesTheFetch ==
  /\ hole = -1 => stage \notin {"no_data", "uncovered"}
  /\ stage \in {"covered", "framed", "replayed"} =>
       ~ \E t \in (request.start - request.primary)..(request.end - 1) : t = hole

\* The stream's declared warm-up serves the primary warm-up frames as well.
Serves(r) ==
  \A f \in Streams(r) : f.source = "stream" =>
    r.warm >= r.start - FramesStart(r) + Lookback(f) - 1
ServesBuckets(r) ==
  \A f \in Streams(r) : f.source = "derived" =>
    BucketStart(r, Coarse) <= Anchor(FramesStart(r), Coarse) - (Lookback(f) - 1) * Coarse

\* An admitted request whose source has every row reaches its last decision:
\* no frame lacks a value and no reference to an earlier frame finds none.
Replays(cond) == stage \in {"no_window", "no_lag"} => ~(hole = -1 /\ cond)
ServedRequestsReplay == Replays(Serves(request) /\ ServesBuckets(request))
AdmittedRequestsReplay == Replays(TRUE)

\* A value is made of rows that have closed with the frame, the newest one of
\* them included, and of as many as its window says.
FramesReadTheLatestClosed ==
  stage \in {"framed", "replayed"} =>
    \A f \in request.features, open \in Frames(request) :
      LET used == seen[f][open] IN
      used # {} =>
        /\ Max(used) + Step(f) <= open + 1 /\ Max(used) + 2 * Step(f) > open + 1
        /\ f.primitive \in {"rolling_sum", "rolling_extreme", "rolling_mean", "rolling_zscore"} =>
             Cardinality(used) = f.window
        /\ Cardinality(used) = (Max(used) - Min(used)) \div Step(f) + 1

\* No fetch is longer than the budget the preflight checked: a lag buys no more
\* than the request's range, buckets at most two buckets more.
FetchesStayInBudget ==
  stage \in {"candles", "fetched"} =>
    /\ candles # {} => request.end - Min(candles) <= MaxRange + 2 * Coarse
    /\ (candles # {} /\ \A f \in request.features : f.source # "derived") =>
         request.end - Min(candles) <= MaxRange
    /\ stream # {} => Max(stream) - Min(stream) < MaxRange + Coarse
=============================================================================
