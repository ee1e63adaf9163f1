----------------------------- MODULE MCDataPath ----------------------------
(***************************************************************************)
(* The ways of the data, each on its own:                                  *)
(*   rows      of a template run: two grids on the epoch and a shifted     *)
(*             one, ranges of one to four chunks, two candles missing      *)
(*   streams   of a compiled strategy: every offered primitive on every    *)
(*             kind of source, one more feature that looks back, declared  *)
(*             warm-ups below, at and above what is needed, one row missing *)
(*   cache     of the rows: two threads, three keys, room for one file,    *)
(*             directories an earlier deployment left                      *)
(*   holes     in the rows, and the templates that mask them: two days of  *)
(*             four candles after half a day, three candles missing        *)
(*   local     candles and results of the Freqtrade provider: three run    *)
(*             ids, two ranges, three data directories                     *)
(***************************************************************************)
EXTENDS CandleFetch, OhlcvStore

VARIABLES
  path,
  request, hole, candles, stream, seen, step,
  cfg, world, gapPhase, bar, order, pos, used, trade,
  writesTo, tells, localFiles, asks, now, served, localClock, dirs, shared, reports, kept, answer

Grid(s, o) == [step |-> s, offset |-> o]
RunGrids == {Grid(2, 0), Grid(4, 0), Grid(6, 4)}
RunStarts == {12, 14, 16, 18}
RunEnds == {19, 30, 33, 41, 44}
OnEpoch == {Grid(2, 0), Grid(4, 0)}
ASSUME FetchAssumed == FetchAssumption

Feature(s, p, w, m, l, c) ==
  [source |-> s, primitive |-> p, window |-> w, min_periods |-> m, lag |-> l, cross |-> c]
Shapes == {<<"rolling_extreme", 1, 1>>, <<"rolling_extreme", 2, 2>>, <<"rolling_sum", 2, 2>>,
           <<"rolling_mean", 2, 2>>, <<"rolling_zscore", 2, 2>>, <<"rolling_quantile", 2, 1>>,
           <<"rolling_quantile", 3, 2>>, <<"rsi_wilder", 2, 2>>, <<"ema", 2, 2>>, <<"ema", 3, 3>>}
Firsts == {Feature(s, x[1], x[2], x[3], l[1], l[2]) :
             s \in {"primary", "derived", "metric", "daily", "stream"}, x \in Shapes,
             l \in {<<0, FALSE>>, <<1, FALSE>>, <<1, TRUE>>}}
FeatureSets(f) ==
  {{f}, {f, Feature("primary", "rolling_extreme", 1, 1, 3, FALSE)},
   {f, Feature(f.source, "rolling_extreme", 1, 1, 2, FALSE)}}
RunRequests ==
  {[start |-> s, end |-> s + n, primary |-> p, warm |-> w, features |-> fs] :
     s \in 36..38, n \in {2, 4, 13}, p \in {0, 2, 4, 5}, w \in {0, 2, 4, 6},
     fs \in UNION {FeatureSets(f) : f \in Firsts}}
RunHoles(r) == {r.start - 5, r.start - 1, r.start, r.end - 1}

A == INSTANCE ArtifactReplay WITH
  Coarse <- 3, Requests <- RunRequests, HolesOf <- RunHoles, RsiFactor <- 2,
  MaxRange <- 15, stage <- step

replayVars == <<request, hole, candles, stream, seen, step>>
gapVars == <<cfg, world, gapPhase, bar, order, pos, used, trade>>
freqVars == <<writesTo, tells, localFiles, asks, now, served, localClock, dirs, shared, reports, kept,
              answer>>

EarlierCaches == {<<>>, [k1 |-> "ccxt"], [k1 |-> "central"]}
ASSUME StoreAssumed == StoreAssumption

Config(family, off, required, from, until, hold) ==
  [family |-> family, off |-> off, required |-> required, from |-> from, until |-> until,
   hold |-> hold, lacks |-> {}]
RunConfigs ==
  {Config("vwap", off, required, 0, 0, 0) : off \in {0, 2}, required \in {0, 3}}
  \cup {Config("range", off, required, 1, until, 0) :
           off \in {0, 2}, required \in {0, 2}, until \in {3, 4}}
  \cup {Config("calendar", 2, required, from, until, 2) :
           required \in {0, 2}, from \in {0, 1, 3}, until \in {-1, 3}}
  \cup {Config("calendar", 0, 0, from, 2, 0) : from \in {1, 3}}
  \cup {Config("filtered", 0, required, 0, -1, 0) : required \in {2, 3}}
  \cup {[Config("htf", off, required, 0, -1, 0) EXCEPT !.lacks = lack] :
           off \in {0, 2}, required \in {1, 2}, lack \in SUBSET {-1, 0, 1}}
G == INSTANCE GapMasks WITH
  DayLength <- 4, End <- 8, Prefix <- 2, MaxMissing <- 3, MaxRun <- 1, TolNum <- 3, TolDen <- 4,
  Configs <- RunConfigs, phase <- gapPhase, i <- bar

Trade(c, p, m) == [at |-> c, profit |-> p, mine |-> m]
Daily(d, p, f) == [at |-> d, profit |-> p, form |-> f]
Told(ts, ds) == [trades |-> ts, daily |-> ds]
\* Trades out of order, one without a close, and daily profits of another form; the same
\* with daily profits, the first and the last of a day that cannot be read.  By hand, on
\* two pairs.
Trades == <<Trade(5, -1, TRUE), Trade(2, 3, TRUE), Trade(-1, 9, TRUE), Trade(3, 4, TRUE)>>
RunLedgers ==
  {Told(Trades, <<Daily(0, 7, "dict"), Daily(4, -1, "dict")>>),
   Told(Trades \o <<Trade(8, 2, TRUE), Trade(13, 5, TRUE)>>,
        <<Daily(0, 7, "undated"), Daily(4, -1, "list"), Daily(8, 2, "list"), Daily(12, 5, "undated")>>)}
ByHandLedgers == {Told(<<Trade(1, 2, TRUE), Trade(2, 5, FALSE)>>, <<>>)}
Local(f, a, b) == [format |-> f, first |-> a, end |-> b]
Q == INSTANCE FreqtradeRun WITH
  Ranges <- {[start |-> 1, end |-> 4], [start |-> 1, end |-> 8]},
  DataFiles <- {<<>>, <<Local("feather", -1, 0), Local("json", 0, 4)>>,
                <<Local("feather", 3, 4), Local("json", 0, 6)>>},
  Ledgers <- RunLedgers, HandLedgers <- ByHandLedgers, DayLength <- 4,
  MaxReports <- 4, MaxAsks <- 3, MaxManual <- 1, phase <- served,
  files <- localFiles, clock <- localClock
ASSUME LocalAssumed == Q!LedgersAgree

-----------------------------------------------------------------------------
NoRows ==
  /\ ask = <<>> /\ chunks = <<>> /\ since = 0 /\ rows = <<>> /\ holes = {} /\ main = <<>>
  /\ stage = "error"
NoStreams ==
  /\ step = "rejected" /\ candles = {} /\ stream = {} /\ seen = <<>> /\ hole = -1
  /\ request = <<>>
NoCache == StoreInit /\ files = <<>>
NoHoles ==
  /\ cfg = <<>> /\ world = {} /\ gapPhase = "done" /\ bar = 0 /\ order = <<>> /\ pos = <<>>
  /\ used = {} /\ trade = <<>>
NoLocal ==
  /\ writesTo = "none" /\ tells = <<>> /\ localFiles = <<>> /\ asks = 0 /\ now = <<>> /\ served = "none"
  /\ localClock = 0 /\ dirs = <<>> /\ shared = {} /\ reports = <<>>
  /\ kept = <<>> /\ answer = <<>>

DataInit ==
  \/ path = "rows" /\ FetchInit /\ NoStreams /\ NoCache /\ NoHoles /\ NoLocal
  \/ path = "streams" /\ NoRows /\ A!ArtifactInit /\ NoCache /\ NoHoles /\ NoLocal
  \/ path = "cache" /\ NoRows /\ NoStreams /\ StoreInit /\ NoHoles /\ NoLocal
  \/ path = "holes" /\ NoRows /\ NoStreams /\ NoCache /\ G!GapInit /\ NoLocal
  \/ path = "local" /\ NoRows /\ NoStreams /\ NoCache /\ NoHoles /\ Q!FreqInit
DataNext ==
  /\ UNCHANGED path
  /\ \/ path = "rows" /\ FetchSteps /\ UNCHANGED <<replayVars, storeVars, gapVars, freqVars>>
     \/ path = "streams" /\ A!ArtifactSteps /\ UNCHANGED <<fetchVars, storeVars, gapVars, freqVars>>
     \/ path = "cache" /\ StoreNext /\ UNCHANGED <<fetchVars, replayVars, gapVars, freqVars>>
     \/ path = "holes" /\ G!GapSteps /\ UNCHANGED <<fetchVars, replayVars, storeVars, freqVars>>
     \/ path = "local" /\ Q!FreqSteps /\ UNCHANGED <<fetchVars, replayVars, storeVars, gapVars>>
DataSpec == DataInit /\ [][DataNext]_<<path, fetchVars, replayVars, storeVars, gapVars, freqVars>>

-----------------------------------------------------------------------------
\* A template's rows and its warm-up are one series: NothingFallsBetweenChunks, and
\* WarmupMeetsTheRun on grids that start at the epoch, the only ones shorter than a week.
RowsFormOneSeries == path = "rows" => NothingFallsBetweenChunks /\ WarmupMeetsTheRun(OnEpoch)

\* CoverageMatchesTheFetch, FetchesStayInBudget and ServedRequestsReplay of the streams: the
\* check demands what the fetch asked for, no fetch is longer than the preflight allowed for,
\* and with streams that also serve the primary warm-up no admitted request dies.
AdmittedFetchesSuffice ==
  path = "streams" => A!CoverageMatchesTheFetch /\ A!FetchesStayInBudget /\ A!ServedRequestsReplay
\* Values are made of the latest closed rows, as many as the window says.
FramesReadTheLatestClosed == path = "streams" => A!FramesReadTheLatestClosed
\* No admitted request dies of a missing window.
AdmittedRequestsReplay == path = "streams" => A!AdmittedRequestsReplay

\* EntriesReadNoHole, HoldingsCrossNoHole and AcceptedRunsEnd of the masks: what a template
\* decides on, and the cycle it holds through, has no missing candle, and a run that was
\* accepted never dies of one.
HolesAreMasked ==
  path = "holes" => G!EntriesReadNoHole /\ G!HoldingsCrossNoHole /\ G!AcceptedRunsEnd

\* SuccessReportsItsOwnRun of the Freqtrade provider: an answer, and the report kept of it,
\* is made of this request's result.
LocalResultsAreOwn == path = "local" => Q!SuccessReportsItsOwnRun
\* CoveredRequestsReadTheirData: what was checked for a request is what its result is of.
LocalDataIsChecked == path = "local" => Q!CoveredRequestsReadTheirData
\* CurveFollowsTheTrades: the curve of an answer tells the trades that it lists.
LocalCurvesTellTheTrades == path = "local" => Q!CurveFollowsTheTrades
\* ReportsStayWhileRecent: the clean-up spares the reports of the latest answers.
LocalReportsStay == path = "local" => Q!ReportsStayWhileRecent
=============================================================================
