---------------------------- MODULE FreqtradeRun ---------------------------
(***************************************************************************)
(* The Freqtrade provider (cutie_freqtrade_provider.py): one request at a   *)
(* time is checked against the local data, handed to the Freqtrade command, *)
(* and answered from the newest result file that is found; its report is    *)
(* copied next to the others and the oldest are cleared away.  The handler  *)
(* waits for the command, so requests do not overlap.                       *)
(*                                                                         *)
(* The command is external.  It may end in any way, with or without a       *)
(* result; a result it writes is of the data it was made to read, and tells *)
(* what LedgersAgree says.  Candle files do not change meanwhile.  A result *)
(* has one suffix, so a run id names one report.                            *)
(***************************************************************************)
EXTENDS Integers, Sequences, FiniteSets, FiniteSetsExt, SequencesExt, Functions

CONSTANTS
  Ranges,        \* [start, end] asked for
  DataFiles,     \* sets of local candle files: [format, first, end], first = -1 unreadable
  Ledgers, HandLedgers,  \* what a result tells: [trades, daily], see below
  DayLength,     \* of a point of the daily profits
  MaxReports,    \* MAX_REPORTS
  MaxAsks, MaxManual  \* bounds: requests, backtests run by hand

VARIABLES
  writesTo,      \* where the installed Freqtrade writes: "selected" or "shared"
  tells,         \* what its results tell (one ledger for all requests of a behaviour)
  files,         \* local candle files of the pair and timeframe, in name order
  asks,          \* requests so far
  now,           \* the request being served
  phase,         \* "idle", "checked", "engine", "found"
  clock,         \* modification times
  dirs,          \* run id -> results in the run's own directory
  shared,        \* results in Freqtrade's own directory
  reports,       \* entry of the reports directory -> modification time
  kept,          \* run id -> the request that made its report, and of what
  answer         \* the answer to the last request, none while one is served

freqVars == <<writesTo, tells, files, asks, now, phase, clock, dirs, shared, reports, kept, answer>>

-----------------------------------------------------------------------------
(* The local data.                                                         *)

Readable(f) == f.first >= 0
CoversRange(f, r) == Readable(f) /\ f.first <= r.start /\ f.end >= r.end
\* _inspect_local_data_coverage: the first file, by name, that covers the range;
\* one that cannot be read leaves the decision to Freqtrade.
Coverage(fs, r) ==
  LET good == SelectSeq(fs, LAMBDA f : CoversRange(f, r))
  IN CASE fs = <<>> -> [status |-> "missing", format |-> "none"]
       [] good # <<>> -> [status |-> "covered", format |-> good[1].format]
       [] good = <<>> /\ \E i \in 1..Len(fs) : ~Readable(fs[i]) ->
            [status |-> "unreadable", format |-> "none"]
       [] OTHER -> [status |-> "outside_coverage", format |-> "none"]

-----------------------------------------------------------------------------
(* The result.                                                             *)

Newest(results) == CHOOSE x \in results : \A y \in results : y.time <= x.time
\* Mutation: the newest of both directories.
FindResultByTime(run) ==
  IF dirs[run] \cup shared # {} THEN {Newest(dirs[run] \cup shared)} ELSE {}
\* _find_latest_backtest_result, in the run's directory and then in Freqtrade's.
FindResult(run) ==
  IF dirs[run] # {} THEN {Newest(dirs[run])} ELSE IF shared # {} THEN {Newest(shared)} ELSE {}

\* A trade is [at, profit, mine]: at is its close, or -1 without a readable one; mine
\* says whether it is of the pair asked for.  A daily profit is [at, profit, form]: the
\* day, and whether the entry is a "list", an "undated" list or another form, a "dict".
Closed(trades) == SelectSeq(trades, LAMBDA t : t.at >= 0)
Profits(entries) == FoldSeq(LAMBDA t, sum : sum + t.profit, 0, entries)
InDay(t, day) == t.at \in day .. day + DayLength - 1

\* _parse_freqtrade_result: the trades of the pair, with an exit or without one.
ParseTrades(ledger) == SelectSeq(ledger.trades, LAMBDA t : t.mine)
\* _build_equity_curve: the daily profits added up, a day without a readable date having
\* no point of its own; without any point the trades that closed, of any pair.
AddedUp(entries) ==
  [i \in 1..Len(entries) |-> [t |-> entries[i].at, equity |-> Profits(SubSeq(entries, 1, i))]]
Lists(ledger) == SelectSeq(ledger.daily, LAMBDA d : d.form # "dict")
Dated(ledger) == {i \in 1..Len(Lists(ledger)) : Lists(ledger)[i].form = "list"}
\* Mutation: the profit of a day is added only after its date was read.
DailyCurveOfDated(ledger) ==
  AddedUp(SelectSeq(ledger.daily, LAMBDA d : d.form = "list"))
DailyCurve(ledger) ==
  LET dated == SetToSortSeq(Dated(ledger), <)
  IN [i \in 1..Len(dated) |-> AddedUp(Lists(ledger))[dated[i]]]
ByClose(trades) == SortSeq(Closed(trades), LAMBDA a, b : a.at < b.at)
EquityCurve(ledger) ==
  IF Dated(ledger) # {} THEN DailyCurve(ledger) ELSE AddedUp(ByClose(ledger.trades))

\* What is taken of Freqtrade: a request's trades are of its pair; daily profits, where
\* there are any, come in one form ("depending on version"), in the order of the days, and
\* tell for each day what the trades that closed in it made.
LedgersAgree ==
  \A ledger \in Ledgers :
    LET daily == ledger.daily
        closed == Closed(ledger.trades)
    IN /\ \A i, j \in 1..Len(daily) :
            /\ i < j => daily[i].at < daily[j].at
            /\ daily[i].form = "dict" <=> daily[j].form = "dict"
       /\ \A i \in 1..Len(daily) :
            daily[i].profit = Profits(SelectSeq(closed, LAMBDA t : InDay(t, daily[i].at)))
       /\ \A k \in 1..Len(ledger.trades) : ledger.trades[k].mine
       /\ daily # <<>> =>
            \A k \in 1..Len(closed) : \E i \in 1..Len(daily) : InDay(closed[k], daily[i].at)

\* _cleanup_reports: the oldest entries go, or stay when they cannot be deleted,
\* as the directories of the runs.
InAge(entries) == SetToSortSeq(DOMAIN entries, LAMBDA a, b : entries[a] < entries[b])
\* Mutation: the newest first.
CleanupNewest(entries) ==
  LET over == Max({0, Cardinality(DOMAIN entries) - MaxReports})
      gone == {e \in ToSet(SubSeq(Reverse(InAge(entries)), 1, over)) : e[1] = "report"}
  IN Restrict(entries, DOMAIN entries \ gone)
Cleanup(entries) ==
  LET over == Max({0, Cardinality(DOMAIN entries) - MaxReports})
      gone == {e \in ToSet(SubSeq(InAge(entries), 1, over)) : e[1] = "report"}
  IN Restrict(entries, DOMAIN entries \ gone)
Put(f, k, v) == [x \in DOMAIN f \cup {k} |-> IF x = k THEN v ELSE f[x]]

-----------------------------------------------------------------------------
NoRequest == [run |-> "none"]
NoRange == [start |-> 0, end |-> 0]
NoResult == [owner |-> 0, time |-> 0, whole |-> FALSE, trades |-> <<>>, curve |-> <<>>, daily |-> <<>>]
NoAnswer == [status |-> "none", by |-> "none", range |-> NoRange, since |-> 0,
             covered |-> "none", wrote |-> FALSE, result |-> NoResult]
FreqInit ==
  /\ files \in DataFiles /\ writesTo \in {"selected", "shared"} /\ tells \in Ledgers
  /\ asks = 0 /\ now = NoRequest /\ phase = "idle" /\ clock = 0
  /\ dirs = [run \in 1..MaxAsks |-> {}] /\ shared = {} /\ reports = <<>> /\ kept = <<>>
  /\ answer = NoAnswer

\* The answer, and who decided it: the provider itself or what the command said.
Answer(status, by, result) ==
  /\ answer' = [status |-> status, by |-> by, range |-> now.range, since |-> now.since,
                covered |-> now.covered, wrote |-> now.wrote, result |-> result]
  /\ phase' = "idle" /\ now' = NoRequest
\* _business_failure.
Fail(error, by) == Answer(error, by, NoResult)

\* run_backtest up to the configuration; its parameters are checked before.  The run id is
\* the caller's, and only whether it was used before matters: the k-th request takes one of
\* the first k.
Ask ==
  /\ phase = "idle" /\ asks < MaxAsks
  /\ asks' = asks + 1
  /\ \E run \in 1..asks', r \in Ranges :
       LET c == Coverage(files, r)
       IN now' = [run |-> run, range |-> r, format |-> c.format, covered |-> c.status,
                  since |-> clock, wrote |-> FALSE]
  /\ phase' = "checked" /\ answer' = NoAnswer
  /\ UNCHANGED <<writesTo, tells, files, clock, dirs, shared, reports, kept>>
RefuseData ==
  /\ phase = "checked" /\ now.covered \in {"missing", "outside_coverage"}
  /\ Fail("NO_DATA", "provider")
  /\ UNCHANGED <<writesTo, tells, files, asks, clock, dirs, shared, reports, kept>>
\* The run's directory is made, or kept from an earlier run of the same id.
Prepare ==
  /\ phase = "checked" /\ now.covered \notin {"missing", "outside_coverage"}
  /\ clock' = clock + 1
  /\ reports' = IF <<"dir", now.run>> \in DOMAIN reports THEN reports
                ELSE Put(reports, <<"dir", now.run>>, clock')
  /\ phase' = "engine"
  /\ UNCHANGED <<writesTo, tells, files, asks, now, dirs, shared, kept, answer>>

\* Mutation: the configuration never names the format.
DataformatOfFreqtrade == "feather"
\* Freqtrade reads one format, its own unless the configuration names another.
Dataformat == IF now.format = "none" THEN "feather" ELSE now.format
DataRead == {i \in 1..Len(files) : files[i].format = Dataformat}
\* The command writes a result, where there is data of its format, of what that holds.
EngineWrites ==
  /\ phase = "engine" /\ ~now.wrote /\ DataRead # {}
  /\ LET x == [owner |-> asks, time |-> clock + 1, ledger |-> tells,
               whole |-> \E i \in DataRead : CoversRange(files[i], now.range)]
     IN \/ writesTo = "selected" /\ dirs' = [dirs EXCEPT ![now.run] = @ \cup {x}] /\ shared' = shared
        \/ writesTo = "shared" /\ shared' = shared \cup {x} /\ dirs' = dirs
  /\ reports' = IF writesTo = "shared" THEN reports ELSE Put(reports, <<"dir", now.run>>, clock + 2)
  /\ clock' = clock + 2 /\ now' = [now EXCEPT !.wrote = TRUE]
  /\ UNCHANGED <<writesTo, tells, files, asks, phase, kept, answer>>
\* It is too late, or ends with an error, whether it wrote a result before or not; an
\* error that speaks of no data is told as such whatever the coverage was.
EngineFails ==
  /\ phase = "engine"
  /\ \E error \in {"ENGINE_ERROR", "NO_DATA"} : Fail(error, "command")
  /\ UNCHANGED <<writesTo, tells, files, asks, clock, dirs, shared, reports, kept>>
\* It ends with 0, which is taken to mean that there is a result.
EngineEnds ==
  /\ phase = "engine" /\ phase' = "found"
  /\ UNCHANGED <<writesTo, tells, files, asks, now, clock, dirs, shared, reports, kept, answer>>
\* Somebody runs Freqtrade by hand, on any pairs.  (Between the check of the data and the
\* command it is as good as during the command, and after the last answer nothing reads it.)
RunByHand ==
  /\ phase \in {"engine", "found"} \/ (phase = "idle" /\ asks < MaxAsks)
  /\ Cardinality({x \in shared : x.owner = -1}) < MaxManual
  /\ \E ledger \in HandLedgers :
       shared' = shared \cup {[owner |-> -1, time |-> clock + 1, ledger |-> ledger, whole |-> FALSE]}
  /\ clock' = clock + 1
  /\ UNCHANGED <<writesTo, tells, files, asks, now, phase, dirs, reports, kept, answer>>

\* Neither directory has a result.
NoReport ==
  /\ phase = "found" /\ FindResult(now.run) = {}
  /\ Fail("REPORT_UNAVAILABLE", "provider")
  /\ UNCHANGED <<writesTo, tells, files, asks, clock, dirs, shared, reports, kept>>
\* A file that is not a result.
ParseFails ==
  /\ phase = "found" /\ FindResult(now.run) # {}
  /\ Fail("ENGINE_ERROR", "provider")
  /\ UNCHANGED <<writesTo, tells, files, asks, clock, dirs, shared, reports, kept>>
\* copy2 of a result to the report of the run: with the time of the result; with its own
\* time, after an error on the way that may leave it torn; or not at all.
Copies(x) ==
  \/ kept' = Put(kept, now.run, [ask |-> asks, owner |-> x.owner, wrote |-> now.wrote])
     /\ \E time \in {x.time, clock + 1} : reports' = Cleanup(Put(reports, <<"report", now.run>>, time))
  \/ kept' = kept /\ reports' = Cleanup(reports)
\* The result is parsed, copied as far as that goes, and answered.
Succeed ==
  /\ phase = "found"
  /\ \E x \in FindResult(now.run) :
       /\ Answer("success", "provider",
                 [owner |-> x.owner, time |-> x.time, whole |-> x.whole, daily |-> Lists(x.ledger),
                  trades |-> ParseTrades(x.ledger), curve |-> EquityCurve(x.ledger)])
       /\ Copies(x)
  /\ clock' = clock + 1
  /\ UNCHANGED <<writesTo, tells, files, asks, dirs, shared>>

FreqSteps ==
  \/ Ask \/ RefuseData \/ Prepare \/ EngineWrites \/ EngineFails \/ EngineEnds \/ RunByHand
  \/ NoReport \/ ParseFails \/ Succeed

-----------------------------------------------------------------------------
\* When the command wrote a result, a success never answers with an older one: an
\* earlier try under the same id, an old backtest run by hand.  Where Freqtrade honours
\* the selected directory it is this very request's result, in the answer and in every
\* report that such a request made.  (A copy that fails leaves the report out, or one
\* an earlier request of the id made: the answer names it all the same.)
SuccessReportsItsOwnRun ==
  /\ answer.status = "success" /\ answer.wrote =>
       /\ answer.result.time > answer.since
       /\ writesTo = "selected" => answer.result.owner = asks
  /\ writesTo = "selected" =>
       \A run \in DOMAIN kept : kept[run].wrote => kept[run].owner = kept[run].ask

\* The check of the data agrees with what is read: the own result of a request that was
\* found covered is of data that covers it, since the format whose bounds were read is
\* the one Freqtrade is made to read; and a request the provider turns away for its data
\* has no file that covers it, nor one that only Freqtrade could read.
CoveredRequestsReadTheirData ==
  /\ answer.covered = "covered" /\ answer.result.owner = asks => answer.result.whole
  /\ answer.status = "NO_DATA" /\ answer.by = "provider" =>
       \A i \in 1..Len(files) : Readable(files[i]) /\ ~CoversRange(files[i], answer.range)

\* The curve of an own result is in order of time, stands at each time at what the
\* listed trades that have an exit made by then (daily points: by the end of the day),
\* and tells all of them but those of days without a readable date.  Trades without an
\* exit are listed and not in the curve.
CurveFollowsTheTrades ==
  LET closed == Closed(answer.result.trades)
      curve == answer.result.curve
      daily == answer.result.daily
      reach == IF \E i \in 1..Len(daily) : daily[i].form = "list" THEN DayLength - 1 ELSE 0
      By(t) == SelectSeq(closed, LAMBDA x : x.at <= t + reach)
      Untold(x) == reach > 0 /\ \E i \in 1..Len(daily) :
                     daily[i].form = "undated" /\ InDay(x, daily[i].at)
  IN answer.status = "success" /\ answer.result.owner = asks =>
       /\ \A i \in 1..Len(curve) - 1 : curve[i].t <= curve[i + 1].t
       /\ \A i \in 1..Len(curve) :
            i = Len(curve) \/ curve[i].t < curve[i + 1].t => curve[i].equity = Profits(By(curve[i].t))
       /\ \A k \in 1..Len(closed) :
            (curve # <<>> /\ closed[k].at <= Last(curve).t + reach) \/ Untold(closed[k])

\* The reports that the last n requests made of results of their own are there.
ReportsOfTheLast(n) ==
  \A run \in DOMAIN kept :
    kept[run].wrote /\ asks - kept[run].ask < n => <<"report", run>> \in DOMAIN reports
\* Such a report stays for half as many requests as the directory has places: every
\* request leaves its directory there too.
ReportsStayWhileRecent == ReportsOfTheLast(MaxReports \div 2)
=============================================================================
