----------------------------- MODULE CandleFetch ---------------------------
(***************************************************************************)
(* How the rows of a run are got (cutie_backtesting_provider.py): the       *)
(* central service in chunks, or an exchange page by page, then the rows    *)
(* before the start that warm the indicators up.  A row is the time its     *)
(* candle opens; candles open on a grid of Step shifted by Offset.          *)
(***************************************************************************)
EXTENDS Integers, Sequences, FiniteSets, FiniteSetsExt, SequencesExt

CONSTANTS
  Grids,         \* [step, offset] of the timeframes
  Start, Ends,   \* starts and ends of the ranges asked for
  Now,           \* the exchange has the candles that opened by now
  MaxChunk,      \* CENTRAL_MAX_CHUNK_MS
  PageLimit,     \* candles an exchange gives at once
  Second,        \* the service counts in seconds
  SmallSample,   \* below so many bars a chunk is judged by its holes (20)
  Tolerance,     \* percent of a larger chunk that has to be there (90)
  WarmBars       \* _required_warmup_bars

VARIABLES
  ask,           \* [grid, start, end, source, warm]
  chunks,        \* of the central range, those still to fetch
  since,         \* where the next page begins
  rows,          \* fetched
  holes,         \* candles the source has not got, two at most
  main,          \* rows of the run, once the fetch turns to the warm-up
  stage          \* "central", "pages", "rows", "done" or the error

fetchVars == <<ask, chunks, since, rows, holes, main, stage>>

FetchAssumption ==
  /\ \A g \in Grids : g.step \in Nat \ {0} /\ g.offset \in 0..(g.step - 1) /\ g.step % Second = 0
  /\ \A g \in Grids : g.step <= MaxChunk
  /\ MaxChunk \in Nat \ {0} /\ PageLimit \in Nat \ {0} /\ Second \in Nat \ {0}
  /\ \A s \in Start : s % Second = 0

\* The candles of a grid that open in lo..hi.
OnGrid(g, t) == (t - g.offset) % g.step = 0
Candles(g, lo, hi) == {t \in lo..hi : OnGrid(g, t)}
InOrder(set) ==
  IF set = {} THEN <<>>
  ELSE SelectSeq([i \in 1..(Max(set) - Min(set) + 1) |-> Min(set) + i - 1], LAMBDA t : t \in set)

\* _expected_bar_grid: the candles that open and close within [lo, hi].
ExpectedGrid(g, lo, hi) == Candles(g, lo, hi - g.step)

-----------------------------------------------------------------------------
Ceil(a, b) == (a + b - 1) \div b

\* _ms_equal_split_chunks
EqualSplit(lo, hi, n) ==
  LET base == (hi - lo) \div n
  IN [i \in 1..n |-> <<lo + (i - 1) * base, IF i = n THEN hi ELSE lo + i * base>>]

\* _bars_equal_split_chunks: the first chunks take the bars left over.
BarsSplit(g, lo, hi, bars, n) ==
  LET cut(i) == lo + (i * (bars \div n) + Min({i, bars % n})) * g.step
  IN [i \in 1..n |-> <<cut(i - 1), IF i = n THEN hi ELSE cut(i)>>]

\* _split_central_range: whole bars of the grid, none longer than the limit.
SplitCentralRange(g, lo, hi) ==
  IF hi - lo <= MaxChunk THEN <<<<lo, hi>>>>
  ELSE
    LET grid == lo - ((lo - g.offset) % g.step)
        bars == (hi - grid) \div g.step
        least == Max({Ceil(hi - grid, MaxChunk), Ceil(bars, MaxChunk \div g.step)})
        Build(n) ==
          IF bars < n THEN EqualSplit(lo, hi, n)
          ELSE [BarsSplit(g, grid, hi, bars, n) EXCEPT ![1] = <<lo, @[2]>>]
        Fits(n) == \A i \in 1..n : Build(n)[i][2] - Build(n)[i][1] <= MaxChunk
    IN Build(CHOOSE n \in least..(least + bars + 1) :
               Fits(n) /\ \A m \in least..(n - 1) : ~Fits(m))

\* The service gives the candles that open and close within the seconds asked for.
Served(g, lo, hi) == ExpectedGrid(g, (lo \div Second) * Second, (hi \div Second) * Second)

\* _small_sample_gap_is_tolerable_boundary: only the first or the last may miss.
BoundaryOnly(expected, items) ==
  \E t \in {Min(expected), Max(expected)} : expected \ items = {t}
\* _fetch_central_chunk_with_reason: too few rows are a gap.
IsGap(expected, items) ==
  LET deficit == Cardinality(expected) - Cardinality(items)
  IN /\ expected # {}
     /\ IF Cardinality(expected) >= SmallSample
        THEN Cardinality(items) * 100 < Cardinality(expected) * Tolerance
        ELSE deficit > 1 \/ (deficit = 1 /\ ~BoundaryOnly(expected, items))

-----------------------------------------------------------------------------
RangeOf(a, lo, hi) ==
  [ask |-> a, chunks |-> IF a.source = "central" THEN SplitCentralRange(a.grid, lo, hi) ELSE <<>>,
   since |-> lo, stage |-> IF a.source = "central" THEN "central" ELSE "pages"]

FetchInit ==
  /\ \E g \in Grids, s \in Start, e \in Ends, source \in {"central", "pages", "paged_by_until"} :
       /\ s < e
       /\ ask = [grid |-> g, start |-> s, end |-> e, source |-> source, lo |-> s, hi |-> e, warm |-> FALSE]
       /\ LET r == RangeOf(ask, s, e)
          IN chunks = r.chunks /\ since = r.since /\ stage = r.stage
       /\ holes \in {{}} \cup {{t, u} : t, u \in Candles(g, Max({0, s - 2 * g.step}), Now)}
  /\ rows = <<>> /\ main = <<>>

\* A miss is the end of the run, but not of a run that only wanted its warm-up.
Misses == IF ask.warm THEN "done" ELSE "error"
Fails == stage' = Misses /\ rows' = <<>> /\ UNCHANGED <<ask, chunks, since, holes, main>>

\* One chunk of the central range; any miss ends the whole fetch.
FetchCentralChunk ==
  /\ stage = "central" /\ chunks # <<>>
  /\ LET c == Head(chunks)
         items == Served(ask.grid, c[1], c[2]) \ holes
     IN IF items = {} \/ IsGap(ExpectedGrid(ask.grid, c[1], c[2]), items)
        THEN Fails
        ELSE /\ chunks' = Tail(chunks) /\ rows' = rows \o InOrder(items)
             /\ UNCHANGED <<ask, since, holes, main, stage>>
CentralFails == stage = "central" /\ chunks # <<>> /\ Fails
CentralEnds ==
  /\ stage = "central" /\ chunks = <<>>
  /\ stage' = "rows" /\ UNCHANGED <<ask, chunks, since, rows, holes, main>>

\* One page of an exchange: candles from since on, at most a limit of them; some
\* exchanges look no further than the page. The forming candle is among them.
Until(a, from) == Min({a.hi, from + a.grid.step * Min({PageLimit, Max({1, Ceil(a.hi - from, a.grid.step)})})})
Page(a, from) ==
  LET limit == Min({PageLimit, Max({1, Ceil(a.hi - from, a.grid.step)})})
      held == {t \in Candles(a.grid, from, Now) \ holes :
                 a.source = "paged_by_until" => t < Until(a, from)}
      n == Min({limit, Cardinality(held)})
  IN SubSeq(InOrder(held), 1, n)
FetchPage ==
  /\ stage = "pages"
  /\ LET page == Page(ask, since)
         ended == since >= ask.hi \/ page = <<>>
     IN IF ended
        THEN /\ stage' = IF rows = <<>> THEN Misses ELSE "rows"
             /\ UNCHANGED <<since, rows>>
        ELSE /\ rows' = rows \o SelectSeq(page, LAMBDA t : t <= ask.hi)
             /\ since' = IF Last(page) <= since THEN since + ask.grid.step
                         ELSE Last(page) + ask.grid.step
             /\ UNCHANGED stage
  /\ UNCHANGED <<ask, chunks, holes, main>>
PageFails == stage = "pages" /\ since < ask.hi /\ Fails

-----------------------------------------------------------------------------
\* _fetch_template_warmup: from whole steps before the start, up to the first
\* whole step at or after it; the last WarmBars rows before the run's first.
AlignedStart(a) == Ceil(a.start, a.grid.step) * a.grid.step
WarmSince(a) == Max({0, AlignedStart(a) - (WarmBars + 2) * a.grid.step})
TurnToWarmup ==
  /\ stage = "rows" /\ ~ask.warm
  /\ main' = rows /\ rows' = <<>>
  /\ LET a == [ask EXCEPT !.warm = TRUE, !.lo = WarmSince(ask), !.hi = Min({AlignedStart(ask), Now})]
         r == RangeOf(a, a.lo, a.hi)
     IN IF a.hi <= a.lo
        THEN ask' = a /\ stage' = "done" /\ UNCHANGED <<chunks, since>>
        ELSE ask' = a /\ stage' = r.stage /\ chunks' = r.chunks /\ since' = r.since
  /\ UNCHANGED holes
\* Mutation: rows up to the start, those the run has too included.
KeepUpToStart ==
  /\ stage = "rows" /\ ask.warm
  /\ LET before == SelectSeq(rows, LAMBDA t : t <= main[1])
     IN rows' = SubSeq(before, Max({1, Len(before) - WarmBars + 1}), Len(before))
  /\ stage' = "done" /\ UNCHANGED <<ask, chunks, since, holes, main>>
KeepWarmup ==
  /\ stage = "rows" /\ ask.warm
  /\ LET before == SelectSeq(rows, LAMBDA t : t < main[1])
     IN rows' = SubSeq(before, Max({1, Len(before) - WarmBars + 1}), Len(before))
  /\ stage' = "done" /\ UNCHANGED <<ask, chunks, since, holes, main>>

FetchSteps ==
  \/ FetchCentralChunk \/ CentralFails \/ CentralEnds \/ FetchPage \/ PageFails
  \/ TurnToWarmup \/ KeepWarmup

-----------------------------------------------------------------------------
Increasing(s) == \A i, j \in 1..Len(s) : i < j => s[i] < s[j]

\* Every chunk is one the service accepts and the chunks tile the range; what a
\* source has of the range then arrives once and in order: no chunk boundary and
\* no page boundary swallows or repeats a candle (the central range asks for
\* closed candles only, the pages may end with the one that is forming).
NothingFallsBetweenChunks ==
  /\ (stage = "central" /\ rows = <<>> /\ chunks # <<>>) =>
       /\ \A i \in 1..Len(chunks) : chunks[i][2] - chunks[i][1] \in 1..MaxChunk
       /\ chunks[1][1] = ask.lo /\ Last(chunks)[2] = ask.hi
       /\ \A i \in 2..Len(chunks) : chunks[i][1] = chunks[i - 1][2]
  /\ (stage = "rows" /\ ~ask.warm) =>
       /\ Increasing(rows)
       /\ ask.source = "central" =>
            ToSet(rows) = ExpectedGrid(ask.grid, ask.lo, (ask.hi \div Second) * Second) \ holes
       /\ ask.source # "central" =>
            ToSet(rows) = Candles(ask.grid, ask.lo, Last(rows)) \ holes
       /\ ask.source = "pages" =>
            ExpectedGrid(ask.grid, ask.lo, ask.hi) \ holes \subseteq ToSet(rows)

\* The warm-up ends where the run begins: its rows are older than the run's
\* first, as many as asked for when the source has them, and there is
\* no candle between the two that the source has, the one open at the start included.
WarmupMeetsTheRun(grids) ==
  (stage = "done" /\ ask.warm /\ rows # <<>> /\ main # <<>> /\ ask.grid \in grids) =>
    /\ Len(rows) <= WarmBars /\ Last(rows) < main[1]
    /\ (holes = {} /\ ask.lo > 0) => Len(rows) = WarmBars
    /\ Candles(ask.grid, Last(rows) + 1, main[1] - 1) \subseteq holes
=============================================================================
