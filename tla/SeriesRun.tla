----------------------------- MODULE SeriesRun -----------------------------
(***************************************************************************)
(* The lot templates that read a line: RSI scale-in/out, whose line is     *)
(* computed from the closes, and Fear & Greed scale-in, whose line is a    *)
(* daily archive (_build_rsi_scale_in_out, _build_fear_greed_scale_in and  *)
(* the checks of _run_scale_in_out_backtest before the ledger runs).       *)
(*                                                                         *)
(* A day of the archive is the time it begins; its value can be read from  *)
(* the time it ends.                                                       *)
(***************************************************************************)
EXTENDS ScaleRun

CONSTANTS
  DayLength,                     \* the interval of the archive
  BuyThreshold, SellThreshold,
  MaxLots,
  Feeds                          \* what a run may be given: [kind, warm, archive, earliest]

SeriesParameters ==
  /\ DayLength \in Nat \ {0} /\ MaxLots \in Nat \ {0}
  /\ BuyThreshold < SellThreshold
  /\ Signals = {Signal("buy"), Signal("sell"), Signal("sell_all")}
  /\ \A f \in Feeds : /\ f.kind \in {"rsi", "greed"} /\ f.warm \in BOOLEAN
                     /\ DOMAIN f.archive \subseteq Int

VARIABLES
  feed,                                  \* the template and its line
  heldLots,
  buySignals, sellSignals, lotCapSkips   \* stats

reader == <<feed, heldLots, buySignals, sellSignals, lotCapSkips>>
seriesVars == <<vars, reader>>

-----------------------------------------------------------------------------
\* _external_series_need: the days the closes of the run may read.
DayBefore(close) == (close \div DayLength) * DayLength - DayLength
NeedFirst == DayBefore(CloseTime(0))
NeedLast == DayBefore(CloseTime(LastBar))

\* The rows fetched, and whether the run goes on with them: no day is missing
\* between the first and the last one needed, and these two are there.
Fetched == {d \in DOMAIN feed.archive : NeedFirst <= d /\ d < NeedLast + DayLength}
Whole ==
  /\ Fetched # {} /\ Min(Fetched) = NeedFirst /\ Max(Fetched) = NeedLast
  /\ \A d \in Fetched \ {NeedLast} : d + DayLength \in Fetched
\* RSI starts from a full warm-up or not at all.
Served == IF feed.kind = "greed" THEN NeedFirst >= feed.earliest /\ Whole ELSE feed.warm

\* The newest row available at a close.
Usable(i) ==
  LET known == {d \in Fetched : d + DayLength <= CloseTime(i)}
  IN IF known = {} THEN None ELSE feed.archive[Max(known)]

-----------------------------------------------------------------------------
Leaves(value) == heldLots > 0 /\ value >= SellThreshold
Capped == heldLots >= MaxLots

\* Fear & Greed: a lot a fearful close, up to max_lots; all of them sold at greed.
GreedSignal(value) ==
  IF value = None THEN Hold
  ELSE IF Leaves(value) THEN Signal("sell_all")
  ELSE IF value <= BuyThreshold /\ ~Capped THEN Signal("buy") ELSE Hold
GreedCounts(value) ==
  /\ sellSignals' = sellSignals + (IF value # None /\ Leaves(value) THEN 1 ELSE 0)
  /\ buySignals' = buySignals + (IF GreedSignal(value).action = "buy" THEN 1 ELSE 0)
  /\ lotCapSkips' = lotCapSkips
                    + (IF value # None /\ ~Leaves(value) /\ value <= BuyThreshold /\ Capped THEN 1 ELSE 0)

\* threshold_signal: RSI buys below, sells a portion above, and rests while unknown.
ThresholdSignal(value) ==
  IF value = None THEN Hold
  ELSE IF value < BuyThreshold THEN Signal("buy")
  ELSE IF value > SellThreshold THEN Signal("sell") ELSE Hold
RsiValues == {None, BuyThreshold - 1, BuyThreshold, SellThreshold + 1}

\* on_fill of Fear & Greed; RSI has none.
GreedFill(filled) ==
  heldLots' = IF feed.kind = "rsi" \/ ~filled THEN heldLots
              ELSE IF pending.action = "buy" THEN heldLots + 1
              ELSE IF pending.action = "sell_all" THEN 0 ELSE heldLots

SeriesInit ==
  /\ Init /\ feed \in Feeds
  /\ heldLots = 0 /\ buySignals = 0 /\ sellSignals = 0 /\ lotCapSkips = 0

\* A run that lacks its line never starts: TIME_DATA_GAP or INSUFFICIENT_DATA.
Refuse ==
  /\ bar = 0 /\ phase = "open" /\ ~Served
  /\ phase' = "refused"
  /\ UNCHANGED <<bar, ledger, pending, reason, entryBar, points, fillTimes, expiries, history, reader>>

SeriesOpen(price) ==
  /\ Served /\ OpenBar(price) /\ GreedFill(Fill(price).filled)
  /\ UNCHANGED <<feed, buySignals, sellSignals, lotCapSkips>>

SeriesClose(price) ==
  /\ IF ~Asks THEN CloseBar(price, Hold) /\ UNCHANGED <<buySignals, sellSignals, lotCapSkips>>
     ELSE \/ feed.kind = "greed" /\ CloseBar(price, GreedSignal(Usable(bar))) /\ GreedCounts(Usable(bar))
          \/ /\ feed.kind = "rsi" /\ \E value \in RsiValues : CloseBar(price, ThresholdSignal(value))
             /\ UNCHANGED <<buySignals, sellSignals, lotCapSkips>>
  /\ UNCHANGED <<feed, heldLots>>

SeriesNext ==
  \/ Refuse
  \/ \E price \in OpenPrices : SeriesOpen(price)
  \/ \E price \in ClosePrices : SeriesClose(price)
  \/ Finish /\ UNCHANGED reader

SeriesSpec == SeriesInit /\ [][SeriesNext]_seriesVars

-----------------------------------------------------------------------------
\* The lots Fear & Greed counts are the ledger's, whatever buys were refused,
\* too dear or blocked and whatever the time limit sold, and never too many.
LotsAreCounted ==
  (feed.kind = "greed" /\ phase \in {"open", "close", "end"}) =>
    heldLots = Len(ledger.lots) /\ heldLots <= MaxLots

\* A close reads the last day that was over by then, of an archive that has
\* every one of them: not the day it lies in, nor an older one over a gap.
ReadsTheLastWholeDay ==
  (feed.kind = "greed" /\ phase = "close") =>
    /\ DayBefore(CloseTime(bar)) \in DOMAIN feed.archive
    /\ Usable(bar) = feed.archive[DayBefore(CloseTime(bar))]
=============================================================================
