----------------------------- MODULE ScaleRun ------------------------------
(***************************************************************************)
(* run_scale_in_out of backtesting-py/scale_in_out_ledger.py: the signal   *)
(* of a close is filled at the next open.  The signal function is any: a   *)
(* close may ask for any member of Signals.  GridRun and DcaRun put a      *)
(* template's signal and on_fill in its place.                             *)
(*                                                                         *)
(* Bar i opens at i * Span and closes at (i + 1) * Span, when the next one *)
(* opens.                                                                  *)
(***************************************************************************)
EXTENDS LotSteps

CONSTANTS
  Signals,                       \* [action, notional, kind] a close may ask for
  OpenPrices, ClosePrices,       \* prices the market may print
  LastBar, Span, EndAt,          \* bars 0..LastBar; end_at of the window
  TimeLayer,                     \* is there a time_context?
  MaxHoldingBars, MaxHoldingTime, Cutoffs,   \* expiry: 0 and {} are off
  BlockedDecisions               \* decision times at which allow_entry is false

Signal(action) == [action |-> action, notional |-> BuyNotional, kind |-> "signal_exit"]
Hold == Signal("hold")
Actions == {"hold", "buy", "sell", "sell_lot", "sell_all"}

OpenTime(i) == i * Span
CloseTime(i) == (i + 1) * Span

RunAssumption ==
  /\ \A s \in Signals : /\ s.action \in Actions /\ s.notional \in Nat \ {0}
                        /\ s.kind \in OrderKinds
  /\ OpenPrices \subseteq Nat \ {0} /\ ClosePrices \subseteq Nat \ {0}
  /\ LastBar \in Nat /\ Span \in Nat \ {0}
  /\ EndAt \in OpenTime(LastBar)..CloseTime(LastBar)
  /\ TimeLayer \in BOOLEAN
  /\ {MaxHoldingBars, MaxHoldingTime} \subseteq Nat /\ Cutoffs \subseteq Nat
  /\ ~TimeLayer => MaxHoldingBars = 0 /\ MaxHoldingTime = 0
                   /\ Cutoffs = {} /\ BlockedDecisions = {}

VARIABLES
  phase,        \* "open", "close", "done" or "failed" (LedgerInvariantError)
  bar,          \* index of the bar
  ledger,
  pending,      \* the signal to fill at this open
  reason,       \* pending_reason
  entryBar,     \* round_entry_bar
  points,       \* equity by timestamp
  fillTimes,    \* fill_ts
  expiries,     \* time_expiry_fills
  prices,       \* history: the close of every bar
  purchases,    \* history: the lots bought
  held          \* history: were lots held at the close of each bar?

history == <<prices, purchases, held>>
vars == <<phase, bar, ledger, pending, reason, entryBar, points, fillTimes, expiries, history>>

Init ==
  /\ phase = "open" /\ bar = 0
  /\ ledger = EmptyLedger
  /\ pending = Hold /\ reason = "none" /\ entryBar = None
  /\ points = <<>> /\ fillTimes = {} /\ expiries = 0
  /\ prices = <<>> /\ purchases = <<>> /\ held = <<>>

ExitKind == IF reason = "time_expiry" THEN "time_exit" ELSE pending.kind

\* The pending order at the open.
Fill(price) ==
  LET fresh == BeginBar(ledger)
      at == OpenTime(bar)
  IN CASE pending.action = "buy" -> Buy(fresh, at, price, pending.notional)
       [] pending.action = "sell" -> Sell(fresh, at, price, ExitKind)
       [] pending.action = "sell_lot" -> SellLot(fresh, at, price, ExitKind)
       [] pending.action = "sell_all" -> SellAll(fresh, at, price, ExitKind)
       [] OTHER -> [filled |-> FALSE, ledger |-> fresh]

Put(curve, at, equity) == [t \in DOMAIN curve \cup {at} |-> IF t = at THEN equity ELSE curve[t]]

\* Mutation: any buy restarts the round's clock.
RoundStartAnyBuy(result) ==
  IF ~TimeLayer \/ ~result.filled THEN entryBar
  ELSE IF result.ledger.lots = <<>> THEN None
  ELSE IF pending.action = "buy" THEN bar
  ELSE entryBar

\* The round's clock starts at its first fill and ends with its last lot.
RoundStart(result) ==
  IF ~TimeLayer \/ ~result.filled THEN entryBar
  ELSE IF result.ledger.lots = <<>> THEN None
  ELSE IF pending.action = "buy" /\ ledger.lots = <<>> THEN bar
  ELSE entryBar

\* The open of a bar: fill, account, check.
Booked(result, checked, price) ==
  /\ ledger' = checked
  /\ phase' = IF checked.raised THEN "failed" ELSE "close"
  /\ entryBar' = RoundStart(result)
  /\ fillTimes' = IF result.filled THEN fillTimes \cup {OpenTime(bar)} ELSE fillTimes
  /\ points' = IF result.filled /\ OpenTime(bar) > 0
               THEN Put(points, OpenTime(bar), EquityByCash(checked, price)) ELSE points
  /\ expiries' = IF result.filled /\ reason = "time_expiry" THEN expiries + 1 ELSE expiries
  /\ purchases' = IF result.filled /\ pending.action = "buy"
                  THEN Append(purchases, Last(checked.lots)) ELSE purchases
  /\ UNCHANGED <<bar, pending, reason, prices, held>>
Filled(result, price) ==
  Booked(result, IF result.filled THEN Checked(result.ledger, price) ELSE result.ledger, price)
OpenBar(price) == phase = "open" /\ Filled(Fill(price), price)

\* expiry_due at the close of the bar.
ExpiryDue ==
  /\ TimeLayer /\ entryBar # None
  /\ LET entry == OpenTime(entryBar)
         decision == CloseTime(bar)
     IN \/ MaxHoldingBars > 0 /\ bar - entryBar + 1 >= MaxHoldingBars
        \/ MaxHoldingTime > 0 /\ decision - entry >= MaxHoldingTime
        \/ \E c \in Cutoffs : entry <= c /\ c <= decision

\* Is there a next open at which a signal may still be filled?
Decides == bar < LastBar /\ OpenTime(bar + 1) < EndAt

\* A buy the entry gate refuses is notified and dropped.
Blocked(signal) ==
  TimeLayer /\ signal.action = "buy" /\ CloseTime(bar) \in BlockedDecisions

\* What the close leaves pending: the expiry of the round before the
\* template's signal.
Decide(signal) ==
  IF ~Decides THEN [pending |-> Hold, reason |-> reason]
  ELSE IF ExpiryDue THEN [pending |-> Signal("sell_all"), reason |-> "time_expiry"]
  ELSE [pending |-> IF Blocked(signal) THEN Hold ELSE signal, reason |-> "none"]

\* Does the close ask the template at all?
Asks == Decides /\ ~ExpiryDue

Marks == ledger.lots # <<>> /\ CloseTime(bar) < EndAt

\* The close of a bar: check, mark, decide.
CloseBar(price, signal) ==
  LET checked == Checked(ledger, price)
  IN /\ phase = "close"
     /\ ~Asks => signal = Hold
     /\ ledger' = checked
     /\ points' = IF Marks THEN Put(points, CloseTime(bar), EquityByCash(checked, price))
                  ELSE points
     /\ pending' = Decide(signal).pending /\ reason' = Decide(signal).reason
     /\ prices' = Append(prices, price)
     /\ held' = Append(held, ledger.lots # <<>>)
     /\ bar' = IF bar < LastBar THEN bar + 1 ELSE bar
     /\ phase' = IF checked.raised THEN "failed"
                 ELSE IF bar < LastBar THEN "open" ELSE "end"
     /\ UNCHANGED <<entryBar, fillTimes, expiries, purchases>>

\* The tail of the run: lots still held are sold at the last close.
SoldOut(sold) ==
  /\ ledger' = sold
  /\ phase' = IF sold.raised \/ sold.lots # <<>> THEN "failed" ELSE "done"
  /\ points' = Put(points, EndAt, sold.cash)
  /\ fillTimes' = fillTimes \cup {EndAt}
Finish ==
  /\ phase = "end"
  /\ IF ledger.lots = <<>>
     THEN phase' = "done" /\ UNCHANGED <<ledger, points, fillTimes>>
     ELSE SoldOut(Checked(SellQty(ledger, Holding(ledger), EndAt, Last(prices), "end_of_data"), Last(prices)))
  /\ UNCHANGED <<bar, pending, reason, entryBar, expiries, history>>

Next ==
  \/ \E price \in OpenPrices : OpenBar(price)
  \/ \E price \in ClosePrices, signal \in Signals \cup {Hold} : CloseBar(price, signal)
  \/ Finish

Spec == Init /\ [][Next]_vars

-----------------------------------------------------------------------------
\* Types of the ledger, and of the order pending at an open.
TypeOK ==
  /\ phase \in {"open", "close", "end", "done", "failed"}
  /\ bar \in 0..LastBar
  /\ ledger.cash \in Nat
  /\ \A i \in 1..Len(ledger.lots) : ledger.lots[i] \in Lot
  /\ \A i \in 1..Len(ledger.trades) : ledger.trades[i] \in Trade
  /\ pending.action \in Actions
  /\ entryBar \in 0..LastBar \cup {None}
  /\ DOMAIN points \subseteq 1..EndAt

\* The ledger's own assertions never fire: cash and profit agree on the
\* equity at every price, quantities add up, cash is never borrowed, no bar
\* buys and sells, lots leave in their order.
NeverEngineError == phase # "failed"

\* The trades of a purchase, by their place among the ledger's.
TradesOf(purchase) ==
  {k \in DOMAIN ledger.trades : ledger.trades[k].opened_at = purchase.opened_at}

\* The formula the server recomputes a sold-out lot's charges with, from its
\* trades alone: what each of them leaves of the entry charge, the last one
\* nothing.
LeftAfter(of, k, left, bps) ==
  IF k \notin of THEN left
  ELSE IF \A j \in of : j <= k THEN 0
  ELSE left - Lesser(Charge(ledger.trades[k].entry_price * ledger.trades[k].qty, bps), left)
Recomputed(of, bps) ==
  LET trades == ledger.trades
      qty == Total([k \in DOMAIN trades |-> IF k \in of THEN trades[k].qty ELSE 0])
      left[k \in 0..Len(trades)] ==
        IF k = 0 THEN Charge(trades[Min(of)].entry_price * qty, bps)
        ELSE LeftAfter(of, k, left[k - 1], bps)
  IN left

\* Every trade of a sold-out lot carries the charges the documented formula
\* recomputes from the lot's trades alone, to the unit.
ServerRecomputesFees ==
  \A i \in 1..Len(purchases) :
    LET of == TradesOf(purchases[i])
        fees == Recomputed(of, FeeBps)
        slippages == Recomputed(of, SlippageBps)
    IN (\A l \in 1..Len(ledger.lots) : ledger.lots[l].opened_at # purchases[i].opened_at)
       => \A k \in of :
            LET trade == ledger.trades[k]
                gross == trade.exit_price * trade.qty
            IN /\ trade.fee = fees[k - 1] - fees[k] + ExitFee(gross)
               /\ trade.slippage = slippages[k - 1] - slippages[k] + ExitSlippage(gross)

\* When the run is over its curve ends at the cash it leaves, which is the
\* capital and every trade's profit; and a trade closes at end_at exactly
\* when the end of the data closed it.
CurveEndsAtTheResult ==
  phase = "done" =>
    LET profit == Total([i \in DOMAIN ledger.trades |-> ledger.trades[i].pnl])
    IN /\ ledger.cash = Capital + profit
       /\ points # <<>> => points[Max(DOMAIN points)] = ledger.cash
       /\ points = <<>> => ledger.trades = <<>>
       /\ fillTimes \subseteq DOMAIN points
       /\ \A i \in 1..Len(ledger.trades) :
            (ledger.trades[i].closed_at = EndAt) <=> (ledger.trades[i].kind = "end_of_data")

\* First bar of the run of bars, ending at bar i, whose closes held lots.
RoundFirst(i) ==
  CHOOSE e \in 0..i : /\ \A j \in e..i : held[j + 1]
                      /\ e = 0 \/ ~held[e]

\* A round never outlives its limits: no close holds lots of a round that was
\* due at an earlier close, counting from the round's first fill whatever
\* was added, sold in part or refused since.  A bar that opens at end_at
\* fills nothing.
RoundsExpire ==
  \A i \in 0..Len(held) - 1 :
    held[i + 1] /\ OpenTime(i) < EndAt =>
      LET first == RoundFirst(i)
      IN first < i =>
           /\ MaxHoldingBars > 0 => i - first + 1 <= MaxHoldingBars
           /\ MaxHoldingTime > 0 => OpenTime(i) - OpenTime(first) < MaxHoldingTime
           /\ \A c \in Cutoffs : ~(OpenTime(first) <= c /\ c <= OpenTime(i))
=============================================================================
