----------------------------- MODULE LotSteps ------------------------------
(***************************************************************************)
(* ScaleInOutLedger of backtesting-py/scale_in_out_ledger.py: a spot, long *)
(* only ledger of lots bought and sold in parts, as steps over one record. *)
(*                                                                         *)
(* Units.  A quantity is a whole number of QTY_SCALE steps and money a     *)
(* whole number of CASH_SCALE units, priced so that quantity times price   *)
(* is whole, as the code's exact decimals are.                             *)
(***************************************************************************)
EXTENDS Integers, Sequences, SequencesExt

CONSTANTS
  LotOrder,               \* "fifo" or "lifo"
  FeeBps, SlippageBps,
  Capital,                \* initial_capital
  BuyNotional, SellNotional,
  None

\* What __init__ accepts.
LotAssumption ==
  /\ LotOrder \in {"fifo", "lifo"}
  /\ FeeBps \in Nat /\ SlippageBps \in Nat /\ FeeBps + SlippageBps < 10000
  /\ {Capital, BuyNotional, SellNotional} \subseteq Nat \ {0}
  /\ None \notin Int

\* What an order may be sold as, and what a trade is closed as.
OrderKinds == {"signal_exit", "stop_loss", "take_profit"}
TradeKinds == OrderKinds \cup {"time_exit", "end_of_data"}

Lot == [opened_at : Int, entry_price : Nat, qty : Nat, fee_left : Nat, slippage_left : Nat]
Trade == [opened_at : Int, closed_at : Int, qty : Nat, entry_price : Nat, exit_price : Nat,
          fee : Nat, slippage : Nat, pnl : Int,
          kind : TradeKinds]

Lesser(a, b) == IF a < b THEN a ELSE b

\* round_cash_product: half up to a whole unit.
Charge(amount, bps) == (2 * amount * bps + 10000) \div 20000

FloorQty(amount, price) == amount \div price

EmptyLedger ==
  [cash |-> Capital, lots |-> <<>>, trades |-> <<>>, realized |-> 0,
   bought |-> 0, sold |-> 0, invested |-> 0,
   buy_fills |-> 0, sell_fills |-> 0, skipped_buys |-> 0,
   buys_this_bar |-> 0, sells_this_bar |-> 0, last_sold |-> None,
   raised |-> FALSE]

BeginBar(ledger) == [ledger EXCEPT !.buys_this_bar = 0, !.sells_this_bar = 0]

\* The sum of a sequence of numbers.
Total(values) ==
  LET upTo[n \in 0..Len(values)] == IF n = 0 THEN 0 ELSE upTo[n - 1] + values[n]
  IN upTo[Len(values)]

Holding(ledger) == Total([i \in DOMAIN ledger.lots |-> ledger.lots[i].qty])

EquityByCash(ledger, price) == ledger.cash + Holding(ledger) * price

UnrealizedOf(lot, price) ==
  (price - lot.entry_price) * lot.qty - lot.fee_left - lot.slippage_left
UnrealizedPnl(ledger, price) ==
  Total([i \in DOMAIN ledger.lots |-> UnrealizedOf(ledger.lots[i], price)])

EquityByPnl(ledger, price) == Capital + ledger.realized + UnrealizedPnl(ledger, price)

\* What a buy takes from the cash.
Cost(gross, fee, slippage) == gross + fee + slippage

\* buy: a lot at the bar's open, skipped whole when the cash is short.
Buy(ledger, at, price, notional) ==
  LET qty == FloorQty(notional, price)
      gross == qty * price
      fee == Charge(gross, FeeBps)
      slippage == Charge(gross, SlippageBps)
      lot == [opened_at |-> at, entry_price |-> price, qty |-> qty,
              fee_left |-> fee, slippage_left |-> slippage]
  IN IF qty = 0 THEN [filled |-> FALSE, ledger |-> ledger]
     ELSE IF Cost(gross, fee, slippage) > ledger.cash
     THEN [filled |-> FALSE, ledger |-> [ledger EXCEPT !.skipped_buys = @ + 1]]
     ELSE [filled |-> TRUE,
           ledger |-> [ledger EXCEPT
             !.cash = @ - (gross + fee + slippage),
             !.lots = Append(@, lot),
             !.bought = @ + qty,
             !.invested = @ + gross,
             !.last_sold = IF LotOrder = "lifo" THEN None ELSE @,
             !.buy_fills = @ + 1,
             !.buys_this_bar = @ + 1]]

\* Mutation: the last portion of a lot is charged like any other.
EntryShareRounded(lot, qty, left, bps) == Lesser(Charge(lot.entry_price * qty, bps), left)

\* The part of a lot's entry charge that falls on qty of it: the last
\* portion takes whatever is left.
EntryShare(lot, qty, left, bps) ==
  IF qty = lot.qty THEN left ELSE Lesser(Charge(lot.entry_price * qty, bps), left)

ExitFee(gross) == Lesser(Charge(gross, FeeBps), gross)
ExitSlippage(gross) == Lesser(Charge(gross, SlippageBps), gross - ExitFee(gross))

\* The assertion _close_portion makes before it sells.
OutOfOrder(last, lot) ==
  /\ last # None
  /\ \/ LotOrder = "fifo" /\ lot.opened_at < last
     \/ LotOrder = "lifo" /\ lot.opened_at > last

\* _close_portion, and the rest of the lot it leaves.
ClosePortion(ledger, lot, qty, at, price, kind) ==
  LET entryFee == EntryShare(lot, qty, lot.fee_left, FeeBps)
      entrySlippage == EntryShare(lot, qty, lot.slippage_left, SlippageBps)
      gross == price * qty
      fee == entryFee + ExitFee(gross)
      slippage == entrySlippage + ExitSlippage(gross)
      pnl == (price - lot.entry_price) * qty - fee - slippage
  IN [ledger |-> [ledger EXCEPT
        !.cash = @ + gross - ExitFee(gross) - ExitSlippage(gross),
        !.realized = @ + pnl,
        !.sold = @ + qty,
        !.last_sold = lot.opened_at,
        !.raised = @ \/ OutOfOrder(ledger.last_sold, lot),
        !.trades = Append(@,
          [opened_at |-> lot.opened_at, closed_at |-> at, qty |-> qty,
           entry_price |-> lot.entry_price, exit_price |-> price,
           fee |-> fee, slippage |-> slippage, pnl |-> pnl, kind |-> kind])],
      rest |-> [lot EXCEPT !.qty = @ - qty, !.fee_left = @ - entryFee,
                           !.slippage_left = @ - entrySlippage]]

\* check_invariants: (1) two ways to the equity, (2) quantities, (4) cash, (5) one side a bar.
Consistent(ledger, price) ==
  /\ EquityByCash(ledger, price) = EquityByPnl(ledger, price)
  /\ Holding(ledger) = ledger.bought - ledger.sold
  /\ ledger.cash >= 0
  /\ ledger.buys_this_bar = 0 \/ ledger.sells_this_bar = 0

Checked(ledger, price) == [ledger EXCEPT !.raised = @ \/ ~Consistent(ledger, price)]

CountSell(ledger) == [ledger EXCEPT !.sell_fills = @ + 1, !.sells_this_bar = @ + 1]

\* lots[_head]: the oldest lot or the newest.
HeadAt(lots) == IF LotOrder = "fifo" THEN 1 ELSE Len(lots)

\* A portion of the head lot; a lot sold whole leaves the book.
SellPortion(ledger, qty, at, price, kind) ==
  LET lots == ledger.lots
      head == HeadAt(lots)
      closed == ClosePortion(ledger, lots[head], qty, at, price, kind)
  IN [closed.ledger EXCEPT !.lots = IF qty = lots[head].qty THEN RemoveAt(lots, head)
                                    ELSE [lots EXCEPT ![head] = closed.rest]]

\* sell: portion after portion until the target quantity is gone.
SellNext(acc, at, price, kind) ==
  LET lots == acc.ledger.lots
      portion == Lesser(lots[HeadAt(lots)].qty, acc.left)
  IN IF acc.left = 0 THEN acc
     ELSE [left |-> acc.left - portion,
           ledger |-> SellPortion(acc.ledger, portion, at, price, kind)]
SellQty(ledger, target, at, price, kind) ==
  LET after[n \in 0..Len(ledger.lots)] ==
        IF n = 0 THEN [left |-> target, ledger |-> ledger]
        ELSE SellNext(after[n - 1], at, price, kind)
  IN after[Len(ledger.lots)].ledger

Sell(ledger, at, price, kind) ==
  LET target == Lesser(FloorQty(SellNotional, price), Holding(ledger))
  IN IF target = 0 THEN [filled |-> FALSE, ledger |-> ledger]
     ELSE [filled |-> TRUE, ledger |-> CountSell(SellQty(ledger, target, at, price, kind))]

\* sell_all as run_scale_in_out submits it: one counted sell.
SellAll(ledger, at, price, kind) ==
  IF ledger.lots = <<>> THEN [filled |-> FALSE, ledger |-> ledger]
  ELSE [filled |-> TRUE,
        ledger |-> CountSell(SellQty(ledger, Holding(ledger), at, price, kind))]

\* sell_lot: the whole lot the order puts first.
SellLot(ledger, at, price, kind) ==
  IF ledger.lots = <<>> THEN [filled |-> FALSE, ledger |-> ledger]
  ELSE [filled |-> TRUE,
        ledger |-> CountSell(SellPortion(ledger, ledger.lots[HeadAt(ledger.lots)].qty,
                                         at, price, kind))]
=============================================================================
