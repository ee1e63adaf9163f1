--------------------------- MODULE PortfolioSteps --------------------------
(***************************************************************************)
(* PortfolioLedger of backtesting-py/portfolio_ledger.py: one rebalance of *)
(* a spot portfolio with shared cash, as a step over one record.           *)
(*                                                                         *)
(* Units.  Prices and quantities are whole.  Rates are in 1/Scale, weights *)
(* in 1/Scale, and money in 1/Scale of a quote unit, so that costs are     *)
(* exact, as they are in the code's decimal128.                            *)
(***************************************************************************)
EXTENDS Integers, Sequences

CONSTANTS
  Pool,                     \* the symbols, in the frozen order of the pool
  QtyStep, MinQty, MinNotional,        \* SpotSpec, by symbol
  Scale, FeeRate, SlippageRate,
  InitialCash               \* whole quote units

Symbols == {Pool[i] : i \in 1..Len(Pool)}

\* What __init__ and SpotSpec accept.
PortfolioAssumption ==
  /\ Len(Pool) \in 1..30
  /\ \A i, j \in 1..Len(Pool) : Pool[i] = Pool[j] => i = j
  /\ QtyStep \in [Symbols -> Nat \ {0}]
  /\ MinQty \in [Symbols -> Nat] /\ MinNotional \in [Symbols -> Nat]
  /\ Scale \in Nat \ {0} /\ FeeRate \in Nat /\ SlippageRate \in Nat
  /\ FeeRate + SlippageRate < Scale
  /\ InitialCash \in Nat \ {0}

Lesser(a, b) == IF a < b THEN a ELSE b

EmptyPortfolio ==
  [cash |-> Scale * InitialCash, lots |-> [s \in Symbols |-> <<>>],
   fills |-> <<>>, rejections |-> <<>>]

\* The sum of a sequence of numbers.
Total(values) ==
  LET upTo[n \in 0..Len(values)] == IF n = 0 THEN 0 ELSE upTo[n - 1] + values[n]
  IN upTo[Len(values)]

Quantity(book, s) == Total([i \in DOMAIN book.lots[s] |-> book.lots[s][i].qty])

SumOver(f) == Total([i \in 1..Len(Pool) |-> f[Pool[i]]])

\* Equity in 1/Scale: mark(), and the NAV a rebalance starts from.
Equity(book, prices) ==
  book.cash + Scale * SumOver([s \in Symbols |-> Quantity(book, s) * prices[s]])

\* _floor_steps: as many whole steps as the amount pays for.
FloorSteps(amount, unitCost, step) == (amount \div (unitCost * step)) * step

\* Unit price with its costs, in 1/Scale.
UnitCost(price) == price * (Scale + FeeRate + SlippageRate)

\* The part of a buy the cash pays for, costs included.
Affordable(book, s, price, qty) == Lesser(qty, FloorSteps(book.cash, UnitCost(price), QtyStep[s]))

\* Why an order of this quantity is not sent, or "none".
Rejection(book, side, s, price, qty) ==
  CASE qty = 0 -> IF side = "buy" /\ book.cash < UnitCost(price) * QtyStep[s]
                  THEN "insufficient_cash" ELSE "below_qty_step"
    [] qty > 0 /\ qty < MinQty[s] -> "below_min_qty"
    [] qty > 0 /\ qty >= MinQty[s] /\ qty * price < MinNotional[s] -> "below_min_notional"
    [] OTHER -> "none"

\* A sale takes what it still needs of the next lot; a lot sold whole is dropped.
TakeFrom(acc, lot) ==
  LET take == Lesser(acc.left, lot.qty)
  IN [left |-> acc.left - take,
      kept |-> IF take = lot.qty THEN acc.kept
               ELSE Append(acc.kept, [lot EXCEPT !.qty = @ - take])]

\* The lots a sale of qty leaves, oldest sold first.
Fifo(lots, qty) ==
  LET after[n \in 0..Len(lots)] ==
        IF n = 0 THEN [left |-> qty, kept |-> <<>>] ELSE TakeFrom(after[n - 1], lots[n])
  IN after[Len(lots)].kept

Fill(book, side, s, qty, price, at) ==
  LET gross == qty * price
      fee == gross * FeeRate
      slippage == gross * SlippageRate
      fill == [ts |-> at, symbol |-> s, side |-> side, qty |-> qty, price |-> price,
               fee |-> fee, slippage |-> slippage]
  IN [book EXCEPT
        !.cash = IF side = "buy" THEN @ - (Scale * gross + fee + slippage)
                 ELSE @ + (Scale * gross - fee - slippage),
        !.lots[s] = IF side = "buy"
                    THEN Append(@, [opened_at |-> at, qty |-> qty, price |-> price])
                    ELSE Fifo(@, qty),
        !.fills = Append(@, fill)]

\* What a symbol's target is worth more than the symbol held, in 1/Scale^2.
Gap(book, s, nav, weight, price) == nav * weight - Quantity(book, s) * price * Scale * Scale

\* One order of _execute: the symbol on this side, if its gap is.
Order(book, side, s, weights, prices, nav, decided, at) ==
  LET price == prices[s]
      gap == Gap(book, s, nav, weights[s], price)
      wanted == FloorSteps(IF gap > 0 THEN gap ELSE -gap, price * Scale * Scale, QtyStep[s])
      qty == IF side = "buy" THEN Affordable(book, s, price, wanted) ELSE wanted
      reason == Rejection(book, side, s, price, qty)
  IN IF (side = "buy" /\ gap <= 0) \/ (side = "sell" /\ gap >= 0) THEN book
     ELSE IF reason # "none"
     THEN [book EXCEPT !.rejections = Append(@,
             [decision_ts |-> decided, ts |-> at, symbol |-> s, side |-> side, reason |-> reason])]
     ELSE Fill(book, side, s, qty, price, at)

\* Mutation: buys come before sells.
BuysFirst == [i \in 1..2 * Len(Pool) |->
  IF i <= Len(Pool) THEN [side |-> "buy", symbol |-> Pool[i]]
  ELSE [side |-> "sell", symbol |-> Pool[i - Len(Pool)]]]

\* Every sell before any buy, each side in the pool's order.
Orders == [i \in 1..2 * Len(Pool) |->
  IF i <= Len(Pool) THEN [side |-> "sell", symbol |-> Pool[i]]
  ELSE [side |-> "buy", symbol |-> Pool[i - Len(Pool)]]]

\* rebalance: staged and committed whole.
Rebalance(book, decided, weights, at, prices) ==
  LET nav == Equity(book, prices)
      after[n \in 0..2 * Len(Pool)] ==
        IF n = 0 THEN book
        ELSE Order(after[n - 1], Orders[n].side, Orders[n].symbol,
                   weights, prices, nav, decided, at)
  IN after[2 * Len(Pool)]
=============================================================================
