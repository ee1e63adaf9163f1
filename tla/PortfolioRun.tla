---------------------------- MODULE PortfolioRun ---------------------------
(***************************************************************************)
(* run_portfolio of backtesting-py/portfolio_runner.py: weights decided on *)
(* a day's close are traded at the next day's open.  Decisions are any of  *)
(* Targets; RotationRun and DominanceRun put a strategy's in their place.  *)
(***************************************************************************)
EXTENDS PortfolioSteps

CONSTANTS
  Targets,               \* weights a close may decide
  OpenPrices, ClosePrices,    \* [Symbols -> price] the market may print
  LastDay                \* days 0..LastDay

NoTarget == <<>>

\* What a weights table may hold (rebalance).
TargetAssumption ==
  /\ \A w \in Targets : w \in [Symbols -> 0..Scale] /\ SumOver(w) <= Scale
  /\ OpenPrices \subseteq [Symbols -> Nat \ {0}]
  /\ ClosePrices \subseteq [Symbols -> Nat \ {0}]
  /\ LastDay \in Nat

VARIABLES
  phase,         \* "open", "close" or "done"
  day,
  book,          \* the PortfolioLedger
  target,        \* weights decided at the last close, or NoTarget
  snapshots,     \* cash, quantities and equity of every close
  opened         \* history: book, weights and prices of the latest rebalance

vars == <<phase, day, book, target, snapshots, opened>>

Init ==
  /\ phase = "open" /\ day = 0
  /\ book = EmptyPortfolio /\ target = NoTarget
  /\ snapshots = <<>> /\ opened = <<>>

\* The open: trade what the previous close decided.
Open(prices) ==
  /\ phase = "open" /\ phase' = "close"
  /\ IF target = NoTarget
     THEN UNCHANGED <<book, target, opened>>
     ELSE /\ book' = Rebalance(book, day - 1, target, day, prices)
          /\ opened' = <<[at |-> day, before |-> book, weights |-> target, prices |-> prices]>>
          /\ target' = NoTarget
  /\ UNCHANGED <<day, snapshots>>

\* The close: mark, then decide; the last decision has no next open.
Close(prices, decision) ==
  /\ phase = "close"
  /\ snapshots' = Append(snapshots,
       [ts |-> day, cash |-> book.cash, quantities |-> [s \in Symbols |-> Quantity(book, s)],
        prices |-> prices, equity |-> Equity(book, prices)])
  /\ IF day < LastDay
     THEN /\ phase' = "open" /\ day' = day + 1
          /\ target' = decision /\ UNCHANGED book
     ELSE /\ phase' = "done" /\ UNCHANGED <<day, target>>
          /\ book' = IF decision = NoTarget THEN book
                     ELSE [book EXCEPT !.rejections = Append(@,
                             [decision_ts |-> day, ts |-> day, symbol |-> "", side |-> "",
                              reason |-> "no_next_open"])]
  /\ UNCHANGED opened

Next ==
  \/ \E prices \in OpenPrices : Open(prices)
  \/ \E prices \in ClosePrices, decision \in Targets \cup {NoTarget} : Close(prices, decision)

Spec == Init /\ [][Next]_vars

-----------------------------------------------------------------------------
\* Types; cash is never borrowed and no quantity is owed.
TypeOK ==
  /\ phase \in {"open", "close", "done"} /\ day \in 0..LastDay
  /\ book.cash \in Nat
  /\ \A s \in Symbols : \A i \in 1..Len(book.lots[s]) : book.lots[s][i].qty \in Nat \ {0}
  /\ target = NoTarget \/ target \in [Symbols -> 0..Scale]

Signed(fill) == IF fill.side = "buy" THEN 1 ELSE -1

CashFlow(fill) == -(Signed(fill) * Scale * fill.qty * fill.price) - fill.fee - fill.slippage

\* Algorithm B of reconcile_snapshots: cash and quantities rebuilt from the
\* first n fills alone.
ReplayedCash(n) == Scale * InitialCash + Total([i \in 1..n |-> CashFlow(book.fills[i])])
Moved(fill, s) == IF fill.symbol = s THEN Signed(fill) * fill.qty ELSE 0
ReplayedQuantity(n, s) == Total([i \in 1..n |-> Moved(book.fills[i], s)])

\* The replay has read n fills when it comes to a snapshot taken then.
ReadBy(n, at) ==
  /\ \A i \in 1..n : book.fills[i].ts <= at
  /\ n < Len(book.fills) => book.fills[n + 1].ts > at

\* Replaying the fills never borrows, and every snapshot, of any day, is what
\* the fills before it replay to, equity included: PortfolioInvariantError is
\* never raised and no later fill reaches back.
SnapshotsReconcile ==
  /\ \A n \in 1..Len(book.fills) :
       ReplayedCash(n) >= 0 /\ \A s \in Symbols : ReplayedQuantity(n, s) >= 0
  /\ \A i \in 1..Len(snapshots) : \E n \in 0..Len(book.fills) :
       LET snap == snapshots[i]
       IN /\ ReadBy(n, snap.ts)
          /\ snap.cash = ReplayedCash(n)
          /\ \A s \in Symbols : snap.quantities[s] = ReplayedQuantity(n, s)
          /\ snap.equity = ReplayedCash(n)
               + Scale * SumOver([s \in Symbols |-> ReplayedQuantity(n, s) * snap.prices[s]])

RejectedAs(s, reasons) ==
  \E i \in 1..Len(book.rejections) :
    /\ book.rejections[i].ts = day /\ book.rejections[i].symbol = s
    /\ book.rejections[i].reason \in reasons

\* After a rebalance every symbol is within a step of its share of the equity
\* before it, on the side it came from; or its order was under a minimum; or
\* it is a buy and the cash left pays for no other step - whatever the other
\* symbols traded first.
LandsOnTarget ==
  (phase = "close" /\ opened # <<>> /\ opened[1].at = day) =>
    LET o == opened[1]
        nav == Equity(o.before, o.prices)
    IN \A s \in Symbols :
         LET unit == o.prices[s] * Scale * Scale
             gap == Gap(book, s, nav, o.weights[s], o.prices[s])
             came == Gap(o.before, s, nav, o.weights[s], o.prices[s])
         IN /\ came >= 0 => 0 <= gap
            /\ came <= 0 => gap <= 0
            /\ \/ (IF gap > 0 THEN gap ELSE -gap) < unit * QtyStep[s]
               \/ RejectedAs(s, {"below_min_qty", "below_min_notional"})
               \/ came > 0 /\ book.cash < UnitCost(o.prices[s]) * QtyStep[s]
=============================================================================
