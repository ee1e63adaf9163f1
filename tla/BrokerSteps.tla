---------------------------- MODULE BrokerSteps ----------------------------
(***************************************************************************)
(* The broker of the backtesting library, as the single-asset templates of *)
(* backtesting-py/cutie_backtesting_provider.py use it: whole units,       *)
(* market entries, plain closes, and a stop and a limit that belong to one *)
(* trade.  A desk is a record that holds at least the fields of EmptyDesk; *)
(* each operator returns the desk after one call of the library.           *)
(* External code, modelled from its use.                                   *)
(***************************************************************************)
EXTENDS Integers, Sequences, SequencesExt, FiniteSets

NoLevel == 0                 \* no stop or limit: prices are positive
NoKind == "none"

\* An order of a trade names it by the bar it was opened on.
EntryOrder(side) == [kind |-> "entry", trade |-> -1, side |-> side, units |-> 0, at |-> NoLevel]
CloseOrder(t, n) == [kind |-> "close", trade |-> t.opened, side |-> t.side, units |-> n, at |-> NoLevel]
Protective(t, kind, level) ==
  [kind |-> kind, trade |-> t.opened, side |-> t.side, units |-> t.units, at |-> level]

EmptyDesk(cash) == [orders |-> <<>>, trades |-> <<>>, closed |-> <<>>, cash |-> cash]

HasTrade(s, opened) == \E i \in 1..Len(s.trades) : s.trades[i].opened = opened
TradeAt(s, opened) == s.trades[CHOOSE i \in 1..Len(s.trades) : s.trades[i].opened = opened]
SetTrade(s, t) ==
  [s EXCEPT !.trades = [i \in 1..Len(@) |-> IF @[i].opened = t.opened THEN t ELSE @[i]]]

Contingent(o) == o.kind \in {"sl", "tp"}
AtHead(s, o) == [s EXCEPT !.orders = <<o>> \o @]
Entries(s) == {o \in ToSet(s.orders) : o.kind = "entry"}
Dropped(s, gone) == [s EXCEPT !.orders = SelectSeq(@, LAMBDA o : o \notin gone)]
Without(s, o) == [s EXCEPT !.orders = RemoveFirst(@, o)]

\* trade.sl = level and trade.tp = level: the old order goes, the new one is first.
Protected(s, t, kind, level) ==
  LET bare == Dropped(s, {o \in ToSet(s.orders) : o.kind = kind /\ o.trade = t.opened})
  IN IF level = NoLevel THEN bare ELSE AtHead(bare, Protective(t, kind, level))

\* The worst and the best price of a candle for a side.
Worst(side, k) == IF side = 1 THEN k.l ELSE k.h
Best(side, k) == IF side = 1 THEN k.h ELSE k.l
StopTouched(side, level, k) == side * (Worst(side, k) - level) <= 0
TakeTouched(side, level, k) == side * (Best(side, k) - level) >= 0
StopGap(side, level, k) == side * (k.o - level) <= 0
TakeGap(side, level, k) == side * (k.o - level) >= 0

\* An order fills on this candle, at this price: a level, or the open past it.
Due(o, k) ==
  CASE o.kind = "sl" -> StopTouched(o.side, o.at, k)
    [] o.kind = "tp" -> TakeTouched(o.side, o.at, k)
    [] OTHER -> TRUE
FillPrice(o, k) ==
  CASE o.kind = "sl" -> IF StopGap(o.side, o.at, k) THEN k.o ELSE o.at
    [] o.kind = "tp" -> IF TakeGap(o.side, o.at, k) THEN k.o ELSE o.at
    [] OTHER -> k.o

Profit(t, n, price) == t.side * n * (price - t.entry)
Equity(s, k) ==
  s.cash + FoldLeft(LAMBDA sum, t : sum + Profit(t, t.units, k.c), 0, s.trades)

\* _close_trade: the trade goes, and its stop and limit with it.
CloseTrade(s, t, price) ==
  [Dropped(s, {o \in ToSet(s.orders) : Contingent(o) /\ o.trade = t.opened}) EXCEPT
     !.trades = SelectSeq(@, LAMBDA x : x.opened # t.opened),
     !.closed = Append(@, t @@ [exit |-> price]),
     !.cash = @ + Profit(t, t.units, price)]

\* _reduce_trade: part of a trade closes as a copy, the rest keeps its orders.
ReduceTrade(s, t, n, price) ==
  IF n = t.units THEN CloseTrade(s, t, price)
  ELSE LET rest == t.units - n
       IN [SetTrade(s, [t EXCEPT !.units = rest]) EXCEPT
             !.orders = [i \in 1..Len(@) |->
                           IF Contingent(@[i]) /\ @[i].trade = t.opened
                           THEN [@[i] EXCEPT !.units = rest] ELSE @[i]],
             !.closed = Append(@, [t EXCEPT !.units = n] @@ [exit |-> price]),
             !.cash = @ + Profit(t, n, price)]

\* The same order object: a stop or a limit may have been resized meanwhile.
Is(o, p) == p = IF Contingent(o) THEN [o EXCEPT !.units = p.units] ELSE o

\* The pass over a copy of the queue fills an order that still stands and is due.
Standing(s, o, k) == SelectSeq(s.orders, LAMBDA p : Is(o, p) /\ Due(o, k))
=============================================================================
