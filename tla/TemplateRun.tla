---------------------------- MODULE TemplateRun ----------------------------
(***************************************************************************)
(* The overlay every single-position template of backtesting-py runs under *)
(* (_FixedRiskMixin and the classes wrapped around it): protective orders  *)
(* placed at the fill, isolated liquidation, dynamic stops, partial        *)
(* targets, sizing at the fill, pattern confirmation, the names of exits   *)
(* and the settlement of the last bar.  A template's own signal is any of  *)
(* "buy", "sell", "close" and "hold"; TemplateSignals says which.          *)
(***************************************************************************)
EXTENDS BrokerSteps

CONSTANTS
  Candles,       \* the candles a bar may be: [o, h, l, c]
  Layers,        \* the settings a run may have
  Capital,
  LastBar

None == -1

ASSUME TemplateAssumption ==
  /\ LastBar \in Nat \ {0} /\ Capital \in Nat \ {0}
  /\ \A k \in Candles : 0 < k.l /\ k.l <= k.o /\ k.l <= k.c /\ k.o <= k.h /\ k.c <= k.h
  /\ \A y \in Layers :
       /\ y.layer \in BOOLEAN /\ y.clock \in BOOLEAN /\ y.breakeven \in BOOLEAN /\ y.compound \in BOOLEAN
       /\ y.leverage \in 1..20 /\ y.size \in 1..100 /\ y.risk \in 0..100
       /\ y.stop \in 0..99 /\ y.take \in Nat /\ y.trail \in 0..99 /\ y.holding \in Nat
       /\ y.confirm \in 0..5
       /\ y.levels # <<>> => y.layer /\ (y.stop # 0 \/ y.trail # 0)
       /\ (y.trail # 0 \/ y.breakeven \/ y.holding # 0) => y.layer
       /\ y.breakeven => y.stop # 0 \/ y.trail # 0
       /\ y.risk # 0 => y.stop # 0 \/ y.trail # 0 \/ y.frozen = "signal"
       /\ \A i \in DOMAIN y.levels : y.levels[i].share \in 1..100
       /\ y.frozen \in {"none", "close", "wave", "signal"}
       /\ y.frozen \in {"close", "wave"} => y.stop # 0 /\ y.take # 0
       /\ y.frozen = "signal" => y.stop = 0 /\ y.take = 0 /\ y.trail = 0 /\ y.reward \in Nat \ {0}

VARIABLES
  layer,     \* the settings of this run
  phase,     \* "bar" the broker is next, "next" the strategy, "final", "end" or "refused"
  desk,      \* the broker's orders, trades and cash, and what the strategy remembers
  queue      \* the pattern signals that wait for their confirmation, and their tally

vars == <<layer, phase, desk, queue>>

\* Templates whose levels are frozen before the fill bring their own protection.
Freezes == layer.frozen # "none"
native == Freezes \/ (layer.layer /\ (layer.stop # 0 \/ layer.take # 0 \/ layer.trail # 0))
Leveraged == layer.leverage > 1
AtFinalBar(s) == s.bar = LastBar

-----------------------------------------------------------------------------
(* The levels of a trade (strategy_risk_overlay, strategy_dynamic_stop).    *)

Greater(a, b) == IF a > b THEN a ELSE b
Percent(price, pct) == (price * pct) \div 100
Tighter(side, a, b) == side * (a - b) > 0
Tightest(side, a, b) == IF Tighter(side, a, b) THEN a ELSE b

\* initial_stop_price and initial_risk_state.
InitialStop(side, entry) ==
  LET pct == IF layer.stop # 0 THEN layer.stop ELSE layer.trail
  IN IF ~native \/ pct = 0 THEN NoLevel ELSE entry - side * Percent(entry, pct)
InitialTake(side, entry) ==
  IF native /\ layer.take # 0 /\ layer.levels = <<>>
  THEN entry + side * Percent(entry, layer.take) ELSE NoLevel
Managed == layer.layer /\ (layer.trail # 0 \/ layer.breakeven)
LevelPrice(t, i) == t.base + layer.levels[i].r * (t.base - t.initial)

\* The levels a template freezes at a bar's close: from that close, or the far
\* end of the pattern.
Freeze(s, side) ==
  [ref |-> s.k.c,
   stop |-> IF layer.frozen = "signal" THEN Worst(side, s.k) - side ELSE InitialStop(side, s.k.c),
   take |-> InitialTake(side, s.k.c)]

\* The levels of a fill: those of its price, or the frozen ones; a pattern's
\* target is measured from its stop.
Levels(s, side) ==
  CASE layer.frozen = "none" -> [ref |-> s.k.o, stop |-> InitialStop(side, s.k.o),
                                 take |-> InitialTake(side, s.k.o)]
    [] layer.frozen = "signal" ->
         [s.frozen EXCEPT !.take = s.k.o + layer.reward * (s.k.o - s.frozen.stop)]
    [] OTHER -> s.frozen

NewTrade(s, side, n) ==
  LET at == Levels(s, side)
  IN [opened |-> s.bar, side |-> side, entry |-> s.k.o, units |-> n, original |-> n,
   base |-> at.ref, initial |-> at.stop, stop |-> at.stop, take |-> at.take, extreme |-> s.k.o, active |-> FALSE, reached |-> 0, kind |-> NoKind,
   liquidated |-> None, settled |-> 0]

\* advance_risk_state: the stop for the bars after this one; an entry bar counts for nothing.
AdvanceStop(s, t) ==
  IF ~Managed \/ t.opened = s.bar THEN t
  ELSE LET extreme == Tightest(t.side, t.extreme, Best(t.side, s.k))
           oneR == t.side * (t.entry - t.initial)
           active == t.active
                     \/ (layer.breakeven /\ t.side * (s.k.c - t.entry) >= oneR)
           trailed == IF layer.trail = 0 THEN t.stop
                      ELSE Tightest(t.side, t.stop, extreme - t.side * Percent(extreme, layer.trail))
       IN [t EXCEPT !.extreme = extreme, !.active = active,
                    !.stop = IF active THEN Tightest(t.side, trailed, t.entry) ELSE trailed]

\* level_exit: the levels reached so far ask for a share of the original units.
Reached(s, t) ==
  LET missed == {i \in t.reached + 1..Len(layer.levels) :
                   ~TakeTouched(t.side, LevelPrice(t, i), s.k)}
  IN IF missed = {} THEN Len(layer.levels)
     ELSE (CHOOSE i \in missed : \A j \in missed : i <= j) - 1
\* Mutation: a level takes its share of what is left, not of the original units.
LevelUnitsOfTheRest(t, reached) ==
  IF reached = t.reached THEN 0 ELSE (t.units * layer.levels[reached].share) \div 100
LevelUnits(t, reached) ==
  LET cumulative == FoldLeft(LAMBDA sum, v : sum + v.share, 0, SubSeq(layer.levels, 1, reached))
      target == (t.original * cumulative) \div 100
      done == t.original - t.units
  IN IF reached = t.reached THEN 0
     ELSE IF cumulative = 100 THEN t.units
     ELSE IF target > done THEN target - done ELSE 0

LiquidationTouched(t, k) ==
  t.side * (layer.leverage * Worst(t.side, k) - t.entry * (layer.leverage - t.side)) <= 0
LiquidationGap(t, k) ==
  t.side * (layer.leverage * k.o - t.entry * (layer.leverage - t.side)) <= 0
LiquidationPrice(t) == (t.entry * (layer.leverage - t.side)) \div layer.leverage
LiquidationFill(t, k) == IF LiquidationGap(t, k) THEN k.o ELSE LiquidationPrice(t)

-----------------------------------------------------------------------------
(* Names of exits (_exit_kind_strategy).                                    *)

ExitKinds == {"stop_loss", "take_profit", "trailing_stop", "time_exit", "signal_exit",
              "liquidation", "end_of_data"}
KindOfReason(reason) ==
  CASE reason = "time_expiry" -> "time_exit"
    [] reason = "take_profit_levels" -> "take_profit"
    [] OTHER -> reason
SetReason(s, reason) == [s EXCEPT !.reason = reason, !.pending = KindOfReason(reason)]
MarkKind(s, kind) == [s EXCEPT !.pending = kind]

\* _stop_exit_kind.
StopKind(t) ==
  LET trail == t.extreme - t.side * Percent(t.extreme, layer.trail)
  IN IF \/ ~Managed \/ layer.trail = 0 \/ Tighter(t.side, t.initial, trail)
        \/ (t.active /\ ~Tighter(t.side, trail, t.entry))
     THEN "stop_loss" ELSE "trailing_stop"

\* _stamp: the latest plain close queued for a trade names its exit.
Stamp(s, t) ==
  IF s.pending # NoKind THEN s.pending
  ELSE IF s.during = "next" THEN "signal_exit"
  ELSE IF s.during = "broker" THEN "unresolved"
  ELSE IF t.kind = "liquidation" THEN t.kind ELSE "end_of_data"
QueueClose(s, t, n) == AtHead(SetTrade(s, [t EXCEPT !.kind = Stamp(s, t)]), CloseOrder(t, n))
CloseAll(s) == FoldLeft(LAMBDA acc, t : QueueClose(acc, t, t.units), s, s.trades)

\* _filled_parent_order: what stamp_fill and on_reduce take the fill of a trade for.
FilledParentOrder(s, t, triggered) ==
  LET mine == SelectSeq(s.orders, LAMBDA o : o.trade = t.opened /\ (o.kind = "sl" => o = triggered)
                                             /\ (o.kind = "tp" => Due(o, s.k)))
  IN Head(mine)
StampFill(s, t, o) ==
  CASE o.kind = "sl" -> SetTrade(s, [t EXCEPT !.kind = StopKind(t)])
    [] o.kind = "tp" -> SetTrade(s, [t EXCEPT !.kind = "take_profit"])
    [] OTHER -> s

-----------------------------------------------------------------------------
(* Isolated liquidation and protective orders (_FixedRiskMixin).            *)

Isolated == Leveraged \/ layer.risk # 0
PendingClose(s, t, but) ==
  \E i \in 1..Len(s.orders) :
    s.orders[i].kind = "close" /\ s.orders[i].trade = t.opened /\ s.orders[i] # but
NoOrder == EntryOrder(0)

\* An exit that takes the bar, or leaves it to the template's signal.
Leaves(d) == [leaves |-> TRUE, desk |-> d]
Stays(d) == [leaves |-> FALSE, desk |-> d]

\* _risk_isolated_exit: whether the trade leaves, and the desk after it.
IsolatedExit(s, stop, reduced) ==
  LET t == Head(s.trades)
      saved == /\ ~LiquidationGap(t, s.k) /\ stop # NoLevel /\ ~AtFinalBar(s)
               /\ t.side * (stop * layer.leverage - t.entry * (layer.leverage - t.side)) > 0
      record == [t EXCEPT !.liquidated = s.bar, !.settled = LiquidationFill(t, s.k)]
  IN IF PendingClose(s, t, reduced) THEN Leaves(s)
     ELSE IF ~LiquidationTouched(t, s.k) \/ saved THEN Stays(s)
     ELSE Leaves(CloseAll(SetReason([SetTrade(s, record) EXCEPT !.blockedBar = s.bar],
                                    "liquidation")))

Protect(s, t) ==
  LET limited == IF t.take = NoLevel THEN s ELSE Protected(s, t, "tp", t.take)
  IN IF t.stop = NoLevel THEN limited ELSE Protected(limited, t, "sl", t.stop)
Unprotect(s, t) == Protected(Protected(s, t, "sl", NoLevel), t, "tp", NoLevel)

\* arbitrate: before the broker fills anything, and after a partial close.
Judged(bare, t, exit) ==
  IF ~Leveraged \/ ~exit.leaves THEN bare
  ELSE IF exit.desk.reason = "liquidation"
  THEN [Unprotect(exit.desk, t) EXCEPT !.closedBar = bare.bar]
  ELSE exit.desk
Judge(bare, t, reduced) ==
  Judged(bare, t, IsolatedExit(bare, IF AtFinalBar(bare) THEN NoLevel ELSE t.stop, reduced))
Arbitrate(s, reduced) ==
  IF s.trades = <<>> THEN s
  ELSE Judge(IF AtFinalBar(s) THEN Unprotect(s, Head(s.trades)) ELSE s, Head(s.trades), reduced)

\* Mutation: a liquidation is paid what its close order is filled at.
PaidTheFill(s, t, price) == IF s.rerun THEN s.k.c ELSE price

\* settle_close: the price a close is paid, then the cash of an isolated account.
SettledPrice(s, t, price) ==
  IF Isolated /\ t.liquidated # None THEN t.settled
  ELSE IF s.rerun THEN IF t.liquidated = s.bar THEN LiquidationFill(t, s.k) ELSE s.k.c
  ELSE price
Reduced(s, t, n, paid) ==
  [ReduceTrade(s, t, n, paid) EXCEPT
     !.realized = @ + Profit(t, n, paid),
     !.refused = @ \/ (s.rerun /\ t.opened \notin s.admitted),
     !.admitted = @ \ {t.opened}]
Banked(s) == IF Isolated THEN [s EXCEPT !.cash = Capital + s.realized] ELSE s
Settle(s, t, n, price) == Banked(Reduced(s, t, n, SettledPrice(s, t, price)))

-----------------------------------------------------------------------------
(* The exits a template checks before its own signal.                       *)

Expired(s, t) == s.due \/ (layer.holding # 0 /\ s.bar - t.opened + 1 >= layer.holding)

\* _risk_layer_check_exit; a pattern's own check has no moving stop and no levels.
Carried(s, t) == IF native THEN Protect(SetTrade(s, t), t) ELSE SetTrade(s, t)
Levelled(kept, t, n) ==
  IF n = 0 THEN Stays(kept)
  ELSE Leaves(QueueClose(SetReason(kept, "take_profit_levels"), t, n))
Moved(s, moved, n) == Levelled(Carried(s, moved), moved, n)
LayerExit(s, t, isolated) ==
  IF PendingClose(s, t, NoOrder) THEN Leaves(s)
  ELSE IF Leveraged /\ isolated.leaves THEN isolated
  ELSE IF AtFinalBar(s) /\ layer.frozen # "signal" THEN Stays(s)
  ELSE IF Expired(s, t) THEN Leaves(CloseAll(SetReason(s, "time_expiry")))
  ELSE IF layer.frozen = "signal" THEN Stays(s)
  ELSE LET reached == Reached(s, t)
       IN Moved(s, AdvanceStop(s, [t EXCEPT !.reached = reached]), LevelUnits(t, reached))
LayerCheckExit(s) ==
  LET t == Head(s.trades)
  IN LayerExit(s, t, IsolatedExit(s, IF AtFinalBar(s) THEN NoLevel ELSE t.stop, NoOrder))

\* The rest of _risk_check_exit: the older layer reads closes only.
LegacyExit(s, t, fresh, isolated) ==
  LET pastStop == layer.stop # 0
                  /\ t.side * (s.k.c - t.entry) <= -Percent(t.entry, layer.stop)
      pastTake == layer.take # 0 /\ t.side * (s.k.c - t.entry) >= Percent(t.entry, layer.take)
  IN IF Leveraged /\ isolated.leaves THEN isolated
     ELSE IF layer.clock /\ PendingClose(s, t, NoOrder) THEN Leaves(s)
     ELSE IF AtFinalBar(s) \/ ~(pastStop \/ s.due \/ pastTake) THEN Stays(fresh)
     ELSE Leaves(CloseAll(IF pastStop THEN MarkKind(fresh, "stop_loss")
                          ELSE IF s.due THEN SetReason(fresh, "time_expiry")
                          ELSE MarkKind(fresh, "take_profit")))
LegacyCheckExit(s) ==
  LegacyExit(s, Head(s.trades),
             IF layer.clock THEN [s EXCEPT !.reason = NoKind, !.pending = NoKind] ELSE s,
             IsolatedExit(s, NoLevel, NoOrder))


CheckExit(s) ==
  IF s.trades = <<>> THEN Stays(s)
  ELSE IF layer.layer \/ Freezes THEN LayerCheckExit(s) ELSE LegacyCheckExit(s)

-----------------------------------------------------------------------------
(* The broker's pass under the wrapped methods.                             *)

\* A fill of a trade's order: named, settled, and the rest of the trade judged again.
Named(s, t, f, n) ==
  LET named == StampFill(s, t, f)
  IN IF ~(native /\ Contingent(f)) THEN named
     ELSE [SetReason(named, IF f.kind = "sl" THEN "stop_loss" ELSE "take_profit")
             EXCEPT !.closedBar = IF n = t.units THEN s.bar ELSE @]
PaidOut(s, o, n) == Settle(s, TradeAt(s, o.trade), n, FillPrice(o, s.k))
Rest(judged, t) ==
  LET rest == TradeAt(judged, t.opened)
  IN [SetTrade(judged, [rest EXCEPT !.kind = NoKind]) EXCEPT
        !.fresh = @ \/ rest.liquidated # t.liquidated]
AfterFill(paid, t, f) ==
  IF ~HasTrade(paid, t.opened) THEN paid
  ELSE Rest(IF ~native \/ Contingent(f) THEN paid ELSE Arbitrate(paid, f), t)
UnitsOf(o, t) == IF o.units < t.units THEN o.units ELSE t.units
FillNamed(s, o, t, f) ==
  AfterFill(PaidOut(Named(s, t, f, UnitsOf(o, t)), o, UnitsOf(o, t)), t, f)
FillOfTrade(s, o) ==
  LET t == TradeAt(s, o.trade) IN FillNamed(s, o, t, FilledParentOrder(s, t, o))

\* risk_quantity, of the initial capital or compounding of what there is, and the margin
\* check, or the library's full-margin size.
CapitalBase(s) == IF layer.compound THEN s.cash ELSE Capital
BudgetUnits(s, side) ==
  LET distance == side * (s.k.o - Levels(s, side).stop)
  IN IF distance <= 0 THEN 0 ELSE Percent(CapitalBase(s), layer.risk) \div distance
Affordable(s, n) == n * s.k.o <= s.cash * layer.leverage
EntryUnits(s, o) ==
  IF layer.risk # 0 THEN o.units
  ELSE (Percent(s.cash, layer.size) * layer.leverage) \div s.k.o

\* on_open: the levels follow the fill, and the orders are there before the bar is over.
Entered(s, t) ==
  LET open == [s EXCEPT !.trades = Append(@, t), !.fresh = TRUE]
  IN IF t.units < 1 \/ ~Affordable(s, t.units) THEN s
     ELSE IF native /\ ~AtFinalBar(s) THEN Protect(open, t) ELSE open
FillOfEntry(s, o) == Entered(s, NewTrade(s, o.side, EntryUnits(s, o)))

Fill(s, o) ==
  Without(IF o.kind = "entry" THEN FillOfEntry(s, o)
          ELSE IF HasTrade(s, o.trade) THEN FillOfTrade(s, o) ELSE s, o)
Visited(s, live) == IF live = <<>> THEN s ELSE Fill(s, Head(live))
Pass(s) == FoldLeft(LAMBDA acc, o : Visited(acc, Standing(acc, o, s.k)), s, s.orders)

\* process_before_insolvency: a liquidation the low close hid is recorded, and
\* the cash holds its loss until the close is filled.
Recorded(d, before) ==
  LET l == Head(d.trades)
      target == Capital + d.realized + Profit(l, l.units, l.settled)
  IN IF l.liquidated # before.liquidated /\ target > 0
     THEN [d EXCEPT !.cash = target - Profit(l, l.units, d.k.c)] ELSE d
BeforeInsolvency(s) ==
  IF ~Leveraged \/ Equity(s, s.k) > 0 \/ s.trades = <<>> THEN s
  ELSE Recorded(CheckExit(s).desk, Head(s.trades))

Process(s) == BeforeInsolvency(Pass(s))

\* sized_process: exits settle first, then the entry is sized at this open.
Sized(settled, o, n) ==
  IF n < 1 \/ ~Affordable(settled, n) THEN settled
  ELSE Process([settled EXCEPT !.orders = Append(@, [o EXCEPT !.units = n])])
SizedEntry(settled, entries) ==
  IF layer.risk = 0 \/ entries = <<>> \/ settled.trades # <<>> THEN settled
  ELSE Sized(settled, Head(entries), BudgetUnits(settled, Head(entries).side))
SizedProcess(s) ==
  SizedEntry(Process(IF layer.risk = 0 THEN s ELSE Dropped(s, Entries(s))),
             SelectSeq(s.orders, LAMBDA o : o.kind = "entry"))

\* arbitrate, then the pass.
Turned(s) ==
  SizedProcess(IF native THEN Arbitrate([s EXCEPT !.fresh = FALSE], NoOrder) ELSE s)

\* Mutation: the candle of the fill is not looked at again.
ProtectedOnce(s) == Turned(s)

\* protected_process: a trade opened in the pass meets the same candle once more.
Again(first) ==
  IF native /\ first.fresh /\ first.trades # <<>> THEN Turned(first) ELSE first
ProtectedProcess(s) == Again(Turned(s))

\* guarded_orders: an entry whose open is past its frozen stop or target, or too
\* far from the stop of a confirmed pattern, is cancelled before anything fills.
RiskDistanceCap == 2
Far(s, side) == side * (s.k.o - s.frozen.stop) > RiskDistanceCap * side * (s.frozen.ref - s.frozen.stop)
Refuses(s, side) ==
  \/ StopGap(side, s.frozen.stop, s.k)
  \/ /\ s.frozen.take # NoLevel /\ TakeGap(side, s.frozen.take, s.k)
     /\ layer.frozen = "wave" \/ layer.confirm # 0
  \/ layer.frozen = "signal" /\ layer.confirm # 0 /\ Far(s, side)
Guarded(s) ==
  IF ~Freezes THEN s
  ELSE Dropped(s, {o \in Entries(s) : Refuses(s, o.side)})

\* _Broker.next of an account at or under zero: every trade closes at the close.
Broke(s) ==
  LET Blown(acc, t) == Settle(acc, [t EXCEPT !.kind = "liquidation"], t.units, s.k.c)
  IN [FoldLeft(Blown, s, s.trades) EXCEPT !.cash = 0]

-----------------------------------------------------------------------------
(* Pattern confirmation (PatternConfirmQueue, _pattern_confirm_advance).    *)

EmptyQueue == [pending |-> {}, hit |-> {}, registered |-> 0, submitted |-> 0, discarded |-> 0,
               expired |-> 0, superseded |-> 0]

Register(q, s, side) ==
  [q EXCEPT !.pending = @ \union {[bar |-> s.bar, side |-> side, level |-> Best(side, s.k),
                                   frozen |-> Freeze(s, side)]},
            !.registered = @ + 1]

\* advance: the signals a close beyond their level confirms, the latest of them kept.
Advance(q, s) ==
  LET older == {e \in q.pending : e.bar < s.bar}
      hits == {e \in older : e.side * (s.k.c - e.level) > 0}
      late == {e \in older \ hits : s.bar >= e.bar + layer.confirm}
  IN [q EXCEPT !.pending = @ \ (hits \union late),
               !.hit = {e \in hits : \A f \in hits : f.bar <= e.bar},
               !.expired = @ + Cardinality(late),
               !.superseded = @ + (IF hits = {} THEN 0 ELSE Cardinality(hits) - 1)]

\* The gates of _risk_open.
Blocked(s, open) ==
  \/ layer.layer /\ s.closedBar = s.bar
  \/ Leveraged /\ s.blockedBar = s.bar
  \/ layer.clock /\ (~open \/ AtFinalBar(s))

\* buy or sell with exclusive orders: what is queued and held goes first.
PlaceEntry(s, side, frozen) ==
  LET alone == CloseAll(Dropped(s, {o \in ToSet(s.orders) : ~Contingent(o)}))
  IN [alone EXCEPT !.orders = Append(@, EntryOrder(side)), !.frozen = frozen]

\* _pattern_confirm_advance: a confirmed signal is submitted at once or never;
\* a pattern keeps the levels of its signal bar, the others freeze theirs now.
Confirm(q, s, open) ==
  LET e == CHOOSE e \in q.hit : TRUE
      stopped == s.trades # <<>> \/ s.orders # <<>> \/ s.closedBar = s.bar
                 \/ AtFinalBar(s) \/ Blocked(s, open)
  IN IF q.hit = {} THEN [queue |-> q, desk |-> s]
     ELSE IF stopped THEN [queue |-> [q EXCEPT !.discarded = @ + 1], desk |-> s]
     ELSE [queue |-> [q EXCEPT !.submitted = @ + 1], 
                 desk |-> PlaceEntry(s, e.side, IF layer.frozen = "signal" THEN e.frozen
                                                ELSE Freeze(s, e.side))]

-----------------------------------------------------------------------------
EmptyRun ==
  EmptyDesk(Capital) @@
    [bar |-> None, k |-> CHOOSE k \in Candles : TRUE, realized |-> 0, reason |-> NoKind,
     pending |-> NoKind, during |-> NoKind, closedBar |-> None, blockedBar |-> None,
     fresh |-> FALSE, due |-> FALSE, rerun |-> FALSE, refused |-> FALSE, admitted |-> {},
     nextDone |-> FALSE, frozen |-> [ref |-> 0, stop |-> NoLevel, take |-> NoLevel]]

Init == layer \in Layers /\ phase = "bar" /\ desk = EmptyRun /\ queue = EmptyQueue

\* What the broker's turn leaves: an account under water ends the run.
Settled(s) ==
  [IF Equity(s, s.k) > 0 THEN s ELSE Broke(s) EXCEPT !.during = NoKind, !.pending = NoKind, !.rerun = FALSE]

\* The pass under the wrapped methods, from the desk the strategy left.
Passed(s) ==
  ProtectedProcess(Guarded([s EXCEPT !.closed = <<>>, !.during = "broker", !.pending = NoKind]))
BrokerLeaves(s) ==
  /\ desk' = Settled(s)
  /\ phase' = IF Equity(s, s.k) > 0 THEN "next" ELSE "end"
  /\ UNCHANGED <<layer, queue>>
BrokerTurn(held, k, due) ==
  /\ phase = "bar" /\ desk.bar < LastBar
  /\ due => layer.clock
  /\ BrokerLeaves(Passed([held EXCEPT !.bar = @ + 1, !.k = k, !.due = due]))
BrokerNext(k, due) == BrokerTurn(desk, k, due)

Turn == phase' = IF desk.bar = LastBar THEN "final" ELSE "bar"
BlockedBar == native /\ desk.closedBar = desk.bar

\* protected_next on a bar a protective fill closed: only pattern signals move.
BlockedNext(open) ==
  /\ phase = "next" /\ BlockedBar
  /\ LET c == Confirm(Advance(queue, desk), desk, open)
     IN /\ queue' = IF layer.confirm = 0 THEN queue ELSE [c.queue EXCEPT !.hit = {}]
        /\ UNCHANGED desk
  /\ Turn /\ UNCHANGED layer

\* A template's next(): the confirmation, the exits, then its own signal.
Signal(s, q, signal, open) ==
  LET side == IF signal = "buy" THEN 1 ELSE -1
  IN CASE signal \in {"buy", "sell"} /\ layer.confirm # 0 ->
            [desk |-> s, queue |-> Register(q, s, side)]
       [] signal \in {"buy", "sell"} /\ layer.confirm = 0 ->
            [desk |-> IF Blocked(s, open) THEN s 
                     ELSE PlaceEntry(s, side, Freeze(s, side)), queue |-> q]
       [] signal = "close" -> [desk |-> CloseAll(s), queue |-> q]
       [] OTHER -> [desk |-> s, queue |-> q]

Confirmed(s, open) ==
  IF layer.confirm = 0 THEN [queue |-> queue, desk |-> s] ELSE Confirm(Advance(queue, s), s, open)
Decided(exit, q, signal, open) ==
  IF exit.leaves THEN [desk |-> exit.desk, queue |-> q] ELSE Signal(exit.desk, q, signal, open)
StrategyLeaves(done) ==
  /\ desk' = [done.desk EXCEPT !.during = NoKind, !.pending = NoKind,
                               !.nextDone = (desk.bar = LastBar)]
  /\ queue' = [done.queue EXCEPT !.hit = {}]
  /\ Turn /\ UNCHANGED layer
StrategyNext(signal, open) ==
  LET c == Confirmed([desk EXCEPT !.during = "next", !.pending = NoKind], open)
  IN /\ phase = "next" /\ ~BlockedBar
     /\ StrategyLeaves(Decided(CheckExit(c.desk), c.queue, signal, open))

\* admit_final_orders: the first order of each trade is its period-end close.
FirstOrder(s, t) == Head(SelectSeq(s.orders, LAMBDA o : o.trade = t.opened))
Admitted(s) == {i \in 1..Len(s.trades) :
                  FirstOrder(s, s.trades[i]) = CloseOrder(s.trades[i], s.trades[i].units)}
Admit(s) ==
  [Dropped(s, Entries(s)) EXCEPT
     !.rerun = TRUE, !.admitted = {s.trades[i].opened : i \in Admitted(s)},
     !.refused = Cardinality(Admitted(s)) < Len(s.trades)]

\* finalize_trades: every trade left is closed, then the broker runs on the last
\* candle once more, under the rules of FinalClose if the last next() ran.
RunLeaves(final) ==
  /\ desk' = Settled(final)
  /\ phase' = IF final.refused THEN "refused" ELSE "end"
  /\ UNCHANGED <<layer, queue>>
Finalize ==
  /\ phase = "final"
  /\ RunLeaves(Passed(IF desk.nextDone THEN Admit(CloseAll(desk)) ELSE CloseAll(desk)))

Next ==
  \/ \E k \in Candles, due \in BOOLEAN : BrokerNext(k, due)
  \/ \E open \in BOOLEAN : BlockedNext(open)
  \/ \E signal \in {"hold", "buy", "sell", "close"}, open \in BOOLEAN : StrategyNext(signal, open)
  \/ Finalize

Spec == Init /\ [][Next]_vars

-----------------------------------------------------------------------------
\* Types, and one trade at a time.
TypeOK ==
  /\ layer \in Layers
  /\ phase \in {"bar", "next", "final", "end", "refused"}
  /\ desk.bar \in None..LastBar /\ desk.k \in Candles
  /\ Len(desk.trades) <= 1
  /\ \A i \in 1..Len(desk.trades) : desk.trades[i].units \in 1..desk.trades[i].original

\* However the open gapped since the signal, no trade is opened past its own
\* stop, nor a confirmed pattern at more than twice its signal's distance.
EntriesFaceTheirStop ==
  \A i \in 1..Len(desk.trades) :
    LET t == desk.trades[i]
    IN t.initial # NoLevel =>
         /\ t.side * (t.entry - t.initial) > 0
         /\ (layer.frozen = "signal" /\ layer.confirm # 0) =>
              t.side * (t.entry - t.initial) <= RiskDistanceCap * t.side * (t.base - t.initial)

\* An overlay with protective orders never carries a trade through a candle
\* that touched its stop or its target - the entry candle and the candle of a
\* partial close included - whatever was queued when the candle came.
NoTouchIsMissed ==
  (phase = "next" /\ native /\ ~AtFinalBar(desk)) =>
    \A i \in 1..Len(desk.trades) :
      LET t == desk.trades[i]
      IN /\ t.stop # NoLevel => ~StopTouched(t.side, t.stop, desk.k)
         /\ t.take # NoLevel => ~TakeTouched(t.side, t.take, desk.k)

\* Once a bar is judged, no leveraged trade is held past its liquidation
\* price: it is gone or its close is queued, on the last bar too.
NoLiquidationIsMissed ==
  (phase \in {"bar", "final"} /\ Leveraged) =>
    \A i \in 1..Len(desk.trades) :
      LET t == desk.trades[i]
      IN LiquidationTouched(t, desk.k) => PendingClose(desk, t, NoOrder)

\* A trade the data ends is settled at the last bar's close
\* (_final_close_strategy: "period-end settlement at the last bar's Close").
EndsAtTheLastClose ==
  \A i \in 1..Len(desk.closed) :
    desk.closed[i].kind = "end_of_data" => AtFinalBar(desk) /\ desk.closed[i].exit = desk.k.c

\* What an exit is called is what happened: a protective exit is paid its
\* level or the open past it on a candle that touched it, a liquidation what
\* the liquidation was recorded at, an exit of the template the open, and a
\* trade the data ends on its last close if the last bar's rules are on.  Only
\* the liquidation of what a partial target left may be without a name.
PaidAs(c, k) ==
  CASE c.kind = "end_of_data" ->
         AtFinalBar(desk) /\ c.exit = IF desk.nextDone THEN k.c ELSE k.o
    [] c.kind \in {"stop_loss", "trailing_stop"} /\ native ->
         StopTouched(c.side, c.stop, k)
         /\ c.exit = IF StopGap(c.side, c.stop, k) THEN k.o ELSE c.stop
    [] c.kind = "take_profit" /\ native /\ layer.levels = <<>> ->
         TakeTouched(c.side, c.take, k)
         /\ c.exit = IF TakeGap(c.side, c.take, k) THEN k.o ELSE c.take
    [] c.kind = "liquidation" ->
         IF c.liquidated = None THEN phase = "end" /\ c.exit = k.c ELSE Leveraged /\ c.exit = c.settled
    [] c.kind = NoKind ->
         layer.levels # <<>> /\ c.liquidated = desk.bar /\ c.exit = c.settled
    [] OTHER -> c.kind \in ExitKinds /\ c.exit = k.o
ExitsAreWhatTheySay == \A i \in 1..Len(desk.closed) : PaidAs(desk.closed[i], desk.k)

\* The partial targets have taken the share of the original units the levels
\* reached so far add up to, never more, however the levels were reached.
LevelsTakeTheirShare ==
  phase = "next" =>
    \A i \in 1..Len(desk.trades) :
      LET t == desk.trades[i]
          cumulative == FoldLeft(LAMBDA sum, v : sum + v.share, 0, SubSeq(layer.levels, 1, t.reached))
      IN t.original - t.units = (t.original * cumulative) \div 100

\* Every pattern signal is waiting or was settled once, and none waits longer
\* than the confirmation window.
SignalsAreAccountedFor ==
  /\ queue.registered = queue.submitted + queue.discarded + queue.expired + queue.superseded
                        + Cardinality(queue.pending)
  /\ phase = "bar" => \A e \in queue.pending : desk.bar - e.bar < layer.confirm

\* A run ends with nothing held, and nothing queued unless the account blew
\* up, its cash what its closed trades made of the capital, and the last
\* bar's rules never refuse it.
RunsSettle ==
  /\ phase # "refused"
  /\ phase = "end" =>
       /\ desk.trades = <<>>
       /\ desk.cash = Greater(Capital + desk.realized, 0)
       /\ desk.cash > 0 => desk.orders = <<>>
=============================================================================
