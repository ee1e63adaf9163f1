------------------------------ MODULE EventRun ------------------------------
(***************************************************************************)
(* The templates that trade a list of dated events under the overlay of    *)
(* TemplateRun: the event window (strategy_event_window), the token unlock *)
(* (strategy_token_unlock) and the macro releases (strategy_macro_events), *)
(* and settle_event_window_exits, which tells after the run what became of *)
(* every event from the trades alone.                                      *)
(*                                                                         *)
(* A leg is one planned entry: its side, the bar whose next() submits it   *)
(* (at), the bar whose next() ends it by plan (end), and what became of    *)
(* it.  Bars count from 0 and next() first runs on bar 1.                  *)
(***************************************************************************)
EXTENDS TemplateRun

CONSTANTS
  Tales       \* the event lists a run may be given

VARIABLES
  tale,       \* the template and its settings
  legs,       \* the events, or the two legs of each
  log,        \* what the strategy noted: decisions, native exits, the last bar of next()
  rows        \* the trades that closed, in the order of result.v2

eventVars == <<vars, tale, legs, log, rows>>

Waiting(leg) == leg.status \in {"scheduled", "watching", "due"}
Leg(side, at, end) ==
  [side |-> side, release |-> at, at |-> at, end |-> end, status |-> "scheduled",
   low |-> 0, high |-> 0, expiry |-> 0]
OutOfRange(leg) == [leg EXCEPT !.status = "out of range"]

-----------------------------------------------------------------------------
(* init(): the legs the event list and the bars allow.                      *)

\* EventWindowStrategy.init: entered `before` bars ahead of the event's bar.
WindowLegs ==
  [i \in DOMAIN tale.events |->
     LET entry == tale.events[i] - tale.before
         exit == entry + tale.after - 1
         leg == Leg(tale.side, entry - 1, exit)
     IN IF tale.events[i] > LastBar \/ entry < 2 \/ exit + 1 > LastBar THEN OutOfRange(leg) ELSE leg]

\* TokenUnlockStrategy.init: short into the unlock, long out of it, none before
\* the last long leg is over.
UnlockLegs ==
  LET Take(acc, e) ==
        LET entry == e - tale.before
            exit == e + tale.after
        IN IF entry < acc.reserved \/ entry < 2 \/ exit > LastBar THEN acc
           ELSE [reserved |-> exit,
                 legs |-> acc.legs \o <<Leg(-1, entry - 1, e - 1), Leg(1, e - 1, exit - 1)>>]
  IN FoldLeft(Take, [reserved |-> 0, legs |-> <<>>], tale.events).legs

\* MacroEventStrategy.init: released at the last close before the event's open,
\* entered `before` bars later, or at a close outside the range before it.
MacroLegs ==
  [i \in DOMAIN tale.events |->
     LET e == tale.events[i]
         leg == [Leg(tale.side, e - 1, None) EXCEPT
                   !.at = e - 1 + tale.before, !.low = tale.low, !.high = tale.high,
                   !.expiry = e + tale.after]
     IN IF e > LastBar \/ e < 2 THEN OutOfRange(leg) ELSE leg]

Plan == CASE tale.kind = "window" -> WindowLegs
          [] tale.kind = "unlock" -> UnlockLegs
          [] OTHER -> MacroLegs

EventInit ==
  /\ Init
  /\ tale \in Tales
  /\ layer.holding = (IF tale.kind \in {"surprise", "breakout"} THEN tale.hold ELSE 0)
  /\ legs = Plan
  /\ log = [decisions |-> <<>>, natives |-> {}, bar |-> None]
  /\ rows = <<>>

-----------------------------------------------------------------------------
(* The broker's turn: guarded_orders, and the hook on a protective fill.    *)

Breakout == tale.kind = "breakout"
Entering(s) == \E i \in 1..Len(s.orders) : s.orders[i].kind = "entry"
\* MacroEventStrategy._stop: the far end of the range, or a share of the fill.
IntrinsicStop(side, fill) ==
  IF Breakout THEN (IF side = 1 THEN tale.low ELSE tale.high) ELSE fill - side * Percent(fill, tale.stop)
Handed(k) ==
  IF ~Breakout THEN desk
  ELSE Dropped(desk, {o \in Entries(desk) : o.side * (k.o - IntrinsicStop(o.side, k.o)) <= 0})

Rows(d) == [i \in DOMAIN d.closed |-> d.closed[i] @@ [at |-> d.bar]]
NativeReason(row) == IF row.kind = "take_profit" THEN "take_profit" ELSE "stop_loss"
ByOrder(row) ==
  native /\ (row.kind \in {"stop_loss", "trailing_stop"} \/ (row.kind = "take_profit" /\ layer.levels = <<>>))
\* _risk_native_record_exit of the window and of the unlock: one reason a bar.
\* Macro templates have none.
NativesOf(closed, bar) ==
  LET hit == SelectSeq(closed, ByOrder) IN
  IF tale.kind \in {"surprise", "breakout"} \/ hit = <<>> THEN {}
  ELSE {[bar |-> bar, reason |-> NativeReason(hit[Len(hit)])]}

EventBroker(k, due) ==
  /\ BrokerTurn(Handed(k), k, due)
  /\ rows' = rows \o Rows(desk')
  /\ log' = [log EXCEPT !.natives = @ \cup NativesOf(desk'.closed, desk'.bar)]
  /\ UNCHANGED <<tale, legs>>

-----------------------------------------------------------------------------
(* next().                                                                  *)

Held(s) == s.trades # <<>>
Busy(s) == Held(s) \/ s.orders # <<>>
Marked(ls, i, status) == [ls EXCEPT ![i].status = status]
Decide(l, s, reason) == [l EXCEPT !.decisions = Append(@, [bar |-> s.bar, reason |-> reason])]

\* A macro trade without a protective order leaves by its own levels, at the
\* next open (decide_legacy_exit).
IntrinsicExit(s) ==
  LET t == Head(s.trades)
      stop == IntrinsicStop(t.side, t.entry)
      take == t.entry + tale.reward * (t.entry - stop)
      Leave(reason) == Leaves(CloseAll(SetReason(s, reason)))
  IN IF PendingClose(s, t, NoOrder) THEN Leaves(s)
     ELSE IF AtFinalBar(s) THEN Stays(s)
     ELSE IF StopTouched(t.side, stop, s.k) THEN Leave("stop_loss")
     ELSE IF Expired(s, t) THEN Leave("time_expiry")
     ELSE IF Breakout /\ TakeTouched(t.side, take, s.k) THEN Leave("take_profit")
     ELSE Stays(s)

\* The exits of the overlay, and what the strategy notes of them.
Noted(exit, s) ==
  LET reason == IF exit.desk.reason = NoKind THEN "risk_exit" ELSE exit.desk.reason
  IN exit @@ [log |-> IF exit.leaves THEN Decide(log, s, reason) ELSE log]
Exit(s) == IF tale.kind \in {"surprise", "breakout"} /\ ~native THEN IntrinsicExit(s) ELSE CheckExit(s)
Guard(s) ==
  IF ~Held(s) THEN Stays(s) @@ [log |-> log] ELSE Noted(Exit([s EXCEPT !.reason = NoKind]), s)

\* A planned end: the close is a time exit by name.
EndByPlan(g, reason) ==
  [g EXCEPT !.desk = CloseAll(MarkKind(@, "time_exit")), !.log = Decide(@, g.desk, reason)]
NoneClosing(s) == Held(s) /\ ~PendingClose(s, Head(s.trades), NoOrder)

\* buy or sell through the gates of _risk_open; TRUE in `taken` if an order came of it.
Submit(s, side, open) ==
  LET placed == IF Blocked(s, open) THEN s ELSE PlaceEntry(s, side, Freeze(s, side))
  IN [desk |-> placed, taken |-> Len(placed.orders) > Len(s.orders)]
\* One leg is submitted, and the next ones see its order.
Placing(acc, i, busy, open) ==
  LET try == Submit(acc.desk, acc.legs[i].side, open) IN
  IF busy THEN [acc EXCEPT !.legs = Marked(@, i, "skipped in position")]
  ELSE [acc EXCEPT !.desk = try.desk,
                   !.legs = Marked(@, i, IF try.taken THEN "submitted" ELSE "blocked")]

Indices == [i \in DOMAIN legs |-> i]
DueAt(bar) == SelectSeq(Indices, LAMBDA i : legs[i].at = bar /\ legs[i].status = "scheduled")

\* The legs due at this bar, one after the other; the unlock's long leg is
\* queued beside the close of the short one.
Beside(s) == (Held(s) /\ NoneClosing(s)) \/ Entering(s)
Taken(s) == IF tale.kind = "window" THEN Busy(s) ELSE Beside(s)
Entry(ended, open) ==
  FoldLeft(LAMBDA acc, i : Placing(acc, i, Taken(acc.desk), open),
           [desk |-> ended.desk, legs |-> legs, log |-> ended.log], DueAt(desk.bar))

\* EventWindowStrategy.next.
WindowOver(g) ==
  ~g.leaves /\ Held(g.desk) /\ g.desk.bar >= Head(g.desk.trades).opened + tale.after - 1
  /\ NoneClosing(g.desk)
WindowEnds(g) == IF WindowOver(g) THEN EndByPlan(g, "window_end") ELSE g
WindowNext(g, open) == Entry(WindowEnds(g), open)

\* TokenUnlockStrategy.next: first the planned ends, then the entries.
LegEnds(g, i) ==
  IF NoneClosing(g.desk) THEN EndByPlan(g, IF legs[i].side = -1 THEN "unlock_day" ELSE "post_days") ELSE g
UnlockNext(g, open) ==
  Entry(FoldLeft(LegEnds, g, SelectSeq(Indices, LAMBDA i : legs[i].end = desk.bar)), open)

MacroSubmitUndated(acc, i, side, open) ==
  LET entry == acc.desk.bar + 1 IN
  IF Busy(acc.desk) THEN [acc EXCEPT !.legs = Marked(@, i, "skipped in position")]
  ELSE IF entry > LastBar \/ entry + tale.hold > LastBar THEN [acc EXCEPT !.legs[i] = OutOfRange(@)]
  ELSE Placing([acc EXCEPT !.legs[i].side = side], i, FALSE, open)
\* MacroEventStrategy._submit.
MacroSubmit(acc, i, side, open) ==
  LET entry == acc.desk.bar + 1 IN
  IF Busy(acc.desk) THEN [acc EXCEPT !.legs = Marked(@, i, "skipped in position")]
  ELSE IF entry > LastBar \/ entry + tale.hold > LastBar THEN [acc EXCEPT !.legs[i] = OutOfRange(@)]
  ELSE [Placing([acc EXCEPT !.legs[i].side = side], i, FALSE, open) EXCEPT !.legs[i].at = acc.desk.bar]

\* MacroEventStrategy.next: releases are judged first, then the exits, the
\* entries that are due, and the ranges still watched.
Released(leg) ==
  IF leg.release # desk.bar \/ leg.status # "scheduled" THEN leg
  ELSE [leg EXCEPT !.status = IF Busy(desk) THEN "skipped in position"
                              ELSE IF Breakout THEN "watching"
                              ELSE IF leg.side = 0 THEN "skipped"
                              ELSE IF leg.at >= LastBar THEN "out of range" ELSE "due"]
Submitted(acc, i, side, open) ==
  IF side = 0 THEN IF desk.bar = LastBar THEN [acc EXCEPT !.legs = Marked(@, i, "skipped")] ELSE acc
  ELSE MacroSubmit(acc, i, side, open)
BreakSide(leg, close) == IF close > leg.high THEN 1 ELSE IF close < leg.low THEN -1 ELSE 0
Watched(acc, leg, i, open) ==
  IF desk.bar > leg.expiry THEN [acc EXCEPT !.legs = Marked(@, i, "skipped")]
  ELSE IF Busy(acc.desk) THEN [acc EXCEPT !.legs = Marked(@, i, "skipped in position")]
  ELSE IF desk.bar < leg.release + 1 THEN acc   \* still the candle before the release
  ELSE Submitted(acc, i, BreakSide(leg, desk.k.c), open)
IsDue(acc, i) == acc.legs[i].status = "due" /\ acc.legs[i].at = desk.bar
MacroNext(g, open) ==
  LET Enter(acc, i) == IF IsDue(acc, i) THEN MacroSubmit(acc, i, acc.legs[i].side, open) ELSE acc
      Watch(acc, i) == IF acc.legs[i].status = "watching" THEN Watched(acc, acc.legs[i], i, open) ELSE acc
      released == [i \in DOMAIN legs |-> Released(legs[i])]
  IN FoldLeft(Watch, FoldLeft(Enter, [desk |-> g.desk, legs |-> released, log |-> g.log], Indices), Indices)

EventLeaves(done) ==
  /\ desk' = [done.desk EXCEPT !.during = NoKind, !.pending = NoKind, !.nextDone = (desk.bar = LastBar)]
  /\ legs' = done.legs
  /\ log' = [done.log EXCEPT !.bar = desk.bar]
  /\ Turn /\ UNCHANGED <<layer, queue, tale, rows>>
EventTurn(g, open) ==
  EventLeaves(CASE tale.kind = "window" -> WindowNext(g, open)
                [] tale.kind = "unlock" -> UnlockNext(g, open)
                [] OTHER -> MacroNext(g, open))
EventNext(open) ==
  /\ phase = "next" /\ ~BlockedBar /\ desk.bar >= 1
  /\ EventTurn(Guard([desk EXCEPT !.during = "next", !.pending = NoKind]), open)

\* The library calls next() from bar 1 on.
BarZero ==
  /\ phase = "next" /\ desk.bar = 0
  /\ Turn /\ UNCHANGED <<layer, desk, queue, tale, legs, log, rows>>

\* _risk_native_blocked_next: a protective fill takes the bar's events with it.
EventBlocked ==
  /\ phase = "next" /\ BlockedBar /\ desk.bar >= 1
  /\ LET lost(leg) == \/ leg.status = "scheduled" /\ leg.release = desk.bar
                      \/ leg.status = "due" /\ leg.at = desk.bar
                      \/ leg.status = "watching"
     IN legs' = [i \in DOMAIN legs |-> IF lost(legs[i]) THEN [legs[i] EXCEPT !.status = "skipped in position"]
                                       ELSE legs[i]]
  /\ log' = [log EXCEPT !.bar = desk.bar]
  /\ Turn /\ UNCHANGED <<layer, desk, queue, tale, rows>>

EventFinalize ==
  /\ Finalize
  /\ rows' = rows \o Rows(desk')
  /\ UNCHANGED <<tale, legs, log>>

EventSteps ==
  \/ \E k \in Candles, due \in BOOLEAN : EventBroker(k, due)
  \/ BarZero \/ EventBlocked
  \/ \E open \in BOOLEAN : (layer.clock \/ open) /\ EventNext(open)
  \/ EventFinalize

EventSpec == EventInit /\ [][EventSteps]_eventVars

-----------------------------------------------------------------------------
(* settle_event_window_exits.                                               *)

StopBar == IF log.bar + 1 > LastBar THEN None ELSE log.bar + 1
FillBar(d) == IF d.bar = LastBar THEN LastBar ELSE d.bar + 1
Owners(row) == {i \in DOMAIN legs : legs[i].status = "submitted" /\ legs[i].at + 1 = row.opened}

\* reason_of: each decision and each native exit accounts for one row at most.
Tell(acc, row) ==
  LET mine == SelectSeq(acc.decisions, LAMBDA d : FillBar(d) = row.at)
      hits == {n \in acc.natives : n.bar = row.at}
      said(r) == [acc EXCEPT !.told = Append(@, r)]
  IN IF row.liquidated # None THEN said("liquidation")
     ELSE IF mine # <<>> THEN [said(Head(mine).reason) EXCEPT !.decisions = Remove(@, Head(mine))]
     ELSE IF hits # {}
     THEN [said((CHOOSE n \in hits : TRUE).reason) EXCEPT !.natives = @ \ hits]
     ELSE IF row.at = StopBar THEN said("insolvency") ELSE said("finalize")
Told == FoldLeft(Tell, [decisions |-> log.decisions, natives |-> log.natives, told |-> <<>>], rows).told

\* The outcome of a leg: what became of it before the run's end, or after it.
Outcome(i) ==
  CASE legs[i].status = "submitted" ->
         IF \E k \in DOMAIN rows : i \in Owners(rows[k]) THEN "entered" ELSE "rejected"
    [] Waiting(legs[i]) -> IF StopBar = None THEN "refused" ELSE "ended"
    [] OTHER -> legs[i].status

\* The names an exit may go by under each reason.
KindsOf(reason) ==
  CASE reason \in {"liquidation", "insolvency"} -> {"liquidation"}
    [] reason \in {"window_end", "unlock_day", "post_days", "time_expiry"} -> {"time_exit"}
    [] reason \in {"take_profit", "take_profit_levels"} -> {"take_profit"}
    [] reason = "stop_loss" -> {"stop_loss", "trailing_stop"}
    [] reason = "finalize" -> {"end_of_data"}
    [] OTHER -> {"stop_loss", "take_profit"}

-----------------------------------------------------------------------------
\* The settlement never refuses a run: every trade is the fill of exactly one
\* submitted leg, and no event is left without an outcome unless the account
\* broke before its bar (settle_event_window_exits raises otherwise).
EveryEventIsTold ==
  phase = "end" =>
    /\ \A k \in DOMAIN rows : Cardinality(Owners(rows[k])) = 1
    /\ \A i \in DOMAIN legs : Outcome(i) # "refused"

\* What the report says of an exit, from decisions and trades alone, is what
\* the broker filled: the reason told for a row names the same exit the order
\* that closed it was stamped with.  A close decided on the last bar keeps its
\* reason, though it is the end of the data that settles it.
ReasonsAgree(k) ==
  rows[k].kind # NoKind =>
    \/ rows[k].kind \in KindsOf(Told[k])
    \/ /\ rows[k].kind = "end_of_data" /\ rows[k].at = LastBar
       /\ \E d \in ToSet(log.decisions) : d.bar = LastBar /\ d.reason = Told[k]
ReasonsAreTheExits ==
  (phase = "end" /\ ~(tale.kind \in {"surprise", "breakout"} /\ native)) => \A k \in DOMAIN rows : ReasonsAgree(k)
\* The same of the macro templates with a stop of the user's
\* (settle_event_window_exits: rows left over are the engine's own closes).
MacroReasonsAreTheExits ==
  (phase = "end" /\ tale.kind = "surprise") => \A k \in DOMAIN rows : ReasonsAgree(k)

\* No event trades before its bar or beside another: a trade is opened on the
\* bar its leg planned, and two legs are never held at once.
EventsTradeOnTheirBar ==
  /\ Len(desk.trades) <= 1
  /\ \A i \in 1..Len(desk.trades) :
    \E l \in DOMAIN legs :
      /\ legs[l].status = "submitted" /\ legs[l].at + 1 = desk.trades[i].opened
      /\ legs[l].side = desk.trades[i].side
=============================================================================
