----------------------------- MODULE TurtleRun -----------------------------
(***************************************************************************)
(* The turtle group (_TurtleGroupMixin in cutie_backtesting_provider.py):   *)
(* units added one fill at a time, one stop and one target for all of them, *)
(* and a count of units that follows the broker's fills, not the orders.    *)
(***************************************************************************)
EXTENDS BrokerSteps

CONSTANTS
  Candles, Capital, LastBar,
  Settings       \* [side, multiple, step, risk, max, take]: side 0 is both

VARIABLES
  setting,
  turn,          \* "bar", "next", "final" or "end"
  group,         \* the broker's desk and the group the strategy believes in
  adds           \* history: units asked for, filled, refused, cancelled by an exit

turtleVars == <<setting, turn, group, adds>>

None == -1
\* Asserted where the module is instantiated.
TurtleAssumption ==
  /\ LastBar \in Nat \ {0} /\ Capital \in Nat \ {0}
  /\ \A k \in Candles : 0 < k.l /\ k.l <= k.o /\ k.l <= k.c /\ k.o <= k.h /\ k.c <= k.h
  /\ \A y \in Settings :
       /\ y.side \in {-1, 0, 1} /\ y.multiple \in Nat \ {0} /\ y.step \in Nat \ {0}
       /\ y.risk \in 1..100 /\ y.max \in Nat \ {0} /\ y.take \in 0..99

AtFinal(s) == s.bar = LastBar
Pending(s) == \E i \in 1..Len(s.orders) : s.orders[i].kind = "entry"
NoEntries(s) == Dropped(s, Entries(s))

\* Mutant of Protect: only the newest unit gets the group's levels.
ProtectNewest(s) ==
  IF s.trades = <<>> THEN s
  ELSE LET t == s.trades[Len(s.trades)]
       IN Protected(Protected(s, t, "sl", IF AtFinal(s) \/ s.stop <= 0 THEN NoLevel ELSE s.stop),
                    t, "tp", IF AtFinal(s) THEN NoLevel ELSE s.take)
\* protect: every target first, then every stop, so that stops go ahead.
Protect(s) ==
  LET Limit(acc, t) == Protected(Protected(acc, t, "sl", NoLevel), t, "tp",
                                 IF AtFinal(s) THEN NoLevel ELSE s.take)
      Stop(acc, t) == IF AtFinal(s) \/ s.stop <= 0 THEN acc ELSE Protected(acc, t, "sl", s.stop)
  IN FoldLeft(Stop, FoldLeft(Limit, s, s.trades), s.trades)
Stripped(s) == Dropped(s, {o \in ToSet(s.orders) : Contingent(o)})

\* The margin a market entry needs, and the trade it opens.
Margin(s) ==
  Equity(s, s.k) - FoldLeft(LAMBDA sum, t : sum + t.units * s.k.c, 0, s.trades)
FillOfUnit(s, o) ==
  IF o.units * s.k.o > Margin(s) THEN s
  ELSE [s EXCEPT !.trades = Append(@, [opened |-> s.bar, side |-> o.side, entry |-> s.k.o,
                                       units |-> o.units, group |-> s.id])]

\* on_reduce: a stop or a target ends the group, and the add that waits.
OnReduce(s, o) ==
  IF ~Contingent(o) THEN s
  ELSE [NoEntries(s) EXCEPT !.reason = IF o.kind = "sl" THEN "stop" ELSE "take_profit",
                            !.closing = TRUE, !.closedBar = s.bar, !.pending = FALSE]
Fill(s, o) ==
  Without(IF o.kind = "entry" THEN FillOfUnit(s, o)
          ELSE IF HasTrade(s, o.trade)
          THEN CloseTrade(OnReduce(s, o), TradeAt(s, o.trade), FillPrice(o, s.k)) ELSE s, o)
Visited(s, live) == IF live = <<>> THEN s ELSE Fill(s, Head(live))
Pass(s) == FoldLeft(LAMBDA acc, o : Visited(acc, Standing(acc, o, s.k)), s, s.orders)

\* _turtle_sync: what became of the pending unit, and whether the group is gone.
Vwap(s) ==
  FoldLeft(LAMBDA sum, t : sum + t.entry * t.units, 0, s.trades)
    \div FoldLeft(LAMBDA sum, t : sum + t.units, 0, s.trades)
AfterFill(s) ==
  LET last == s.trades[Len(s.trades)].entry
      vwap == Vwap(s)
  IN [s EXCEPT !.pending = FALSE, !.units = Len(s.trades), !.last = last,
               !.stop = last - s.side * setting.multiple * s.n,
               !.take = IF setting.take = 0 THEN NoLevel
                        ELSE vwap + s.side * ((vwap * setting.take) \div 100)]
NoGroup(s) == [s EXCEPT !.id = 0, !.side = 0]
Observed(s) ==
  IF ~s.pending \/ Pending(s) THEN s
  ELSE IF Len(s.trades) > s.units THEN AfterFill(s)
  ELSE IF s.units > 0 THEN [s EXCEPT !.pending = FALSE, !.skipped = @ + 1]
  ELSE [NoGroup(s) EXCEPT !.pending = FALSE]
Gone(s) == s.closing /\ s.trades = <<>>
Ended(s) ==
  IF Gone(s) THEN [NoGroup(s) EXCEPT !.units = 0, !.last = NoLevel, !.closing = FALSE] ELSE s
Sync(s) == Ended(Observed(s))

\* protected_process: the add fills at the open before the stops look at the bar,
\* unless the open is past them already.
Waits(s) == s.pending /\ Pending(s) /\ s.trades # <<>> /\ ~s.closing
Gaps(s) == StopGap(s.side, s.stop, s.k) \/ (s.take # NoLevel /\ TakeGap(s.side, s.take, s.k))
Met(synced) == IF synced.trades = <<>> THEN synced ELSE Pass(Protect(synced))
Again(first) == IF ~first.pending \/ Pending(first) THEN first ELSE Met(Sync(first))
Began(s) == Pass(IF Waits(s) /\ ~Gaps(s) THEN Stripped(s) ELSE s)
ProtectedProcess(s) == Again(Began(IF AtFinal(s) THEN Protect(s) ELSE s))

-----------------------------------------------------------------------------
EmptyGroup ==
  EmptyDesk(Capital) @@
    [bar |-> None, k |-> CHOOSE k \in Candles : TRUE, id |-> 0, seq |-> 0, side |-> 0, n |-> 0,
     q |-> 0, units |-> 0, last |-> NoLevel, stop |-> NoLevel, take |-> NoLevel, pending |-> FALSE,
     closing |-> FALSE, closedBar |-> None, reason |-> "", skipped |-> 0]
NoAdds == [placed |-> 0, filled |-> 0, refused |-> 0, refusedAdds |-> 0, cancelled |-> 0]

TurtleInit == setting \in Settings /\ turn = "bar" /\ group = EmptyGroup /\ adds = NoAdds

Opened(s) == Len(s.trades) + Len(s.closed)

\* What a bar did to the unit that waited for it.
OpensPastProtection(s) ==
  ~AtFinal(s) /\ (\/ group.stop > 0 /\ StopGap(group.side, group.stop, s.k)
                  \/ group.take # NoLevel /\ TakeGap(group.side, group.take, s.k))
Tally(s) ==
  LET filled == Opened(s) - Len(group.trades)
  IN IF ~group.pending THEN adds
     ELSE IF filled = 1 THEN [adds EXCEPT !.filled = @ + 1]
     ELSE IF group.trades # <<>> /\ OpensPastProtection(s)
     THEN [adds EXCEPT !.cancelled = @ + 1]
     ELSE [adds EXCEPT !.refused = @ + 1,
                       !.refusedAdds = @ + IF group.trades # <<>> THEN 1 ELSE 0]

BarLeaves(s) ==
  /\ Equity(s, s.k) > 0
  /\ group' = s /\ turn' = "next"
  /\ adds' = Tally(s)
  /\ UNCHANGED setting
TurtleBar(k) ==
  /\ turn = "bar" /\ group.bar < LastBar
  /\ BarLeaves(ProtectedProcess([group EXCEPT !.bar = @ + 1, !.k = k, !.closed = <<>>]))

\* _turtle_close: every unit at the next open, under one reason.
Close(s, reason) ==
  [FoldLeft(LAMBDA acc, t : AtHead(acc, CloseOrder(t, t.units)), s, s.trades)
     EXCEPT !.closing = TRUE, !.reason = reason]
Ask(s, side, q) ==
  [s EXCEPT !.orders = Append(@, [EntryOrder(side) EXCEPT !.units = q]), !.pending = TRUE]
AddDue(s) ==
  s.units < setting.max /\ s.side * (s.k.c - s.last) >= setting.step * s.n
Quantity(s, n) == ((Equity(s, s.k) * setting.risk) \div 100) \div (setting.multiple * n)

\* _turtle_next: what the closes read (the time layer, the two channels, N).
Started(s, side, q, n) ==
  [Ask(s, side, q) EXCEPT !.seq = @ + 1, !.id = s.seq + 1, !.side = side, !.n = n,
                          !.q = q, !.units = 0, !.take = NoLevel]
Decides(s, rests, expired, leaves, breaks, open, n) ==
  LET q == Quantity(s, n)
      adding == s.trades # <<>> /\ ~expired /\ ~leaves /\ AddDue(s) /\ open
      starting == s.trades = <<>> /\ breaks # 0 /\ open /\ q > 0
  IN /\ group' = IF rests THEN s
                 ELSE IF s.trades # <<>> /\ expired THEN Close(s, "time_expiry")
                 ELSE IF s.trades # <<>> /\ leaves THEN Close(s, "channel")
                 ELSE IF adding THEN Ask(s, s.side, s.q)
                 ELSE IF starting THEN Started(s, breaks, q, n) ELSE s
     /\ adds' = [adds EXCEPT !.placed = @ + IF ~rests /\ (adding \/ starting) THEN 1 ELSE 0]
Rests(s, gone) == gone \/ s.closedBar = s.bar \/ s.closing \/ s.pending
TurtleNext(expired, leaves, breaks, open, n) ==
  LET observed == Observed(group)
      s == Ended(observed)
  IN /\ turn = "next"
     /\ breaks # 0 => setting.side \in {0, breaks}
     /\ Decides(s, Rests(s, Gone(observed)), expired, leaves, breaks, open, n)
     /\ turn' = IF group.bar = LastBar THEN "final" ELSE "bar"
     /\ UNCHANGED setting

\* finalize_trades under the rules of the last bar: what is left ends at its close.
TurtleFinal ==
  /\ turn = "final"
  /\ group' = FoldLeft(LAMBDA acc, t : CloseTrade(acc, t, group.k.c),
                       [NoEntries(Stripped(group)) EXCEPT !.closed = <<>>,
                          !.reason = IF group.id # 0 THEN "end_of_data" ELSE @],
                       group.trades)
  /\ turn' = "end"
  /\ UNCHANGED <<setting, adds>>

TurtleSteps ==
  \/ \E k \in Candles : TurtleBar(k)
  \/ \E expired, leaves, open \in BOOLEAN, breaks \in {-1, 0, 1}, n \in {5, 10} :
       TurtleNext(expired, leaves, breaks, open, n)
  \/ TurtleFinal

-----------------------------------------------------------------------------
\* At rest the group is what the broker holds: as many units as trades, all of
\* one side and one size, every one of them under the group's stop and target
\* and nothing else, one entry at most in the queue, and no trade without a group.
GroupMatchesTheBroker ==
  turn \in {"bar", "final"} =>
    /\ ~group.closing => group.units = Len(group.trades) \/ (group.trades = <<>> /\ group.pending)
    /\ group.trades # <<>> =>
         /\ group.id # 0 /\ Len(group.trades) <= setting.max
         /\ \A i \in 1..Len(group.trades) :
              LET t == group.trades[i]
                  Level(kind) == {o.at : o \in {o \in ToSet(group.orders) :
                                                  o.kind = kind /\ o.trade = t.opened}}
              IN /\ t.side = group.side /\ t.units = group.q /\ t.group = group.id
                 /\ ~AtFinal(group) =>
                      /\ Level("sl") = IF group.stop > 0 THEN {group.stop} ELSE {}
                      /\ Level("tp") = IF group.take # NoLevel THEN {group.take} ELSE {}
    /\ Pending(group) = group.pending

\* No candle touches the stop or the target of a group and leaves a unit of it,
\* the candle of an add included, and the units of a group leave together.
GroupsLeaveTogether ==
  turn = "next" =>
    /\ group.closed # <<>> => group.trades = <<>>
    /\ (group.trades # <<>> /\ ~AtFinal(group)) =>
         /\ group.stop > 0 => ~StopTouched(group.side, group.stop, group.k)
         /\ group.take # NoLevel => ~TakeTouched(group.side, group.take, group.k)

\* Every unit asked for was filled, was refused, was cancelled by the exit it
\* met, or waits; and the report's units_skipped are the refused adds, neither
\* the first units nor the cancelled ones.
UnitsAreAccountedFor ==
  turn \in {"bar", "final"} =>
    /\ adds.placed = adds.filled + adds.refused + adds.cancelled + (IF group.pending THEN 1 ELSE 0)
    /\ group.skipped = adds.refusedAdds
=============================================================================
