---------------------------- MODULE CycleReplay ----------------------------
(***************************************************************************)
(* replay_cycle of backtesting-py/strategy_cycle_replay.py: one strategy's *)
(* risk cycle replayed over its timeline.  At one instant the closed       *)
(* 5-minute candle comes first, then the strategy bar that closes with it, *)
(* then other strategies' entries, then this strategy's own intents.       *)
(***************************************************************************)
EXTENDS SignalSteps

CONSTANTS
  Shapes,             \* candles the market may print: [high, low, close]
  BarCandles,         \* 5-minute candles per strategy bar; 0: stops not managed
  ExitPrices,         \* prices a rule exit may carry
  FundingPayments,    \* funding evidence of a trade, in price units
  DailyLimit, AuthorDailyLimit, CooldownSeconds,
  DayLength, DayOffset,
  LastClock, MaxIntents, IntentInstants, ExternalInstants    \* bounds of the instance

ASSUME CycleAssumption ==
  /\ Shapes \subseteq [high : Nat, low : Nat \ {0}, close : Nat]
  /\ \A s \in Shapes : PriceTick <= s.low /\ s.low <= s.close /\ s.close <= s.high
  /\ BarCandles \in Nat
  /\ BarCandles > 0 => TrailingPct > 0 \/ Breakeven
  /\ ExitPrices \subseteq Nat \ {0} /\ FundingPayments \subseteq Int
  /\ DailyLimit \in 1..10 /\ AuthorDailyLimit \in Nat \ {0} /\ CooldownSeconds \in Nat
  /\ DayLength \in Nat \ {0} /\ DayOffset \in Int
  /\ LastClock \in Nat /\ MaxIntents \in Nat
  /\ IntentInstants \subseteq 0..LastClock /\ ExternalInstants \subseteq 0..LastClock

VARIABLES
  clock, phase,     \* the instant of the timeline, and what is due at it
  building,         \* candles of the strategy bar that is not closed yet
  active,           \* the open signal, or <<>>
  stopState,        \* its StopState, or <<>> before the first strategy bar
  risk,             \* RiskState
  lastEntry,        \* last_entry
  strategyDays, authorDays,    \* entries counted per day
  intents, outcome, \* intents seen, and what became of the latest
  settlements,      \* [price, net_return] of the trades settled, in order
  published,        \* history: instants at which this strategy entered
  others,           \* history: instants at which another strategy of the author entered
  closures,         \* history: signals that closed, in order
  bars              \* history: strategy bars that closed

accounts == <<lastEntry, strategyDays, authorDays, published, others>>
position == <<active, stopState, risk, settlements, closures>>
vars == <<clock, phase, building, position, accounts, intents, outcome, bars>>

Day(at) == (at + DayOffset) \div DayLength
Days == {Day(at) : at \in 0..LastClock}
Bump(counts, at) == [counts EXCEPT ![Day(at)] = @ + 1]

Refusals == {"open_signal", "risk_paused", "daily_limit_reached",
             "author_daily_limit_reached", "cooldown"}

Init ==
  /\ clock = 0 /\ phase = "external"
  /\ building = <<>> /\ active = <<>> /\ stopState = <<>>
  /\ risk = InitialRisk /\ lastEntry = None
  /\ strategyDays = [d \in Days |-> 0] /\ authorDays = [d \in Days |-> 0]
  /\ intents = 0 /\ outcome = "none"
  /\ settlements = <<>> /\ published = <<>> /\ others = <<>>
  /\ closures = <<>> /\ bars = <<>>

\* settle_risk and the settlement of a trade; a signal that expired unfilled is none.
SettleTrade(sig, funding) ==
  IF sig.lifecycle_status = "expired_unfilled"
  THEN UNCHANGED <<risk, settlements>>
  ELSE LET ret == NetReturn(sig.close_price, funding)
       IN /\ risk' = SettleRisk(risk, ret)
          /\ settlements' = Append(settlements, [price |-> sig.close_price, net_return |-> ret])

\* Mutation: the stop state of a closed signal survives it.
SettleKeepsStop(sig, funding) ==
  IF sig.status # "closed"
  THEN active' = <<sig>> /\ UNCHANGED <<stopState, risk, settlements, closures>>
  ELSE /\ active' = <<>> /\ stopState' = stopState
       /\ SettleTrade(sig, funding)
       /\ closures' = Append(closures, sig)

\* The tail of the loop: a signal that closed is settled and makes room for the next
\* one, with a fresh stop state.
Settle(sig, funding) ==
  IF sig.status # "closed"
  THEN active' = <<sig>> /\ UNCHANGED <<stopState, risk, settlements, closures>>
  ELSE /\ active' = <<>> /\ stopState' = <<>>
       /\ SettleTrade(sig, funding)
       /\ closures' = Append(closures, sig)

----------------------------------------------------------------------------
NextInstant ==
  /\ phase \in {"external", "intent"} /\ clock < LastClock
  /\ clock' = clock + 1
  /\ phase' = IF (clock + 1) % 2 = 0 THEN "candle" ELSE "external"
  /\ UNCHANGED <<building, position, accounts, intents, outcome, bars>>

\* The candle that closed just before the instant; unseen while no signal is open.
Observe(shape, funding) ==
  LET candle == [open_time |-> clock - 2, high |-> shape.high, low |-> shape.low,
                 close |-> shape.close]
  IN /\ phase = "candle"
     /\ building' = IF BarCandles = 0 THEN <<>> ELSE Append(building, candle)
     /\ phase' = IF BarCandles > 0 /\ Len(building') = BarCandles THEN "bar" ELSE "external"
     /\ IF active = <<>> THEN UNCHANGED position
                         ELSE Settle(Advance(active[1], candle), funding)
     /\ UNCHANGED <<clock, accounts, intents, outcome, bars>>

\* The strategy bar the observations add up to (validate_management_candles).
Completed ==
  LET highs == {building[i].high : i \in DOMAIN building}
      lows == {building[i].low : i \in DOMAIN building}
      end == building[Len(building)]
  IN [open_at |-> building[1].open_time, close_at |-> CloseTime(end),
      high |-> CHOOSE h \in highs : \A x \in highs : x <= h,
      low |-> CHOOSE l \in lows : \A x \in lows : l <= x, close |-> end.close]

\* apply_managed_stop
ManageStop ==
  /\ phase = "bar"
  /\ IF active # <<>> /\ active[1].status = "active"
     THEN LET before == IF stopState = <<>> THEN InitialStopState(active[1]) ELSE stopState[1]
              after == AdvanceStop(before, Completed)
          IN /\ stopState' = <<after>>
             /\ active' = << [active[1] EXCEPT !.stop_loss = after.effective_stop] >>
     ELSE UNCHANGED <<active, stopState>>
  /\ bars' = Append(bars, Completed)
  /\ building' = <<>>
  /\ phase' = "external"
  /\ UNCHANGED <<clock, risk, settlements, closures, accounts, intents, outcome>>

\* Another strategy of the author enters: the author's quota is used up.
ExternalEntry ==
  /\ phase = "external" /\ clock \in ExternalInstants
  /\ \A i \in DOMAIN others : others[i] < clock
  /\ authorDays' = Bump(authorDays, clock)
  /\ others' = Append(others, clock)
  /\ UNCHANGED <<clock, phase, building, position, lastEntry, strategyDays, published,
                 intents, outcome, bars>>

Intent ==
  /\ phase \in {"external", "intent"} /\ clock \in IntentInstants
  /\ intents < MaxIntents
  /\ intents' = intents + 1
  /\ phase' = "intent"

RuleExit(price, funding) ==
  /\ Intent
  /\ IF active = <<>> \/ active[1].status # "active"
     THEN outcome' = "no_position" /\ UNCHANGED position
     ELSE /\ Settle(Closed(active[1], "strategy_exited", clock, price), funding)
          /\ outcome' = "rule_exit"
  /\ UNCHANGED <<clock, building, accounts, bars>>

\* Mutation: a signal that still waits for its entry is in nobody's way.
RefusalUnlessFilled ==
  CASE active # <<>> /\ active[1].status = "active" -> "open_signal"
    [] active = <<>> /\ risk.entries_paused -> "risk_paused"
    [] OTHER -> "none"

\* Mutation: the author's quota is not asked.
RefusalWithoutAuthor ==
  CASE active # <<>> -> "open_signal"
    [] active = <<>> /\ risk.entries_paused -> "risk_paused"
    [] OTHER -> IF strategyDays[Day(clock)] >= DailyLimit THEN "daily_limit_reached"
                ELSE IF lastEntry # None /\ clock - lastEntry < CooldownSeconds
                     THEN "cooldown" ELSE "none"

\* Why an entry is refused, in the order the replay asks.
Refusal ==
  CASE active # <<>> -> "open_signal"
    [] active = <<>> /\ risk.entries_paused -> "risk_paused"
    [] OTHER ->
         CASE strategyDays[Day(clock)] >= DailyLimit -> "daily_limit_reached"
           [] strategyDays[Day(clock)] < DailyLimit /\ authorDays[Day(clock)] >= AuthorDailyLimit ->
                "author_daily_limit_reached"
           [] OTHER -> IF lastEntry # None /\ clock - lastEntry < CooldownSeconds
                       THEN "cooldown" ELSE "none"

EntryIntent ==
  /\ Intent
  /\ IF Refusal # "none"
     THEN outcome' = Refusal /\ UNCHANGED <<active, accounts>>
     ELSE /\ active' = <<NewSignal(clock)>>
          /\ lastEntry' = clock
          /\ strategyDays' = Bump(strategyDays, clock)
          /\ authorDays' = Bump(authorDays, clock)
          /\ published' = Append(published, clock)
          /\ outcome' = "published"
          /\ UNCHANGED others
  /\ UNCHANGED <<clock, building, stopState, risk, settlements, closures, bars>>

Next ==
  \/ NextInstant
  \/ \E shape \in Shapes, funding \in FundingPayments : Observe(shape, funding)
  \/ ManageStop
  \/ ExternalEntry
  \/ \E price \in ExitPrices, funding \in FundingPayments : RuleExit(price, funding)
  \/ EntryIntent

Spec == Init /\ [][Next]_vars

----------------------------------------------------------------------------
\* The state of the loop of replay_cycle is well formed.
TypeOK ==
  /\ clock \in 0..LastClock /\ phase \in {"candle", "bar", "external", "intent"}
  /\ building \in Seq(Candle) /\ Len(building) <= BarCandles
  /\ active \in Seq(Signal) /\ Len(active) <= 1
  /\ stopState \in Seq(StopState) /\ Len(stopState) <= Len(active)
  /\ risk \in RiskState /\ risk.equity <= risk.peak_equity
  /\ lastEntry \in Int \cup {None}
  /\ strategyDays \in [Days -> Nat] /\ authorDays \in [Days -> Nat]
  /\ intents \in 0..MaxIntents
  /\ outcome \in Refusals \cup {"none", "no_position", "rule_exit", "published"}
  /\ settlements \in Seq([price : Int, net_return : Int])
  /\ published \in Seq(Nat) /\ others \in Seq(Nat)
  /\ closures \in Seq(Signal) /\ bars \in Seq(Bar)

Signals == closures \o active

\* Every signal the replay published is open or closed, once, in the order of
\* publication: none is overwritten, and the next one waits for the previous one to
\* close.  A fill lies between the publication and the close, on a candle that
\* opened after the signal was known.
EverySignalOnce ==
  /\ Len(Signals) = Len(published)
  /\ \A i \in DOMAIN published : Signals[i].created_at = published[i]
  /\ \A i \in DOMAIN closures : i < Len(published) => closures[i].closed_at <= published[i + 1]
  /\ \A i \in DOMAIN Signals :
       LET sig == Signals[i]
       IN /\ sig.entry_hit_at # None => sig.created_at < sig.entry_hit_at
          /\ sig.status = "closed" /\ sig.entry_hit_at # None => sig.entry_hit_at <= sig.closed_at
          /\ sig.lifecycle_status \in {"tp_full", "stopped_out", "strategy_exited"}
               => sig.entry_hit_at # None

----------------------------------------------------------------------------
\* The stop of an open trade as a function of the strategy bars alone: those that
\* opened after the fill candle closed and were closed before the given instant.
Counted(sig, until) ==
  {i \in DOMAIN bars : bars[i].open_at > sig.entry_hit_at /\ bars[i].close_at < until}

\* The initial stop, the tick-rounded trailing level of every extreme since entry, and
\* the entry price once a bar has closed 1R in favour.
Levels(counted) ==
  {InitialStop}
  \cup (IF TrailingPct = 0 \/ counted = {} THEN {}
        ELSE {RoundToTick(Trail(EntryPrice), 100)}
             \cup {RoundToTick(Trail(Extreme(bars[i])), 100) : i \in counted})
  \cup {EntryPrice : i \in {j \in counted : Breakeven /\ ReachedOneR(bars[j].close)}}

Tightest(levels) == CHOOSE level \in levels : \A other \in levels : Tighten(level, other) = level

StopInForce(sig, until) == Tightest(Levels(Counted(sig, until)))

\* The replay applies a bar to the stop only after the candle at its close was checked
\* against the old stop, never counts the bar a trade was filled in, and never carries
\* a stop from one trade to the next: the level in force, and the level at which a
\* trade is stopped out, is the one the bars before that candle give.
StopFollowsTheBars ==
  /\ active # <<>> /\ active[1].status = "active" /\ phase \in {"external", "intent"}
       => active[1].stop_loss = IF BarCandles = 0 THEN InitialStop
                                ELSE StopInForce(active[1], clock)
  /\ \A i \in DOMAIN closures :
       LET sig == closures[i]
       IN sig.lifecycle_status = "stopped_out"
            => sig.close_price = StopInForce(sig, sig.closed_at - 1)

----------------------------------------------------------------------------
\* Returns of the settled trades.
Returns == [i \in DOMAIN settlements |-> settlements[i].net_return]

\* What one unit comes to, factor by factor from the m-th on, never below zero.
Compounded(m, factors) ==
  LET f[n \in 0..Len(factors)] ==
        IF n < m THEN 1 ELSE Larger(0, f[n - 1] * factors[n])
  IN f

\* A unit of equity before trade m, as each trade leaves it, and the unit itself over the
\* same denominator.
Growth(returns, m) == Compounded(m, [i \in DOMAIN returns |-> Scale + returns[i]])
Basis(returns, m) == Compounded(m, [i \in DOMAIN returns |-> Scale])

\* The account has lost a fifth from some earlier point.
LostAFifth(returns) ==
  \E m \in DOMAIN returns : \E n \in m..Len(returns) :
    5 * Growth(returns, m)[n] <= 4 * Basis(returns, m)[n]

\* Five trades were lost with no winner between them.
LostFive(returns) ==
  \E m \in DOMAIN returns : \E n \in m..Len(returns) :
    /\ \A i \in m..n : returns[i] <= 0
    /\ Cardinality({i \in m..n : returns[i] < 0}) >= 5

Exhausted == LostAFifth(Returns) \/ LostFive(Returns)

\* Those of the given instants that fall on the day of the clock.
OfToday(instants) == {i \in DOMAIN instants : Day(instants[i]) = Day(clock)}

\* Room in both daily quotas - the author's counts the other strategies - and the
\* cooldown since the last entry over.
QuotasAllow ==
  /\ Cardinality(OfToday(published)) < DailyLimit
  /\ Cardinality(OfToday(published)) + Cardinality(OfToday(others)) < AuthorDailyLimit
  /\ \A i \in DOMAIN published : clock - published[i] >= CooldownSeconds

Earned == active = <<>> /\ ~Exhausted /\ QuotasAllow

\* An entry intent is published exactly when the whole history of the cycle allows
\* it: no open signal, an account never exhausted, room in both daily quotas (the
\* author's counts the other strategies), and the cooldown since the last entry over.
EntriesAreEarned ==
  [][intents' # intents /\ outcome' \in Refusals \cup {"published"}
       => ((outcome' = "published") <=> Earned)]_vars

----------------------------------------------------------------------------
\* The replay does what its abstract book promises.
Book == INSTANCE SignalBook WITH
  signal <- IF active = <<>> THEN <<>>
            ELSE << [stage |-> IF active[1].status = "published" THEN "waiting" ELSE "open",
                     stop |-> active[1].stop_loss] >>,
  booked <- [i \in DOMAIN settlements |-> settlements[i].price]

\* Every step of the replay is a step of the book: one signal at a time, a stop that
\* only tightens, and an exit at the target, at the stop in force or by an exit rule.
ImplementsBook == Book!Spec
=============================================================================
