-------------------------- MODULE StrategyKernel --------------------------
(***************************************************************************)
(* Historical replay: simulate() of backtesting-py/strategy_kernel.py runs *)
(* evaluate() over the frames of one run, records a mark-to-market point   *)
(* for every bar a position survives, and finalizes.  A frame that         *)
(* evaluate() refuses raises out of the loop and the run has no result.    *)
(***************************************************************************)
EXTENDS KernelSteps, FiniteSets

CONSTANT Frames    \* the frames a run may be given

ASSUME FramesAssumption == Frames \subseteq Frame

VARIABLES
  state,     \* KernelState
  mtm,       \* mtm_points: <<close time, trades so far, unrealized>>
  status     \* "running", "failed" or "done"

vars == <<state, mtm, status>>

\* _open_leg_mtm: open profit at the mark, the entry side's costs only.
Unrealized(pos, mark) ==
  LET delta == IF Side = "long" THEN mark - pos.entry_price ELSE pos.entry_price - mark
  IN delta * pos.qty * Bps - pos.entry_price * pos.qty * (FeeBps + SlippageBps)

MarkPoint(st, frame) ==
  [ts |-> CloseAt(frame), realized_count |-> Len(st.trades),
   unrealized |-> Unrealized(The(st.position), frame.close)]

\* _equity_curve_with_mtm: one value per instant after the start; a trade's
\* closed_at overrides a mark of the same instant, the latest trade winning.
Prefix(trades, k) == IF k = 0 THEN InitialCapital * Bps ELSE trades[k].equity_after

CurveTimes(st, points) ==
  {t \in {points[i].ts : i \in DOMAIN points} \cup {st.trades[k].closed_at : k \in DOMAIN st.trades}
     : t > ExecutionStart}

CurveAt(st, points, t) ==
  LET closing == {k \in DOMAIN st.trades : st.trades[k].closed_at = t}
      marks == {i \in DOMAIN points : points[i].ts = t}
      last(S) == CHOOSE k \in S : \A j \in S : j <= k
  IN IF closing # {} THEN Prefix(st.trades, last(closing))
     ELSE LET p == points[last(marks)]
          IN Prefix(st.trades, p.realized_count) + p.unrealized

----------------------------------------------------------------------------
Init ==
  /\ state = InitialState
  /\ mtm = <<>>
  /\ status = "running"

EvaluateFrame(frame) ==
  /\ status = "running"
  /\ Admissible(state, frame)
  /\ state' = Evaluate(state, frame)
  /\ mtm' = IF IsSome(state'.position) THEN Append(mtm, MarkPoint(state', frame)) ELSE mtm
  /\ UNCHANGED status

RefuseFrame(frame) ==
  /\ status = "running"
  /\ ~Admissible(state, frame)
  /\ status' = "failed"
  /\ UNCHANGED <<state, mtm>>

FinishReplay ==
  /\ status = "running"
  /\ state' = Finalize(state)
  /\ status' = "done"
  /\ UNCHANGED mtm

Next ==
  \/ \E frame \in Frames : EvaluateFrame(frame) \/ RefuseFrame(frame)
  \/ FinishReplay

Spec == Init /\ [][Next]_vars

----------------------------------------------------------------------------
Mark == [ts : Nat, realized_count : Nat, unrealized : Int]

\* Types of the three variables.  A position and a pending entry are optional
\* values, and at most one of the two is there: the kernel has one slot.
TypeOK ==
  /\ state \in KernelState
  /\ Len(state.pending_entry) + Len(state.position) <= 1
  /\ mtm \in Seq(Mark)
  /\ status \in {"running", "failed", "done"}

----------------------------------------------------------------------------
frames == state.frames
trades == state.trades
decisions == state.decisions

BarAt(t) == CHOOSE j \in DOMAIN frames : frames[j].open_at = t
HeldBars == LET p == The(state.position) IN (Len(frames) - p.bars_held + 1)..Len(frames)

\* No look-ahead: every entry, closed or still open, was filled at the open of
\* the bar after a bar of the execution window on which the entry condition held.
NextBarFill ==
  \A e \in {state.position[i] : i \in DOMAIN state.position} \cup {trades[k] : k \in DOMAIN trades} :
    \E j \in 2..Len(frames) :
      /\ frames[j].open_at = e.opened_at /\ frames[j].open = e.entry_price
      /\ frames[j - 1].open_at >= ExecutionStart
      /\ Holds(EntryCondition, frames, j - 1)

\* A position that is still open was touched by neither stop nor take on any bar
\* since its entry, that bar included, is younger than the time exit, saw the
\* exit signal on its last bar only, and its flag says whether it did.
SurvivorUntouched ==
  IsSome(state.position) /\ status = "running" =>
    LET p == The(state.position)
    IN /\ frames[Len(frames) - p.bars_held + 1].open_at = p.opened_at
       /\ \A j \in HeldBars : ~StopTouched(p, frames[j]) /\ ~TakeTouched(p, frames[j])
       /\ TimeExitBars > 0 => p.bars_held < TimeExitBars
       /\ \A j \in HeldBars : Holds(SignalExit, frames, j) => j = Len(frames)
       /\ p.pending_signal_exit = Holds(SignalExit, frames, Len(frames))

\* Every exit price was traded on the bar that closed the position, and with the
\* stop first in the priority no other exit is booked on a bar that hit the stop.
ExitsAreReal ==
  \A k \in DOMAIN trades :
    LET t == trades[k]
        late == t.exit_kind \in {"time_exit", "end_of_data"}
        bar == frames[BarAt(IF late THEN t.closed_at - 1 ELSE t.closed_at)]
    IN /\ bar.low <= t.exit_price /\ t.exit_price <= bar.high
       /\ Priority[1] = "stop_loss" /\ t.exit_kind # "stop_loss" => ~StopTouched(t, bar)

\* A position is left on the first bar that ends it, at a price of that bar, and for the
\* reason that has priority; until then no bar has touched its levels.
ExitsFollowTheBars == SurvivorUntouched /\ ExitsAreReal

\* The cooldown counts bars from the exit bar to the next signal bar.
CooldownRespected ==
  \A i, j \in DOMAIN decisions :
    i < j /\ decisions[i].kind = "exit_filled" /\ decisions[j].kind = "entry_pending" =>
      decisions[j].frame_index - decisions[i].frame_index >= CooldownBars

Count(log, kind) == Cardinality({i \in DOMAIN log : log[i].kind = kind})

\* No order is lost or filled twice: each signal is filled, rejected, dropped
\* for want of a next bar, or still pending; each fill is closed once or open.
OrdersAccounted ==
  /\ Count(decisions, "entry_pending") =
       Count(decisions, "entry_filled") + Len(state.diagnostics) + Len(state.pending_entry)
  /\ Count(decisions, "entry_filled") =
       Count(decisions, "exit_filled") + Len(state.position)
  /\ Count(decisions, "exit_filled") = Len(trades)

\* The trade list is a ledger: gapless numbers, no overlap in time, and each
\* balance is the one before it plus the trade's net pnl, up to the equity.
TradesFormLedger ==
  /\ state.trade_seq = Len(trades)
  /\ state.equity = Prefix(trades, Len(trades))
  /\ \A k \in DOMAIN trades :
       /\ trades[k].seq = k
       /\ trades[k].opened_at <= trades[k].closed_at
       /\ trades[k].equity_after = Prefix(trades, k - 1) + trades[k].pnl
       /\ k > 1 => trades[k - 1].closed_at <= trades[k].opened_at

\* An account without equity holds nothing: the margin of an open position was
\* covered by the equity, which no one else spends while it is open.
MarginCovered ==
  IsSome(state.position) =>
    The(state.position).qty * The(state.position).entry_price * Bps <= state.equity * Leverage

\* A finished replay holds nothing, and its equity curve, in which a trade
\* overrides a mark of the same instant, ends at the realized equity.
CurveEndsAtEquity ==
  status = "done" =>
    LET times == CurveTimes(state, mtm)
        end == CHOOSE t \in times : \A u \in times : u <= t
    IN /\ state.pending_entry = <<>> /\ state.position = <<>>
       /\ IF times = {} THEN state.equity = InitialCapital * Bps
                        ELSE CurveAt(state, mtm, end) = state.equity

\* No order is lost or filled twice, none is signalled within the cooldown, and the curve
\* of a finished replay ends at the equity.
OrdersReachTheCurve == OrdersAccounted /\ CooldownRespected /\ CurveEndsAtEquity

=============================================================================
