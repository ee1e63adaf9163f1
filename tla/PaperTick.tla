----------------------------- MODULE PaperTick -----------------------------
(***************************************************************************)
(* The paper run: a Server that owns the run's cursor and state snapshot,  *)
(* and the Provider's stateless handler _run_paper_tick                    *)
(* (backtesting-py/cutie_backtesting_provider.py), which rebuilds the      *)
(* frame window from market data on every tick, restores KernelState from  *)
(* the snapshot, evaluates one frame and returns the next snapshot.        *)
(*                                                                         *)
(* The Server is outside this repository: it is modelled from what the     *)
(* request validator and the handler rely on (external).  Messages are     *)
(* sets that only grow, so that any request or reply may be handled late,  *)
(* several times, out of order or never.                                   *)
(***************************************************************************)
EXTENDS KernelSteps, FiniteSets

CONSTANTS
  Shapes,               \* the bars the market may print: Frame without open_at
  PaperWindowMaxBars

ASSUME PaperAssumption ==
  /\ \A s \in Shapes : \A t \in 0..ExecutionEnd :
       [open_at |-> t, open |-> s.open, high |-> s.high, low |-> s.low, close |-> s.close,
        feature |-> s.feature] \in Frame
  /\ \A s \in Shapes : s.low <= s.open /\ s.low <= s.close /\ s.open <= s.high /\ s.close <= s.high
  /\ PaperWindowMaxBars \in Nat

\* A state snapshot, as it crosses the wire.
Snapshot ==
  [equity : Int, pending_entry : Seq(Pending), position : Seq(Position),
   last_exit_index : Nat, trade_seq : Nat]

\* JSON null is no object.
ASSUME NullAssumption == None \notin Snapshot /\ None \notin [sha256 : Snapshot]

VARIABLES
  market,     \* closed bars since window_start_at, as the central service serves them
  cursor,     \* Server: open time of the next bar to tick
  snapshot,   \* Server: the run's state, None before the first tick
  hash,       \* Server: its hash, None before the first tick
  draft,      \* Server: a state read for dispatch, not yet sent
  ledger,     \* Server: closed trades of the run
  journal,    \* Server: decisions and diagnostics of the run
  requests, replies,
  marks       \* history: the mark-to-market points a replay would record

serverVars == <<cursor, snapshot, hash, ledger, journal, marks>>
vars == <<market, cursor, snapshot, hash, draft, ledger, journal, requests, replies, marks>>

At(shape, t) ==
  [open_at |-> t, open |-> shape.open, high |-> shape.high, low |-> shape.low,
   close |-> shape.close, feature |-> shape.feature]

\* canonical_json_sha256, taken as collision-free.
Sha(value) == [sha256 |-> value]

----------------------------------------------------------------------------

\* Mutation: the entry time crosses the wire as it is kept, in seconds.
SnapshotInSeconds(st) ==
  [equity |-> st.equity, pending_entry |-> st.pending_entry, position |-> st.position,
   last_exit_index |-> st.last_exit_index, trade_seq |-> st.trade_seq]

\* to_snapshot / from_snapshot.  Frames and the tick's output lists stay out;
\* opened_at crosses the wire in milliseconds.
ToSnapshot(st) ==
  [equity |-> st.equity, pending_entry |-> st.pending_entry,
   position |-> IF IsSome(st.position)
                THEN << [st.position[1] EXCEPT !.opened_at = @ * 1000] >> ELSE <<>>,
   last_exit_index |-> st.last_exit_index, trade_seq |-> st.trade_seq]

Decodable(snap) ==
  IsSome(snap.position) =>
    LET pos == The(snap.position)
    IN /\ pos.qty > 0 /\ pos.entry_price > 0 /\ pos.opened_at % 1000 = 0
       /\ pos.stop_loss # None => pos.stop_loss > 0
       /\ pos.take_profit # None => pos.take_profit > 0

FromSnapshot(snap, history) ==
  [InitialState EXCEPT
     !.equity = snap.equity,
     !.frames = history,
     !.pending_entry = snap.pending_entry,
     !.position = IF IsSome(snap.position)
                  THEN << [snap.position[1] EXCEPT !.opened_at = @ \div 1000] >> ELSE <<>>,
     !.last_exit_index = snap.last_exit_index,
     !.trade_seq = snap.trade_seq]

\* Mutation: a state whose hash differs is executed all the same.
ValidAnyHash(req) ==
  /\ ExecutionStart <= req.bar_open_at
  /\ req.bar_open_at <= PaperWindowMaxBars
  /\ req.state = None => req.bar_open_at = ExecutionStart

\* validate_paper_tick_request, the part that depends on the run's history.
Valid(req) ==
  /\ ExecutionStart <= req.bar_open_at
  /\ req.bar_open_at <= PaperWindowMaxBars
  /\ IF req.state = None
     THEN req.prev_state_hash = None /\ req.bar_open_at = ExecutionStart
     ELSE req.prev_state_hash = Sha(req.state)

\* Mutation: the window slides with the newest bar instead of the run's anchor.
SlidingHistory(req) ==
  SubSeq(market, IF Len(market) > 3 THEN Len(market) - 2 ELSE 1, req.bar_open_at)

\* The window before the target bar, rebuilt from the run's immutable anchor.
History(req) == SubSeq(market, 1, req.bar_open_at)

Restored(req) ==
  IF req.state = None
  THEN [InitialState EXCEPT !.frames = History(req)]
  ELSE FromSnapshot(req.state, History(req))

Reply(req) ==
  LET before == Restored(req)
      after == Evaluate(before, market[req.bar_open_at + 1])
  IN [bar_open_at |-> req.bar_open_at,
      prev_state_hash |-> IF req.state = None THEN Sha(ToSnapshot(before))
                                              ELSE req.prev_state_hash,
      next_state |-> ToSnapshot(after),
      next_state_hash |-> Sha(ToSnapshot(after)),
      closed_trades |-> after.trades,
      decisions |-> after.decisions,
      diagnostics |-> after.diagnostics]

----------------------------------------------------------------------------
Init ==
  /\ market = <<>>
  /\ cursor = ExecutionStart
  /\ snapshot = None /\ hash = None /\ draft = None
  /\ ledger = <<>> /\ journal = [decisions |-> <<>>, diagnostics |-> <<>>]
  /\ requests = {} /\ replies = {}
  /\ marks = <<>>

BarCloses(shape) ==
  /\ Len(market) < ExecutionEnd
  /\ market' = Append(market, At(shape, Len(market)))
  /\ UNCHANGED <<serverVars, draft, requests, replies>>

\* The Server reads the state it is about to send ...
ReadState ==
  /\ draft = None
  /\ cursor < ExecutionEnd
  /\ draft' = <<snapshot>>
  /\ UNCHANGED <<market, serverVars, requests, replies>>

\* ... and sends it with the cursor and hash it finds then: a reply committed in
\* between makes the two disagree.
Dispatch ==
  /\ draft # None
  /\ cursor < Len(market)
  /\ requests' = requests \cup
       {[bar_open_at |-> cursor, state |-> draft[1], prev_state_hash |-> hash]}
  /\ draft' = None
  /\ UNCHANGED <<market, serverVars, replies>>

\* _run_paper_tick.  A request that is invalid, whose bar is not served yet, or
\* whose snapshot does not decode fails closed: an error reply, no effect.
HandleTick(req) ==
  /\ Valid(req)
  /\ req.bar_open_at < Len(market)
  /\ req.state # None => Decodable(req.state)
  /\ Admissible(Restored(req), market[req.bar_open_at + 1])
  /\ replies' = replies \cup {Reply(req)}
  /\ UNCHANGED <<market, serverVars, draft, requests>>

\* The Server commits a reply that continues its chain, once.
Commit(reply) ==
  /\ reply.bar_open_at = cursor
  /\ hash # None => reply.prev_state_hash = hash
  /\ cursor' = cursor + 1
  /\ snapshot' = reply.next_state
  /\ hash' = reply.next_state_hash
  /\ ledger' = ledger \o reply.closed_trades
  /\ journal' = [decisions |-> journal.decisions \o reply.decisions,
                 diagnostics |-> journal.diagnostics \o reply.diagnostics]
  /\ marks' = IF IsSome(reply.next_state.position)
              THEN Append(marks, [ts |-> cursor + 1, realized_count |-> Len(ledger'),
                                  unrealized |->
                                    LET pos == The(reply.next_state.position)
                                    IN NetPnl(pos, market[cursor + 1].close)
                                         + market[cursor + 1].close * pos.qty * (FeeBps + SlippageBps)])
              ELSE marks
  /\ UNCHANGED <<market, draft, requests, replies>>

Next ==
  \/ \E shape \in Shapes : BarCloses(shape)
  \/ ReadState
  \/ Dispatch
  \/ \E req \in requests : HandleTick(req)
  \/ \E reply \in replies : Commit(reply)

Spec == Init /\ [][Next]_vars

----------------------------------------------------------------------------
\* The paper run as a replay: the frames ticked so far, and the Server's books.
\* Before the first tick the warmup bars arrive one by one.
PaperState ==
  LET base == IF snapshot = None THEN InitialState ELSE FromSnapshot(snapshot, <<>>)
      seen == IF snapshot = None
              THEN IF Len(market) < ExecutionStart THEN Len(market) ELSE ExecutionStart
              ELSE cursor
  IN [base EXCEPT !.frames = SubSeq(market, 1, seen), !.trades = ledger,
                  !.decisions = journal.decisions, !.diagnostics = journal.diagnostics]

Replay == INSTANCE StrategyKernel
            WITH Frames <- {At(s, t) : s \in Shapes, t \in 0..(ExecutionEnd - 1)},
                 state <- PaperState, mtm <- marks, status <- "running"

\* The whole paper run, ticked through snapshots with retries, duplicates and
\* torn reads, takes only steps the replay of the same bars could take.
ImplementsReplay == Replay!Spec

\* A tick is idempotent: whatever was retried, all replies that continue one
\* state for one bar are equal.
RepliesAgree ==
  \A a, b \in replies :
    a.bar_open_at = b.bar_open_at /\ a.prev_state_hash = b.prev_state_hash => a = b

\* Every snapshot the Provider hands out is one it can restore, to the state it
\* was taken from.
SnapshotsRestore == \A r \in replies : Decodable(r.next_state)
=============================================================================
