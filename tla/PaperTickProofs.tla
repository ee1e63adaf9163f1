-------------------------- MODULE PaperTickProofs --------------------------
(***************************************************************************)
(* Theorems of PaperTick for every strategy, market, window and schedule:  *)
(* the run ticked through snapshots is a replay of the same bars, a tick   *)
(* that is repeated gets the reply the first one got, and, where every     *)
(* stop and target level is positive, every snapshot restores.             *)
(***************************************************************************)
EXTENDS PaperTick, KernelStepsProofs

----------------------------------------------------------------------------
\* Prefixes of a sequence that grows at its end.
LEMMA PrefixOfAppend ==
  ASSUME NEW S, NEW m \in Seq(S), NEW e \in S, NEW n \in 0..Len(m)
  PROVE  SubSeq(Append(m, e), 1, n) = SubSeq(m, 1, n)
<1>1. Append(m, e) \in Seq(S) /\ Len(Append(m, e)) = Len(m) + 1 /\ Len(m) \in Nat OBVIOUS
<1>2. /\ SubSeq(Append(m, e), 1, n) \in Seq(S) /\ SubSeq(m, 1, n) \in Seq(S)
      /\ Len(SubSeq(Append(m, e), 1, n)) = n /\ Len(SubSeq(m, 1, n)) = n
  BY <1>1
<1>3. \A i \in 1..n : SubSeq(Append(m, e), 1, n)[i] = SubSeq(m, 1, n)[i] BY <1>1
<1>. QED BY <1>2, <1>3, SeqEqual

LEMMA PrefixGrows ==
  ASSUME NEW S, NEW m \in Seq(S), NEW n \in Nat, n < Len(m)
  PROVE  SubSeq(m, 1, n + 1) = Append(SubSeq(m, 1, n), m[n + 1])
<1>0. m[n + 1] \in S /\ Len(m) \in Nat OBVIOUS
<1>1. /\ SubSeq(m, 1, n) \in Seq(S) /\ Len(SubSeq(m, 1, n)) = n
      /\ SubSeq(m, 1, n + 1) \in Seq(S) /\ Len(SubSeq(m, 1, n + 1)) = n + 1
  BY <1>0
<1>2. /\ Append(SubSeq(m, 1, n), m[n + 1]) \in Seq(S)
      /\ Len(Append(SubSeq(m, 1, n), m[n + 1])) = n + 1
  BY <1>0, <1>1
<1>3. \A i \in 1..(n + 1) :
        SubSeq(m, 1, n + 1)[i] = Append(SubSeq(m, 1, n), m[n + 1])[i]
  BY <1>0, <1>1
<1>. QED BY <1>1, <1>2, <1>3, SeqEqual

LEMMA WholePrefix ==
  ASSUME NEW S, NEW m \in Seq(S) PROVE SubSeq(m, 1, Len(m)) = m
<1>1. Len(m) \in Nat OBVIOUS
<1>2. SubSeq(m, 1, Len(m)) \in Seq(S) /\ Len(SubSeq(m, 1, Len(m))) = Len(m) BY <1>1
<1>3. \A i \in 1..Len(m) : SubSeq(m, 1, Len(m))[i] = m[i] BY <1>1
<1>. QED BY <1>2, <1>3, SeqEqual

----------------------------------------------------------------------------
(***************************************************************************)
(* The snapshot codec.                                                     *)
(***************************************************************************)
\* The state a snapshot, or its absence, stands for.
Resume(snap, history) ==
  IF snap = None THEN [InitialState EXCEPT !.frames = history] ELSE FromSnapshot(snap, history)

\* Milliseconds on the wire, whole seconds in the kernel.
Encoded(pos) == [pos EXCEPT !.opened_at = @ * 1000]
Decoded(pos) == [pos EXCEPT !.opened_at = @ \div 1000]

LEMMA PositionCrosses ==
  ASSUME NEW pos \in Position
  PROVE  /\ Encoded(pos) \in Position
         /\ Encoded(pos).qty = pos.qty /\ Encoded(pos).entry_price = pos.entry_price
         /\ Decoded(Encoded(pos)) = pos
<1> DEFINE wire == Encoded(pos)
           back == Decoded(wire)
<1>1. pos.opened_at \in Nat /\ pos.opened_at * 1000 \in Nat BY DEF Position
<1>2. (pos.opened_at * 1000) \div 1000 = pos.opened_at BY <1>1
<1>3. wire = [pos EXCEPT !.opened_at = pos.opened_at * 1000] BY DEF Encoded
<1>4. /\ wire \in Position /\ wire.opened_at = pos.opened_at * 1000
      /\ wire.qty = pos.qty /\ wire.entry_price = pos.entry_price
      /\ wire.stop_loss = pos.stop_loss /\ wire.take_profit = pos.take_profit
      /\ wire.bars_held = pos.bars_held
      /\ wire.pending_signal_exit = pos.pending_signal_exit
  BY <1>1, <1>3 DEF Position
<1> HIDE DEF wire
<1>5. wire.opened_at \div 1000 = pos.opened_at BY <1>2, <1>4
<1>6. back = [wire EXCEPT !.opened_at = wire.opened_at \div 1000] BY DEF Decoded
<1>7. back = [wire EXCEPT !.opened_at = pos.opened_at] BY <1>5, <1>6
<1> HIDE DEF back
<1>8. /\ back \in Position /\ back.opened_at = pos.opened_at
      /\ back.qty = pos.qty /\ back.entry_price = pos.entry_price
      /\ back.stop_loss = pos.stop_loss /\ back.take_profit = pos.take_profit
      /\ back.bars_held = pos.bars_held
      /\ back.pending_signal_exit = pos.pending_signal_exit
  BY <1>1, <1>4, <1>7 DEF Position
<1>9. back = pos BY <1>8 DEF Position
<1>. QED BY <1>4, <1>9 DEF wire, back

\* A snapshot holds all of the state but the bars and the logs.
LEMMA SnapshotRestores ==
  ASSUME NEW st, Sound(st)
  PROVE  LET snap == ToSnapshot(st)
         IN /\ snap \in Snapshot
            /\ snap.equity = st.equity /\ snap.pending_entry = st.pending_entry
            /\ snap.last_exit_index = st.last_exit_index /\ snap.trade_seq = st.trade_seq
            /\ IsSome(snap.position) = IsSome(st.position)
            /\ IsSome(st.position) =>
                 /\ The(snap.position).qty = The(st.position).qty
                 /\ The(snap.position).entry_price = The(st.position).entry_price
            /\ \A h : FromSnapshot(snap, h).position = st.position
<1> DEFINE snap == ToSnapshot(st)
           wire == Encoded(st.position[1])
<1>1. /\ st.equity \in Int /\ st.pending_entry \in Seq(Pending) /\ st.position \in Seq(Position)
      /\ st.last_exit_index \in Nat /\ st.trade_seq \in Nat
  BY SoundParts
<1>2. CASE ~IsSome(st.position)
  <2>1. st.position = <<>> BY <1>2 DEF IsSome
  <2>2. snap = [equity |-> st.equity, pending_entry |-> st.pending_entry, position |-> <<>>,
                last_exit_index |-> st.last_exit_index, trade_seq |-> st.trade_seq]
    BY <1>2 DEF ToSnapshot
  <2>3. snap \in Snapshot BY <1>1, <2>1, <2>2 DEF Snapshot
  <2>4. \A h : FromSnapshot(snap, h).position = <<>>
    BY <2>2 DEF FromSnapshot, IsSome, InitialState
  <2> HIDE DEF snap
  <2>5. snap.position = <<>> BY <2>2
  <2>6. /\ snap.equity = st.equity /\ snap.pending_entry = st.pending_entry
        /\ snap.last_exit_index = st.last_exit_index /\ snap.trade_seq = st.trade_seq
    BY <2>2
  <2>7. \A h : FromSnapshot(snap, h).position = st.position BY <2>1, <2>4
  <2>8. IsSome(snap.position) = IsSome(st.position) BY <2>1, <2>5
  <2>. QED BY <1>2, <2>3, <2>6, <2>7, <2>8 DEF snap
<1>3. CASE IsSome(st.position)
  <2>1. The(st.position) \in Position /\ Len(st.position) = 1 BY <1>3, SoundParts
  <2>2. st.position[1] \in Position BY <2>1 DEF The
  <2>3. st.position = <<st.position[1]>> BY <1>1, <2>1
  <2>4. /\ wire \in Position /\ wire.qty = st.position[1].qty
        /\ wire.entry_price = st.position[1].entry_price
        /\ Decoded(wire) = st.position[1]
    BY <2>2, PositionCrosses
  <2>5. snap = [equity |-> st.equity, pending_entry |-> st.pending_entry, position |-> <<wire>>,
                last_exit_index |-> st.last_exit_index, trade_seq |-> st.trade_seq]
    BY <1>3 DEF ToSnapshot, Encoded
  <2> HIDE DEF wire, snap
  <2>6. <<wire>> \in Seq(Position) /\ <<wire>> # <<>> /\ (<<wire>>)[1] = wire
    BY <2>4, OneElement
  <2>7. snap \in Snapshot BY <1>1, <2>5, <2>6 DEF Snapshot
  <2>8. snap.position = <<wire>> /\ snap.position[1] = wire BY <2>5, <2>6
  <2>9. \A h : FromSnapshot(snap, h).position = <<Decoded(wire)>>
    BY <2>6, <2>8 DEF FromSnapshot, IsSome, InitialState, Decoded
  <2>10. \A h : FromSnapshot(snap, h).position = st.position BY <2>3, <2>4, <2>9
  <2>11. /\ snap.equity = st.equity /\ snap.pending_entry = st.pending_entry
         /\ snap.last_exit_index = st.last_exit_index /\ snap.trade_seq = st.trade_seq
    BY <2>5
  <2>12. IsSome(snap.position) = IsSome(st.position) BY <1>3, <2>6, <2>8 DEF IsSome
  <2>13. The(snap.position).qty = The(st.position).qty
         /\ The(snap.position).entry_price = The(st.position).entry_price
    BY <2>4, <2>8 DEF The
  <2>. QED BY <2>7, <2>10, <2>11, <2>12, <2>13 DEF snap
<1>. QED BY <1>2, <1>3

\* Frames apart, the history of a run does not show in what is restored.
LEMMA ResumeFields ==
  ASSUME NEW snap, NEW h
  PROVE  Resume(snap, h) =
           [equity |-> IF snap = None THEN InitialCapital * Bps ELSE snap.equity, frames |-> h,
            pending_entry |-> IF snap = None THEN <<>> ELSE snap.pending_entry,
            position |-> Resume(snap, <<>>).position,
            last_exit_index |-> IF snap = None THEN 0 ELSE snap.last_exit_index,
            trade_seq |-> IF snap = None THEN 0 ELSE snap.trade_seq,
            trades |-> <<>>, decisions |-> <<>>, diagnostics |-> <<>>]
<1>1. CASE snap = None BY <1>1 DEF Resume, InitialState
<1>2. CASE snap # None
  <2>1. /\ Resume(snap, h) = FromSnapshot(snap, h)
        /\ Resume(snap, <<>>).position = FromSnapshot(snap, <<>>).position
    BY <1>2 DEF Resume
  <2>2. FromSnapshot(snap, <<>>).position = FromSnapshot(snap, h).position
    BY DEF FromSnapshot, InitialState
  <2>3. FromSnapshot(snap, h) =
          [equity |-> snap.equity, frames |-> h, pending_entry |-> snap.pending_entry,
           position |-> FromSnapshot(snap, h).position,
           last_exit_index |-> snap.last_exit_index, trade_seq |-> snap.trade_seq,
           trades |-> <<>>, decisions |-> <<>>, diagnostics |-> <<>>]
    <3> DEFINE p == IF IsSome(snap.position)
                    THEN << Decoded(snap.position[1]) >> ELSE <<>>
    <3>1. FromSnapshot(snap, h)
            = [InitialState EXCEPT !.equity = snap.equity, !.frames = h,
                                   !.pending_entry = snap.pending_entry, !.position = p,
                                   !.last_exit_index = snap.last_exit_index,
                                   !.trade_seq = snap.trade_seq]
      BY DEF FromSnapshot, Decoded
    <3> HIDE DEF p
    <3>2. FromSnapshot(snap, h).position = p BY <3>1 DEF InitialState
    <3>. QED BY <3>1, <3>2 DEF InitialState
  <2>. QED BY <1>2, <2>1, <2>2, <2>3
<1>. QED BY <1>1, <1>2

----------------------------------------------------------------------------
(***************************************************************************)
(* The inductive invariant.  The Server's snapshot and hash are one state  *)
(* of the run; a request the validator accepts asks for the first bar if   *)
(* and only if it carries no state; and every reply answers such a request *)
(* with what the market before its bar, and nothing else, determines.      *)
(***************************************************************************)
Printed(bars) ==
  /\ bars \in Seq(Frame) /\ Len(bars) <= ExecutionEnd
  /\ \A i \in 1..Len(bars) : \E s \in Shapes : bars[i] = At(s, i - 1)

MarketInv == Printed(market)

ChainInv ==
  /\ snapshot = None =>
       /\ hash = None /\ cursor = ExecutionStart
       /\ ledger = <<>> /\ journal = [decisions |-> <<>>, diagnostics |-> <<>>]
  /\ snapshot # None =>
       /\ snapshot \in Snapshot /\ hash = Sha(snapshot)
       /\ cursor \in (ExecutionStart + 1)..Len(market)

DraftInv == draft = None \/ \E s \in Snapshot \cup {None} : draft = <<s>>

Anchored(req) ==
  /\ req.bar_open_at \in Nat
  /\ req.state \in Snapshot \cup {None}
  /\ Valid(req) => (req.state = None <=> req.bar_open_at = ExecutionStart)

Answers(reply, req) ==
  /\ Valid(req)
  /\ req.bar_open_at < Len(market)
  /\ reply = Reply(req)

RequestsInv == \A req \in requests : Anchored(req)
RepliesInv == \A reply \in replies : \E req \in requests : Answers(reply, req)

PaperInv ==
  /\ MarketInv /\ ChainInv /\ DraftInv /\ RequestsInv /\ RepliesInv
  /\ Sound(PaperState)

\* The bars the run has been through.
Seen ==
  IF snapshot = None THEN IF Len(market) < ExecutionStart THEN Len(market) ELSE ExecutionStart
  ELSE cursor

LEMMA PaperStateIs ==
  PaperState = [Resume(snapshot, <<>>) EXCEPT
                  !.frames = SubSeq(market, 1, Seen), !.trades = ledger,
                  !.decisions = journal.decisions, !.diagnostics = journal.diagnostics]
<1>1. CASE snapshot = None BY <1>1 DEF PaperState, Resume, Seen, InitialState
<1>2. CASE snapshot # None BY <1>2 DEF PaperState, Resume, Seen
<1>. QED BY <1>1, <1>2

\* A request for the bar at the cursor that continues the Server's hash carries
\* the Server's state: whatever was read when, a torn or stale pair is refused.
LEMMA ChainCarriesState ==
  ASSUME ChainInv, RequestsInv, NEW req \in requests, NEW reply, Answers(reply, req),
         reply.bar_open_at = cursor, hash # None => reply.prev_state_hash = hash
  PROVE  req.state = snapshot /\ req.bar_open_at = cursor
<1>1. /\ reply.bar_open_at = req.bar_open_at
      /\ req.state # None => reply.prev_state_hash = req.prev_state_hash
  BY DEF Answers, Reply
<1>2. Anchored(req) /\ Valid(req) BY DEF RequestsInv, Answers
<1>3. req.bar_open_at = cursor BY <1>1
<1>4. CASE snapshot = None
  <2>1. cursor = ExecutionStart BY <1>4 DEF ChainInv
  <2>. QED BY <1>2, <1>3, <1>4, <2>1 DEF Anchored
<1>5. CASE snapshot # None
  <2>1. snapshot \in Snapshot /\ hash = Sha(snapshot) /\ cursor # ExecutionStart
    BY <1>5, RunAssumption DEF ChainInv
  <2>2. Sha(snapshot) \in [sha256 : Snapshot] BY <2>1 DEF Sha
  <2>3. hash # None BY <2>1, <2>2, NullAssumption
  <2>4. req.state # None BY <1>2, <1>3, <2>1 DEF Anchored
  <2>5. Sha(req.state) = Sha(snapshot) BY <1>1, <1>2, <2>1, <2>3, <2>4 DEF Valid
  <2>6. Sha(req.state).sha256 = req.state /\ Sha(snapshot).sha256 = snapshot BY DEF Sha
  <2>. QED BY <1>3, <2>5, <2>6
<1>. QED BY <1>4, <1>5

\* What the handler restores is the run's state without its logs.
LEMMA RestoredFollows ==
  ASSUME PaperInv, cursor < Len(market), NEW req, req.state = snapshot, req.bar_open_at = cursor
  PROVE  /\ Logs(ledger, journal.decisions, journal.diagnostics)
         /\ Sound(Restored(req))
         /\ Follows(PaperState, Restored(req), ledger, journal.decisions, journal.diagnostics)
         /\ Restored(req).trades = <<>> /\ Restored(req).decisions = <<>>
         /\ Restored(req).diagnostics = <<>>
         /\ PaperState.frames = SubSeq(market, 1, cursor)
<1> DEFINE H == SubSeq(market, 1, cursor)
           b == Resume(snapshot, H)
           a == PaperState
           base == Resume(snapshot, <<>>)
<1>0. Len(market) \in Nat /\ cursor \in Nat
  BY RunAssumption DEF PaperInv, MarketInv, Printed, ChainInv
<1>1. Seen = cursor BY <1>0, RunAssumption DEF Seen, PaperInv, ChainInv
<1>2. Restored(req) = b BY DEF Restored, Resume, History
<1>3. a = [base EXCEPT !.frames = H, !.trades = ledger, !.decisions = journal.decisions,
                       !.diagnostics = journal.diagnostics]
  BY <1>1, PaperStateIs
<1>4. /\ b = [equity |-> base.equity, frames |-> H, pending_entry |-> base.pending_entry,
              position |-> base.position, last_exit_index |-> base.last_exit_index,
              trade_seq |-> base.trade_seq, trades |-> <<>>, decisions |-> <<>>,
              diagnostics |-> <<>>]
      /\ base = [equity |-> base.equity, frames |-> <<>>, pending_entry |-> base.pending_entry,
                 position |-> base.position, last_exit_index |-> base.last_exit_index,
                 trade_seq |-> base.trade_seq, trades |-> <<>>, decisions |-> <<>>,
                 diagnostics |-> <<>>]
  <2> DEFINE equity == IF snapshot = None THEN InitialCapital * Bps ELSE snapshot.equity
             pending == IF snapshot = None THEN <<>> ELSE snapshot.pending_entry
             last == IF snapshot = None THEN 0 ELSE snapshot.last_exit_index
             count == IF snapshot = None THEN 0 ELSE snapshot.trade_seq
             Of(h) == [equity |-> equity, frames |-> h, pending_entry |-> pending,
                       position |-> base.position, last_exit_index |-> last,
                       trade_seq |-> count, trades |-> <<>>, decisions |-> <<>>,
                       diagnostics |-> <<>>]
  <2>1. \A h : Resume(snapshot, h) = Of(h) BY ResumeFields
  <2> HIDE DEF equity, pending, last, count
  <2>2. b = Of(H) /\ base = Of(<<>>) BY <2>1
  <2> HIDE DEF b, base
  <2>3. /\ base.equity = equity /\ base.pending_entry = pending
        /\ base.last_exit_index = last /\ base.trade_seq = count
    BY <2>2
  <2>. QED BY <2>2, <2>3
<1> HIDE DEF a, b, base, H
<1>5. a = [equity |-> base.equity, frames |-> H, pending_entry |-> base.pending_entry,
           position |-> base.position, last_exit_index |-> base.last_exit_index,
           trade_seq |-> base.trade_seq, trades |-> ledger, decisions |-> journal.decisions,
           diagnostics |-> journal.diagnostics]
  BY <1>3, <1>4
<1>6. Sound(a) BY DEF PaperInv, a
<1>7. /\ a.equity = base.equity /\ a.frames = H /\ a.pending_entry = base.pending_entry
      /\ a.position = base.position /\ a.last_exit_index = base.last_exit_index
      /\ a.trade_seq = base.trade_seq
      /\ a.trades = ledger /\ a.decisions = journal.decisions
      /\ a.diagnostics = journal.diagnostics
  BY <1>5
<1>8. /\ b.equity = base.equity /\ b.frames = H /\ b.pending_entry = base.pending_entry
      /\ b.position = base.position /\ b.last_exit_index = base.last_exit_index
      /\ b.trade_seq = base.trade_seq
      /\ b.trades = <<>> /\ b.decisions = <<>> /\ b.diagnostics = <<>>
  BY <1>4
<1>9. Logs(ledger, journal.decisions, journal.diagnostics)
  <2>1. /\ a.trades \in Seq(Trade) /\ a.decisions \in Seq(Decision)
        /\ a.diagnostics \in Seq(Diagnostic)
    BY <1>6, SoundParts
  <2>. QED BY <1>7, <2>1 DEF Logs
<1>10. Sound(b)
  <2>1. /\ base.equity \in Int /\ H \in Seq(Frame) /\ base.pending_entry \in Seq(Pending)
        /\ base.position \in Seq(Position) /\ base.last_exit_index \in Nat
        /\ base.trade_seq \in Nat
    BY <1>6, <1>7, SoundParts
  <2>2. <<>> \in Seq(Trade) /\ <<>> \in Seq(Decision) /\ <<>> \in Seq(Diagnostic) OBVIOUS
  <2>3. b \in KernelState BY <1>4, <2>1, <2>2 DEF KernelState
  <2>4. b.pending_entry = a.pending_entry /\ b.position = a.position BY <1>7, <1>8
  <2>. QED BY <1>6, <2>3, <2>4 DEF Sound
<1>11. Follows(a, b, ledger, journal.decisions, journal.diagnostics)
  <2>1. /\ ledger \o <<>> = ledger /\ journal.decisions \o <<>> = journal.decisions
        /\ journal.diagnostics \o <<>> = journal.diagnostics
    BY <1>9, ConcatEmptySeq DEF Logs
  <2>. QED BY <1>7, <1>8, <2>1 DEF Follows
<1>. QED BY <1>2, <1>7, <1>8, <1>9, <1>10, <1>11 DEF a, H

----------------------------------------------------------------------------
(***************************************************************************)
(* What the two steps that matter do to the run.                           *)
(***************************************************************************)
\* _open_leg_mtm of the replay, on the bar a position survives.
OpenLeg(pos, mark) ==
  (IF Side = "long" THEN mark - pos.entry_price ELSE pos.entry_price - mark) * pos.qty * Bps
    - pos.entry_price * pos.qty * (FeeBps + SlippageBps)

MarkOf(st, frame) ==
  [ts |-> CloseAt(frame), realized_count |-> Len(st.trades),
   unrealized |-> OpenLeg(The(st.position), frame.close)]

Marked(points, st, frame) ==
  IF IsSome(st.position) THEN Append(points, MarkOf(st, frame)) ELSE points

\* A mark is the net profit of a close at that price but for the cost of the close.
LEMMA MarkIsNetOfEntry ==
  ASSUME NEW pos \in Position, NEW mark \in Int
  PROVE  NetPnl(pos, mark) + mark * pos.qty * (FeeBps + SlippageBps) = OpenLeg(pos, mark)
<1> DEFINE e == pos.entry_price
           q == pos.qty
           f == FeeBps + SlippageBps
           gain == (IF Side = "long" THEN mark - e ELSE e - mark) * q * Bps
<1>1. e \in Int /\ q \in Int /\ f \in Int BY RunAssumption DEF Position
<1>2. gain \in Int BY <1>1 DEF Bps
<1>3. NetPnl(pos, mark) = gain - (e + mark) * q * f BY DEF NetPnl
<1>4. OpenLeg(pos, mark) = gain - e * q * f BY DEF OpenLeg
<1> HIDE DEF e, q, f, gain
<1>5. (e + mark) * q * f = e * q * f + mark * q * f
  <2>1. (e + mark) * q = e * q + mark * q BY <1>1
  <2> DEFINE u == e * q
             v == mark * q
  <2>2. u \in Int /\ v \in Int BY <1>1
  <2> HIDE DEF u, v
  <2>3. (u + v) * f = u * f + v * f BY <1>1, <2>2
  <2>. QED BY <2>1, <2>3 DEF u, v
<1>6. e * q * f \in Int /\ mark * q * f \in Int BY <1>1
<1>7. NetPnl(pos, mark) + mark * q * f = OpenLeg(pos, mark)
  BY <1>2, <1>3, <1>4, <1>5, <1>6
<1>. QED BY <1>7 DEF q, f

\* The bars of the market are bars the kernel takes, each after the last.
LEMMA BarsAreFrames ==
  ASSUME NEW bars, Printed(bars), NEW i \in 1..Len(bars)
  PROVE  /\ bars[i] \in Frame /\ bars[i].open_at = i - 1
         /\ bars[i].low <= bars[i].open /\ bars[i].low <= bars[i].close
         /\ bars[i].open <= bars[i].high /\ bars[i].close <= bars[i].high
<1>1. PICK s \in Shapes : bars[i] = At(s, i - 1) BY DEF Printed
<1>2. bars[i] \in Frame BY DEF Printed
<1>3. s.low <= s.open /\ s.low <= s.close /\ s.open <= s.high /\ s.close <= s.high
  BY PaperAssumption
<1>. QED BY <1>1, <1>2, <1>3 DEF At

\* Bar n + 1 opens at n.
LEMMA BarsInOrder ==
  ASSUME NEW bars, Printed(bars)
  PROVE  /\ \A i \in 1..Len(bars) : bars[i].open_at = i - 1
         /\ \A n \in Nat : n < Len(bars) => bars[n + 1].open_at = n
<1>1. \A i \in 1..Len(bars) : bars[i].open_at = i - 1 BY BarsAreFrames
<1>2. Len(bars) \in Nat BY DEF Printed
<1>3. ASSUME NEW n \in Nat, n < Len(bars) PROVE bars[n + 1].open_at = n
  <2>1. n + 1 \in 1..Len(bars) /\ (n + 1) - 1 = n BY <1>2, <1>3
  <2> DEFINE i == n + 1
  <2>2. i \in 1..Len(bars) /\ i - 1 = n BY <2>1
  <2> HIDE DEF i
  <2>3. bars[i].open_at = n BY <1>1, <2>2
  <2>. QED BY <2>3 DEF i
<1>. QED BY <1>1, <1>3

\* The bars the replay may be given.
Bars == {At(s, t) : s \in Shapes, t \in 0..(ExecutionEnd - 1)}

LEMMA BarsAreGiven ==
  ASSUME NEW bars, Printed(bars), NEW i \in 1..Len(bars)
  PROVE  bars[i] \in Bars
<1>1. PICK s \in Shapes : bars[i] = At(s, i - 1) BY DEF Printed
<1>2. i - 1 \in 0..(ExecutionEnd - 1) BY RunAssumption DEF Printed
<1>. QED BY <1>1, <1>2 DEF Bars

LEMMA NextBarAdmissible ==
  ASSUME NEW bars, Printed(bars), NEW n \in Nat, n < Len(bars),
         NEW st, st.frames = SubSeq(bars, 1, n)
  PROVE  Admissible(st, bars[n + 1])
<1>1. bars \in Seq(Frame) /\ Len(bars) \in Nat /\ n + 1 \in 1..Len(bars) BY DEF Printed
<1>2. CloseAt(bars[n + 1]) <= ExecutionEnd
  <2>1. bars[n + 1].open_at = n BY BarsInOrder
  <2>. QED BY <1>1, <2>1, RunAssumption DEF Printed, CloseAt
<1>3. ASSUME st.frames # <<>>
      PROVE  st.frames[Len(st.frames)].open_at < bars[n + 1].open_at
  <2>1. Len(st.frames) = n /\ st.frames \in Seq(Frame) BY <1>1
  <2>2. n # 0 BY <1>3, <2>1, EmptySeq
  <2>3. st.frames[n] = bars[n] BY <1>1, <2>2
  <2>4. bars[n].open_at = n - 1 /\ bars[n + 1].open_at = n
    BY <1>1, <2>2, BarsInOrder
  <2>5. st.frames[Len(st.frames)] = bars[n] BY <2>1, <2>3
  <2>6. n - 1 < n OBVIOUS
  <2>. QED BY <2>4, <2>5, <2>6, Zenon
<1>. QED BY <1>1, <1>2, <1>3, BarsAreFrames DEF Admissible

LEMMA StateIsItsFields ==
  ASSUME NEW st \in KernelState
  PROVE  st = [equity |-> st.equity, frames |-> st.frames, pending_entry |-> st.pending_entry,
               position |-> st.position, last_exit_index |-> st.last_exit_index,
               trade_seq |-> st.trade_seq, trades |-> st.trades,
               decisions |-> st.decisions, diagnostics |-> st.diagnostics]
BY DEF KernelState

\* A committed reply takes the run one evaluated bar further.
LEMMA CommitEvaluates ==
  ASSUME PaperInv, NEW reply \in replies, Commit(reply)
  PROVE  /\ cursor \in Nat /\ cursor < Len(market)
         /\ PaperState.frames = SubSeq(market, 1, cursor)
         /\ PaperState' = Evaluate(PaperState, market[cursor + 1])
         /\ marks' = Marked(marks, PaperState', market[cursor + 1])
         /\ snapshot' \in Snapshot /\ hash' = Sha(snapshot')
<1> DEFINE frame == market[cursor + 1]
           a == PaperState
           T == ledger
           D == journal.decisions
           G == journal.diagnostics
           next == Evaluate(a, frame)
<1>1. PICK req \in requests : Answers(reply, req) BY DEF PaperInv, RepliesInv
<1>2. req.state = snapshot /\ req.bar_open_at = cursor
  BY <1>1, ChainCarriesState DEF PaperInv, Commit
<1>3. cursor \in Nat /\ cursor < Len(market)
  <2>1. cursor < Len(market) BY <1>1, <1>2 DEF Answers
  <2>2. cursor \in Nat BY <1>2 DEF PaperInv, RequestsInv, Anchored
  <2>. QED BY <2>1, <2>2
<1> DEFINE b == Restored(req)
           after == Evaluate(b, frame)
<1>4. /\ Logs(T, D, G) /\ Sound(b) /\ Follows(a, b, T, D, G)
      /\ b.trades = <<>> /\ b.decisions = <<>> /\ b.diagnostics = <<>>
      /\ a.frames = SubSeq(market, 1, cursor)
  BY <1>2, <1>3, RestoredFollows
<1>5. Sound(a) BY DEF PaperInv
<1>6. market \in Seq(Frame) /\ Len(market) \in Nat /\ frame \in Frame
  BY <1>3 DEF PaperInv, MarketInv, Printed
<1>7. /\ reply.next_state = ToSnapshot(after) /\ reply.next_state_hash = Sha(ToSnapshot(after))
      /\ reply.closed_trades = after.trades /\ reply.decisions = after.decisions
      /\ reply.diagnostics = after.diagnostics
  BY <1>1, <1>2 DEF Answers, Reply
<1> HIDE DEF a, b, frame
<1>8. Sound(after) /\ Sound(next) /\ Follows(next, after, T, D, G)
  BY <1>4, <1>5, <1>6, EvaluateSound, EvaluateFollows
<1>9. next.frames = SubSeq(market, 1, cursor + 1)
  <2>1. next.frames = Append(SubSeq(market, 1, cursor), frame)
    BY <1>4, <1>5, <1>6, EvaluateFrames
  <2>2. SubSeq(market, 1, cursor + 1) = Append(SubSeq(market, 1, cursor), frame)
    BY <1>3, <1>6, PrefixGrows DEF frame
  <2>. QED BY <2>1, <2>2
<1> HIDE DEF next, after
<1> DEFINE snap == ToSnapshot(after)
<1>10. /\ snap \in Snapshot
       /\ snap.equity = after.equity /\ snap.pending_entry = after.pending_entry
       /\ snap.last_exit_index = after.last_exit_index /\ snap.trade_seq = after.trade_seq
       /\ IsSome(snap.position) = IsSome(after.position)
       /\ IsSome(after.position) =>
            /\ The(snap.position).qty = The(after.position).qty
            /\ The(snap.position).entry_price = The(after.position).entry_price
       /\ \A h : FromSnapshot(snap, h).position = after.position
  BY <1>8, SnapshotRestores
<1> HIDE DEF snap
<1>11. /\ snapshot' = snap /\ hash' = Sha(snap) /\ cursor' = cursor + 1 /\ market' = market
       /\ ledger' = T \o after.trades
       /\ journal'.decisions = D \o after.decisions
       /\ journal'.diagnostics = G \o after.diagnostics
  BY <1>7 DEF Commit, snap
<1>12. PaperState' = next
  <2>1. snap # None BY <1>10, NullAssumption
  <2>2. PaperState' = [FromSnapshot(snap, <<>>) EXCEPT
                         !.frames = SubSeq(market, 1, cursor + 1), !.trades = ledger',
                         !.decisions = journal'.decisions,
                         !.diagnostics = journal'.diagnostics]
    BY <1>11, <2>1 DEF PaperState
  <2>3. Resume(snap, <<>>) = FromSnapshot(snap, <<>>) BY <2>1 DEF Resume
  <2>4. Resume(snap, <<>>) =
          [equity |-> after.equity, frames |-> <<>>, pending_entry |-> after.pending_entry,
           position |-> after.position, last_exit_index |-> after.last_exit_index,
           trade_seq |-> after.trade_seq, trades |-> <<>>, decisions |-> <<>>,
           diagnostics |-> <<>>]
    <3>1. Resume(snap, <<>>).position = after.position BY <1>10, <2>3
    <3>. QED BY <1>10, <2>1, <3>1, ResumeFields
  <2> DEFINE base == Resume(snap, <<>>)
  <2>7a. base = FromSnapshot(snap, <<>>) BY <2>3
  <2> HIDE DEF base
  <2>5. PaperState' =
          [equity |-> after.equity, frames |-> SubSeq(market, 1, cursor + 1),
           pending_entry |-> after.pending_entry,
           position |-> after.position, last_exit_index |-> after.last_exit_index,
           trade_seq |-> after.trade_seq, trades |-> ledger',
           decisions |-> journal'.decisions, diagnostics |-> journal'.diagnostics]
    <3>1. PaperState' = [base EXCEPT
                           !.frames = SubSeq(market, 1, cursor + 1), !.trades = ledger',
                           !.decisions = journal'.decisions,
                           !.diagnostics = journal'.diagnostics]
      BY <2>2, <2>7a
    <3>2. base = [equity |-> after.equity, frames |-> <<>>, pending_entry |-> after.pending_entry,
                  position |-> after.position, last_exit_index |-> after.last_exit_index,
                  trade_seq |-> after.trade_seq, trades |-> <<>>, decisions |-> <<>>,
                  diagnostics |-> <<>>]
      BY <2>4 DEF base
    <3>. QED BY <3>1, <3>2
  <2>6. /\ next.equity = after.equity /\ next.pending_entry = after.pending_entry
        /\ next.position = after.position /\ next.last_exit_index = after.last_exit_index
        /\ next.trade_seq = after.trade_seq /\ next.trades = ledger'
        /\ next.decisions = journal'.decisions /\ next.diagnostics = journal'.diagnostics
    BY <1>8, <1>11 DEF Follows
  <2>7. next \in KernelState BY <1>8 DEF Sound
  <2>. QED BY <1>9, <2>5, <2>6, <2>7, StateIsItsFields
<1>13. marks' = Marked(marks, next, frame)
  <2>1. next.position = after.position /\ next.trades = ledger'
    BY <1>8, <1>11 DEF Follows
  <2>2. reply.next_state = snap BY <1>7 DEF snap
  <2>3. CASE ~IsSome(after.position)
    BY <1>10, <2>1, <2>2, <2>3 DEF Commit, Marked
  <2>4. CASE IsSome(after.position)
    <3> DEFINE pos == The(after.position)
               wire == The(snap.position)
               money == NetPnl(wire, frame.close)
                          + frame.close * wire.qty * (FeeBps + SlippageBps)
    <3>1. pos \in Position BY <1>8, <2>4, SoundParts
    <3>2. wire.qty = pos.qty /\ wire.entry_price = pos.entry_price BY <1>10, <2>4
    <3>3. money = NetPnl(pos, frame.close) + frame.close * pos.qty * (FeeBps + SlippageBps)
      BY <3>2 DEF NetPnl
    <3>4. frame.close \in Int BY <1>6 DEF Frame
    <3>5. money = OpenLeg(pos, frame.close) BY <3>1, <3>3, <3>4, MarkIsNetOfEntry
    <3>6. marks' = Append(marks, [ts |-> cursor + 1, realized_count |-> Len(ledger'),
                                  unrealized |-> money])
      BY <1>10, <2>2, <2>4 DEF Commit, frame
    <3>7. CloseAt(frame) = cursor + 1
      <4>1. frame.open_at = cursor BY <1>3, BarsInOrder DEF PaperInv, MarketInv, frame
      <4>. QED BY <4>1 DEF CloseAt
    <3> HIDE DEF money, wire
    <3>8. MarkOf(next, frame) = [ts |-> cursor + 1, realized_count |-> Len(ledger'),
                                 unrealized |-> money]
      BY <2>1, <3>5, <3>7 DEF MarkOf
    <3>. QED BY <2>1, <2>4, <3>6, <3>8 DEF Marked
  <2>. QED BY <2>3, <2>4
<1>. QED BY <1>3, <1>4, <1>10, <1>11, <1>12, <1>13 DEF a, frame, next

\* A bar that closes before the run is ticked for the first time is a warmup bar
\* of the replay; one that closes later is not the run's yet.
LEMMA BarArrives ==
  ASSUME PaperInv, NEW shape \in Shapes, BarCloses(shape)
  PROVE  \/ /\ PaperState' = Evaluate(PaperState, market'[Len(market')])
            /\ PaperState.frames = SubSeq(market', 1, Len(market))
            /\ PaperState'.position = <<>>
         \/ PaperState' = PaperState
<1> DEFINE bar == At(shape, Len(market))
<1>1. /\ market \in Seq(Frame) /\ Len(market) \in Nat /\ market' = Append(market, bar)
      /\ snapshot' = snapshot /\ cursor' = cursor /\ ledger' = ledger /\ journal' = journal
      /\ Len(market) < ExecutionEnd
  BY DEF PaperInv, MarketInv, Printed, BarCloses, serverVars
<1>2. bar \in Frame BY <1>1, PaperAssumption, RunAssumption DEF At
<1> HIDE DEF bar
<1>3. /\ market' \in Seq(Frame) /\ Len(market') = Len(market) + 1
      /\ market'[Len(market')] = bar
  BY <1>1, <1>2
<1>4. PaperState' = [Resume(snapshot, <<>>) EXCEPT
                       !.frames = SubSeq(market', 1, Seen'), !.trades = ledger,
                       !.decisions = journal.decisions, !.diagnostics = journal.diagnostics]
  <2>1. CASE snapshot = None
    BY <1>1, <2>1 DEF PaperState, Resume, Seen, InitialState
  <2>2. CASE snapshot # None BY <1>1, <2>2 DEF PaperState, Resume, Seen
  <2>. QED BY <2>1, <2>2
<1>5. CASE snapshot = None /\ Len(market) < ExecutionStart
  <2>1. Seen = Len(market) /\ Seen' = Len(market')
    BY <1>1, <1>3, <1>5, RunAssumption DEF Seen
  <2>2. SubSeq(market, 1, Seen) = market /\ SubSeq(market', 1, Seen') = market'
    BY <1>1, <1>3, <2>1, WholePrefix
  <2>3. Resume(snapshot, <<>>) = InitialState BY <1>5 DEF Resume, InitialState
  <2>4. PaperState = [InitialState EXCEPT !.frames = market, !.trades = ledger,
                                          !.decisions = journal.decisions,
                                          !.diagnostics = journal.diagnostics]
    BY <2>2, <2>3, PaperStateIs
  <2>5. PaperState' = [InitialState EXCEPT !.frames = market', !.trades = ledger,
                                           !.decisions = journal.decisions,
                                           !.diagnostics = journal.diagnostics]
    BY <1>4, <2>2, <2>3
  <2>6. bar.open_at = Len(market) BY DEF bar, At
  <2>7. Evaluate(PaperState, bar) = Arrive(PaperState, bar)
    BY <1>1, <1>5, <2>6 DEF Evaluate
  <2>8. PaperState' = Arrive(PaperState, bar)
    BY <1>1, <2>4, <2>5 DEF Arrive, InitialState
  <2>9. PaperState'.position = <<>> BY <2>5 DEF InitialState
  <2>10. PaperState.frames = SubSeq(market', 1, Len(market))
    <3>1. PaperState.frames = market BY <2>4 DEF InitialState
    <3>2. SubSeq(market', 1, Len(market)) = SubSeq(market, 1, Len(market))
      BY <1>1, <1>2, PrefixOfAppend
    <3>. QED BY <1>1, <3>1, <3>2, WholePrefix
  <2>. QED BY <1>3, <2>7, <2>8, <2>9, <2>10
<1>6. CASE ~(snapshot = None /\ Len(market) < ExecutionStart)
  <2>1. Seen' = Seen /\ Seen \in 0..Len(market)
    BY <1>1, <1>3, <1>6, RunAssumption DEF Seen, PaperInv, ChainInv
  <2>2. SubSeq(market', 1, Seen') = SubSeq(market, 1, Seen)
    BY <1>1, <1>2, <2>1, PrefixOfAppend
  <2>. QED BY <1>4, <2>2, PaperStateIs
<1>. QED BY <1>5, <1>6

----------------------------------------------------------------------------
(***************************************************************************)
(* The invariant is inductive.                                             *)
(***************************************************************************)
\* Nothing the market prints later changes the answer to a tick.
LEMMA AnswersLast ==
  ASSUME PaperInv, NEW shape \in Shapes, BarCloses(shape), NEW reply, NEW req \in requests,
         Answers(reply, req)
  PROVE  Answers(reply, req)'
<1> DEFINE bar == At(shape, Len(market))
           n == req.bar_open_at
<1>1. market \in Seq(Frame) /\ Len(market) \in Nat /\ market' = Append(market, bar)
  BY DEF PaperInv, MarketInv, Printed, BarCloses
<1>2. bar \in Frame BY <1>1, PaperAssumption, RunAssumption DEF At, PaperInv, MarketInv, Printed, BarCloses
<1> HIDE DEF bar
<1>3. n \in Nat /\ n < Len(market) /\ Valid(req) /\ reply = Reply(req)
  BY DEF PaperInv, RequestsInv, Anchored, Answers
<1>4. /\ market' \in Seq(Frame) /\ Len(market') = Len(market) + 1
      /\ market'[n + 1] = market[n + 1]
  BY <1>1, <1>2, <1>3
<1>5. History(req)' = History(req) BY <1>1, <1>2, <1>3, PrefixOfAppend DEF History
<1>6. Restored(req)' = Restored(req) BY <1>5 DEF Restored
<1>7. Reply(req)' = Reply(req) BY <1>4, <1>6 DEF Reply
<1>8. n < Len(market') BY <1>1, <1>3, <1>4
<1>. QED BY <1>3, <1>7, <1>8 DEF Answers, Valid

LEMMA PaperInit == Init => PaperInv
<1> SUFFICES ASSUME Init PROVE PaperInv OBVIOUS
<1>1. market = <<>> /\ Len(market) = 0 /\ snapshot = None BY DEF Init
<1>2. MarketInv BY <1>1, RunAssumption DEF MarketInv, Printed
<1>3. ChainInv /\ DraftInv /\ RequestsInv /\ RepliesInv
  BY DEF Init, ChainInv, DraftInv, RequestsInv, RepliesInv
<1>4. PaperState = InitialState
  <2>1. Seen = 0 BY <1>1, RunAssumption DEF Seen
  <2>2. SubSeq(market, 1, Seen) = <<>> BY <1>1, <2>1
  <2>3. Resume(snapshot, <<>>) = InitialState BY <1>1 DEF Resume, InitialState
  <2>4. PaperState = [InitialState EXCEPT !.frames = <<>>, !.trades = <<>>,
                                          !.decisions = <<>>, !.diagnostics = <<>>]
    BY <2>2, <2>3, PaperStateIs DEF Init
  <2>. QED BY <2>4 DEF InitialState
<1>. QED BY <1>2, <1>3, <1>4, InitialSound DEF PaperInv

LEMMA BarClosesKeeps ==
  ASSUME PaperInv, NEW shape \in Shapes, BarCloses(shape) PROVE PaperInv'
<1> DEFINE bar == At(shape, Len(market))
<1>1. /\ market \in Seq(Frame) /\ Len(market) \in Nat /\ market' = Append(market, bar)
      /\ Len(market) < ExecutionEnd
      /\ UNCHANGED <<cursor, snapshot, hash, draft, ledger, journal, requests, replies, marks>>
  BY DEF PaperInv, MarketInv, Printed, BarCloses, serverVars
<1>2. bar \in Frame BY <1>1, PaperAssumption, RunAssumption DEF At
<1>3. /\ market' \in Seq(Frame) /\ Len(market') = Len(market) + 1
      /\ market'[Len(market) + 1] = bar /\ \A i \in 1..Len(market) : market'[i] = market[i]
  BY <1>1, <1>2
<1>4. MarketInv'
  <2>1. ASSUME NEW i \in 1..Len(market') PROVE \E s \in Shapes : market'[i] = At(s, i - 1)
    <3>1. CASE i = Len(market) + 1
      <4>1. i - 1 = Len(market) BY <1>1, <3>1
      <4>. QED BY <1>3, <3>1, <4>1
    <3>2. CASE i # Len(market) + 1
      <4>1. i \in 1..Len(market) BY <1>1, <1>3, <3>2
      <4>. QED BY <1>3, <4>1 DEF PaperInv, MarketInv, Printed
    <3>. QED BY <3>1, <3>2
  <2>. QED BY <1>1, <1>3, <2>1, RunAssumption DEF MarketInv, Printed
<1> HIDE DEF bar
<1>5. ChainInv' BY <1>1, <1>3 DEF PaperInv, ChainInv
<1>6. DraftInv' /\ RequestsInv'
  BY <1>1 DEF PaperInv, DraftInv, RequestsInv, Anchored, Valid
<1>7. RepliesInv'
  <2>1. ASSUME NEW reply \in replies PROVE \E req \in requests : Answers(reply, req)'
    BY AnswersLast DEF PaperInv, RepliesInv
  <2>. QED BY <1>1, <2>1 DEF RepliesInv
<1>8. Sound(PaperState)'
  <2>1. market'[Len(market')] \in Frame BY <1>1, <1>2, <1>3
  <2>2. Sound(PaperState) BY DEF PaperInv
  <2>3. Sound(Evaluate(PaperState, market'[Len(market')])) BY <2>1, <2>2, EvaluateSound
  <2>4. Sound(PaperState') BY <2>2, <2>3, BarArrives
  <2>. QED BY <2>4
<1>. QED BY <1>4, <1>5, <1>6, <1>7, <1>8 DEF PaperInv

\* A step of the messages leaves the run where it is.
LEMMA SameRun ==
  ASSUME UNCHANGED <<market, serverVars>>
  PROVE  /\ PaperState' = PaperState /\ UNCHANGED <<cursor, snapshot, hash, ledger, journal, marks>>
         /\ (MarketInv => MarketInv') /\ (ChainInv => ChainInv')
         /\ Sound(PaperState) => Sound(PaperState)'
         /\ \A reply, req : Answers(reply, req) => Answers(reply, req)'
<1>1. /\ market' = market /\ UNCHANGED <<cursor, snapshot, hash, ledger, journal, marks>>
  BY DEF serverVars
<1>2. PaperState' = PaperState BY <1>1 DEF PaperState
<1>3. MarketInv => MarketInv' BY <1>1 DEF MarketInv, Printed
<1>4. ChainInv => ChainInv' BY <1>1 DEF ChainInv
<1>5. ASSUME NEW reply, NEW req, Answers(reply, req) PROVE Answers(reply, req)'
  BY <1>1, <1>5 DEF Answers, Valid, Reply, Restored, History
<1>6. ASSUME Sound(PaperState) PROVE Sound(PaperState)'
  <2>1. Sound(PaperState') BY <1>2, <1>6
  <2>. QED BY <2>1
<1>. QED BY <1>1, <1>2, <1>3, <1>4, <1>5, <1>6

LEMMA DispatchKeeps == ASSUME PaperInv, Dispatch PROVE PaperInv'
<1> DEFINE new == [bar_open_at |-> cursor, state |-> draft[1], prev_state_hash |-> hash]
<1>1. /\ UNCHANGED <<market, serverVars>> /\ replies' = replies /\ draft' = None
      /\ requests' = requests \cup {new} /\ draft # None
  BY DEF Dispatch
<1>2. cursor \in Nat /\ cursor >= ExecutionStart
  BY RunAssumption DEF PaperInv, ChainInv
<1>3. PICK s \in Snapshot \cup {None} : draft = <<s>> BY <1>1 DEF PaperInv, DraftInv
<1>4. new.bar_open_at = cursor /\ new.state = s /\ new.prev_state_hash = hash BY <1>3
<1> HIDE DEF new
<1>5. ASSUME Valid(new) PROVE new.state = None <=> new.bar_open_at = ExecutionStart
  <2>1. CASE s = None BY <1>4, <1>5, <2>1 DEF Valid
  <2>2. CASE s # None
    <3>1. hash = Sha(s) /\ s \in Snapshot BY <1>4, <1>5, <2>2 DEF Valid
    <3>2. hash \in [sha256 : Snapshot] BY <3>1 DEF Sha
    <3>3. hash # None BY <3>2, NullAssumption
    <3>4. snapshot # None BY <3>3 DEF PaperInv, ChainInv
    <3>5. cursor \in (ExecutionStart + 1)..Len(market) BY <3>4 DEF PaperInv, ChainInv
    <3>6. cursor # ExecutionStart BY <3>5, RunAssumption
    <3>. QED BY <1>4, <2>2, <3>6
  <2>. QED BY <2>1, <2>2
<1>6. Anchored(new) BY <1>2, <1>4, <1>5 DEF Anchored
<1>7. RequestsInv' BY <1>1, <1>6 DEF PaperInv, RequestsInv, Anchored, Valid
<1>8. RepliesInv'
  <2>1. ASSUME NEW reply \in replies PROVE \E req \in requests' : Answers(reply, req)'
    <3>1. PICK req \in requests : Answers(reply, req) BY DEF PaperInv, RepliesInv
    <3>2. Answers(reply, req)' BY <1>1, <3>1, SameRun
    <3>. QED BY <1>1, <3>2
  <2>. QED BY <1>1, <2>1 DEF RepliesInv
<1>. QED BY <1>1, <1>7, <1>8, SameRun DEF PaperInv, DraftInv

LEMMA ReadStateKeeps == ASSUME PaperInv, ReadState PROVE PaperInv'
<1>1. /\ UNCHANGED <<market, serverVars>> /\ replies' = replies /\ requests' = requests
      /\ draft' = <<snapshot>>
  BY DEF ReadState
<1>2. snapshot \in Snapshot \cup {None} BY DEF PaperInv, ChainInv
<1>3. DraftInv' BY <1>1, <1>2 DEF DraftInv
<1>4. RequestsInv' BY <1>1 DEF PaperInv, RequestsInv, Anchored, Valid
<1>5. RepliesInv'
  <2>1. ASSUME NEW reply \in replies PROVE \E req \in requests : Answers(reply, req)'
    <3>1. PICK req \in requests : Answers(reply, req) BY DEF PaperInv, RepliesInv
    <3>. QED BY <1>1, <3>1, SameRun
  <2>. QED BY <1>1, <2>1 DEF RepliesInv
<1>. QED BY <1>1, <1>3, <1>4, <1>5, SameRun DEF PaperInv

LEMMA HandleTickKeeps ==
  ASSUME PaperInv, NEW tick \in requests, HandleTick(tick) PROVE PaperInv'
<1>1. /\ UNCHANGED <<market, serverVars>> /\ draft' = draft /\ requests' = requests
      /\ replies' = replies \cup {Reply(tick)}
      /\ Valid(tick) /\ tick.bar_open_at < Len(market)
  BY DEF HandleTick
<1>2. Answers(Reply(tick), tick) BY <1>1 DEF Answers
<1>3. DraftInv' /\ RequestsInv'
  BY <1>1 DEF PaperInv, DraftInv, RequestsInv, Anchored, Valid
<1>4. RepliesInv'
  <2>1. ASSUME NEW reply \in replies' PROVE \E req \in requests : Answers(reply, req)'
    <3>1. PICK req \in requests : Answers(reply, req) BY <1>1, <1>2 DEF PaperInv, RepliesInv
    <3>. QED BY <1>1, <3>1, SameRun
  <2>. QED BY <1>1, <2>1 DEF RepliesInv
<1>. QED BY <1>1, <1>3, <1>4, SameRun DEF PaperInv

LEMMA CommitKeeps ==
  ASSUME PaperInv, NEW reply \in replies, Commit(reply) PROVE PaperInv'
<1>1. /\ market' = market /\ draft' = draft /\ requests' = requests /\ replies' = replies
      /\ cursor' = cursor + 1
  BY DEF Commit
<1>2. /\ cursor \in Nat /\ cursor < Len(market)
      /\ PaperState' = Evaluate(PaperState, market[cursor + 1])
      /\ snapshot' \in Snapshot /\ hash' = Sha(snapshot')
  BY CommitEvaluates
<1>3. MarketInv' BY <1>1 DEF PaperInv, MarketInv, Printed
<1>4. ChainInv'
  <2>1. snapshot' # None BY <1>2, NullAssumption
  <2>2. cursor >= ExecutionStart BY RunAssumption DEF PaperInv, ChainInv
  <2>3. cursor' \in (ExecutionStart + 1)..Len(market')
    BY <1>1, <1>2, <2>2, RunAssumption DEF PaperInv, MarketInv, Printed
  <2>. QED BY <1>2, <2>1, <2>3 DEF ChainInv
<1>5. DraftInv' /\ RequestsInv'
  BY <1>1 DEF PaperInv, DraftInv, RequestsInv, Anchored, Valid
<1>6. RepliesInv'
  <2>1. ASSUME NEW r, NEW req, Answers(r, req) PROVE Answers(r, req)'
    BY <1>1, <2>1 DEF Answers, Valid, Reply, Restored, History
  <2>. QED BY <1>1, <2>1 DEF PaperInv, RepliesInv
<1>7. Sound(PaperState)'
  <2>1. market[cursor + 1] \in Frame BY <1>2 DEF PaperInv, MarketInv, Printed
  <2>2. Sound(PaperState) BY DEF PaperInv
  <2>3. Sound(PaperState') BY <1>2, <2>1, <2>2, EvaluateSound
  <2>. QED BY <2>3
<1>. QED BY <1>3, <1>4, <1>5, <1>6, <1>7 DEF PaperInv

\* The Server and the Provider never disagree about the state of the run: its
\* snapshot and hash belong together, every request that passes the validator
\* asks for the bar its state is for, and every reply answers such a request
\* (_run_paper_tick, validate_paper_tick_request).
THEOREM PaperInvariance == Spec => []PaperInv
<1>1. PaperInv /\ [Next]_vars => PaperInv'
  <2> SUFFICES ASSUME PaperInv, [Next]_vars PROVE PaperInv' OBVIOUS
  <2>1. CASE \E shape \in Shapes : BarCloses(shape) BY <2>1, BarClosesKeeps
  <2>2. CASE ReadState BY <2>2, ReadStateKeeps
  <2>3. CASE Dispatch BY <2>3, DispatchKeeps
  <2>4. CASE \E req \in requests : HandleTick(req) BY <2>4, HandleTickKeeps
  <2>5. CASE \E reply \in replies : Commit(reply) BY <2>5, CommitKeeps
  <2>6. CASE UNCHANGED vars
    <3>1. UNCHANGED <<market, serverVars>> /\ draft' = draft /\ requests' = requests
          /\ replies' = replies
      BY <2>6 DEF vars, serverVars
    <3>2. DraftInv' /\ RequestsInv'
      BY <3>1 DEF PaperInv, DraftInv, RequestsInv, Anchored, Valid
    <3>3. RepliesInv'
      <4>1. ASSUME NEW reply \in replies PROVE \E req \in requests : Answers(reply, req)'
        <5>1. PICK req \in requests : Answers(reply, req) BY DEF PaperInv, RepliesInv
        <5>. QED BY <3>1, <5>1, SameRun
      <4>. QED BY <3>1, <4>1 DEF RepliesInv
    <3>. QED BY <3>1, <3>2, <3>3, SameRun DEF PaperInv
  <2>. QED BY <2>1, <2>2, <2>3, <2>4, <2>5, <2>6 DEF Next
<1>. QED BY <1>1, PaperInit, PTL DEF Spec

----------------------------------------------------------------------------
(***************************************************************************)
(* A repeated tick.                                                        *)
(***************************************************************************)
LEMMA ReplyDetermined ==
  ASSUME NEW r, NEW s, r.bar_open_at = s.bar_open_at, r.state = s.state,
         r.state # None => r.prev_state_hash = s.prev_state_hash
  PROVE  Reply(r) = Reply(s)
<1>1. Restored(r) = Restored(s) BY DEF Restored, History
<1>. QED BY <1>1 DEF Reply

\* A tick is idempotent: two replies for the same bar that continue the same
\* state are equal, whatever was retried, late, torn or repeated between them
\* (_run_paper_tick keeps nothing between two calls).
THEOREM RetriesAgree == Spec => []RepliesAgree
<1>1. PaperInv => RepliesAgree
  <2> SUFFICES ASSUME PaperInv, NEW a \in replies, NEW b \in replies,
                      a.bar_open_at = b.bar_open_at, a.prev_state_hash = b.prev_state_hash
               PROVE  a = b
    BY DEF RepliesAgree
  <2>1. PICK r \in requests : Answers(a, r) BY DEF PaperInv, RepliesInv
  <2>2. PICK s \in requests : Answers(b, s) BY DEF PaperInv, RepliesInv
  <2>3. /\ a = Reply(r) /\ b = Reply(s) /\ Valid(r) /\ Valid(s)
        /\ Anchored(r) /\ Anchored(s)
    BY <2>1, <2>2 DEF PaperInv, RequestsInv, Answers
  <2>4. /\ a.bar_open_at = r.bar_open_at /\ b.bar_open_at = s.bar_open_at
        /\ r.state # None => a.prev_state_hash = r.prev_state_hash
        /\ s.state # None => b.prev_state_hash = s.prev_state_hash
    BY <2>3 DEF Reply
  <2>5. r.state = None <=> s.state = None BY <2>3, <2>4 DEF Anchored
  <2>6. CASE r.state = None BY <2>3, <2>4, <2>5, <2>6, ReplyDetermined
  <2>7. CASE r.state # None
    <3>1. /\ r.prev_state_hash = Sha(r.state) /\ s.prev_state_hash = Sha(s.state)
          /\ r.prev_state_hash = s.prev_state_hash
      BY <2>3, <2>4, <2>5, <2>7 DEF Valid
    <3>2. r.state = s.state
      <4>1. Sha(r.state).sha256 = r.state /\ Sha(s.state).sha256 = s.state BY DEF Sha
      <4>. QED BY <3>1, <4>1
    <3>. QED BY <2>3, <2>4, <3>1, <3>2, ReplyDetermined
  <2>. QED BY <2>6, <2>7
<1>. QED BY <1>1, PaperInvariance, PTL

----------------------------------------------------------------------------
(***************************************************************************)
(* The refinement: each step of the paper run is a step of the replay of   *)
(* its bars or leaves it where it is.                                      *)
(***************************************************************************)
LEMMA PaperStartsAtRest == ASSUME Init PROVE PaperState = InitialState /\ marks = <<>>
<1>1. market = <<>> /\ snapshot = None /\ Len(market) = 0 BY DEF Init
<1>2. Seen = 0 BY <1>1, RunAssumption DEF Seen
<1>3. SubSeq(market, 1, Seen) = <<>> BY <1>1, <1>2
<1>4. Resume(snapshot, <<>>) = InitialState BY <1>1 DEF Resume, InitialState
<1>5. PaperState = [InitialState EXCEPT !.frames = <<>>, !.trades = <<>>,
                                        !.decisions = <<>>, !.diagnostics = <<>>]
  BY <1>3, <1>4, PaperStateIs DEF Init
<1>. QED BY <1>5 DEF InitialState, Init

\* One evaluated bar, as simulate() makes it.
Replays(frame) ==
  /\ Admissible(PaperState, frame)
  /\ PaperState' = Evaluate(PaperState, frame)
  /\ marks' = Marked(marks, PaperState', frame)

LEMMA EveryStepReplays ==
  ASSUME PaperInv, [Next]_vars
  PROVE  (\E frame \in Bars : Replays(frame)) \/ UNCHANGED <<PaperState, marks>>
<1>1. CASE \E shape \in Shapes : BarCloses(shape)
  <2>1. PICK shape \in Shapes : BarCloses(shape) BY <1>1
  <2> DEFINE frame == market'[Len(market')]
  <2>2. marks' = marks BY <2>1 DEF BarCloses, serverVars
  <2>3. PaperInv' BY <2>1, BarClosesKeeps
  <2>4. CASE PaperState' = PaperState BY <2>2, <2>4
  <2>5. CASE /\ PaperState' = Evaluate(PaperState, frame)
             /\ PaperState.frames = SubSeq(market', 1, Len(market))
             /\ PaperState'.position = <<>>
    <3>1. /\ Len(market) \in Nat /\ Len(market') = Len(market) + 1
          /\ Len(market') \in 1..Len(market')
      <4>1. market \in Seq(Frame) /\ market' = Append(market, At(shape, Len(market)))
        BY <2>1 DEF PaperInv, MarketInv, Printed, BarCloses
      <4>. QED BY <4>1
    <3>2. Printed(market') BY <2>3 DEF PaperInv, MarketInv
    <3>3. Admissible(PaperState, frame)
      <4>1. Admissible(PaperState, market'[Len(market) + 1])
        BY <2>5, <3>1, <3>2, NextBarAdmissible
      <4>. QED BY <3>1, <4>1
    <3>4. frame \in Bars BY <3>1, <3>2, BarsAreGiven
    <3>5. ~IsSome(PaperState'.position) BY <2>5 DEF IsSome
    <3>. QED BY <2>2, <2>5, <3>3, <3>4, <3>5 DEF Replays, Marked
  <2>. QED BY <2>1, <2>4, <2>5, BarArrives
<1>2. CASE \E reply \in replies : Commit(reply)
  <2>1. PICK reply \in replies : Commit(reply) BY <1>2
  <2>2. /\ cursor \in Nat /\ cursor < Len(market)
        /\ PaperState.frames = SubSeq(market, 1, cursor)
        /\ PaperState' = Evaluate(PaperState, market[cursor + 1])
        /\ marks' = Marked(marks, PaperState', market[cursor + 1])
    BY <2>1, CommitEvaluates
  <2>3. Printed(market) BY DEF PaperInv, MarketInv
  <2>4. Admissible(PaperState, market[cursor + 1]) BY <2>2, <2>3, NextBarAdmissible
  <2>5. market[cursor + 1] \in Bars
    <3>1. cursor + 1 \in 1..Len(market) BY <2>2, <2>3 DEF Printed
    <3>. QED BY <2>3, <3>1, BarsAreGiven
  <2>. QED BY <2>2, <2>4, <2>5 DEF Replays
<1>3. CASE \/ ReadState \/ Dispatch \/ UNCHANGED vars
           \/ \E req \in requests : HandleTick(req)
  <2>1. UNCHANGED <<market, serverVars>>
    BY <1>3 DEF ReadState, Dispatch, HandleTick, vars, serverVars
  <2>. QED BY <2>1, SameRun
<1>. QED BY <1>1, <1>2, <1>3 DEF Next

LEMMA ReplayStages ==
  ASSUME NEW st, NEW frame
  PROVE  /\ Replay!InitialState = InitialState /\ Replay!Frame = Frame
         /\ Replay!Admissible(st, frame) <=> Admissible(st, frame)
         /\ Replay!Evaluate(st, frame) = Evaluate(st, frame)
         /\ (IF Replay!IsSome(st.position) THEN Append(marks, Replay!MarkPoint(st, frame)) ELSE marks)
              = Marked(marks, st, frame)
<1>1. \A s, index : Replay!OpenPending(s, frame, index) = OpenPending(s, frame, index)
  BY DEF OpenPending, Replay!OpenPending, IsSome, Replay!IsSome, The, Replay!The,
         OrderRejected, Replay!OrderRejected, StopLoss, Replay!StopLoss, TakeProfit,
         Replay!TakeProfit, Quantize, Replay!Quantize, Sub, Replay!Sub, Abs, Replay!Abs,
         WrongSide, Replay!WrongSide, SizingRejected, Replay!SizingRejected, Quantity,
         Replay!Quantity, Bps, Replay!Bps, FloorToStep, Replay!FloorToStep,
         InstrumentOrMarginLimit, Replay!InstrumentOrMarginLimit
<1>2. \A s, index : Replay!TakeExit(s, frame, index) = TakeExit(s, frame, index)
  BY SMTT(20) DEF TakeExit, Replay!TakeExit, IsSome, Replay!IsSome, The, Replay!The, ExitDue,
         Replay!ExitDue, ExitPrice, Replay!ExitPrice, StopGapped, Replay!StopGapped,
         StopTouched, Replay!StopTouched, TakeGapped, Replay!TakeGapped, TakeTouched,
         Replay!TakeTouched, Close, Replay!Close, NetPnl, Replay!NetPnl, Bps, Replay!Bps,
         CloseAt, Replay!CloseAt
<1>3. /\ \A s, index : Replay!FlagSignalExit(s, index) = FlagSignalExit(s, index)
      /\ \A s, held : Replay!CountHeldBar(s, held) = CountHeldBar(s, held)
  BY DEF FlagSignalExit, Replay!FlagSignalExit, CountHeldBar, Replay!CountHeldBar, IsSome,
         Replay!IsSome, The, Replay!The, Holds, Replay!Holds
<1>4. \A s, index : Replay!SignalEntry(s, frame, index) = SignalEntry(s, frame, index)
  BY DEF SignalEntry, Replay!SignalEntry, IsSome, Replay!IsSome, Eligible, Replay!Eligible,
         Holds, Replay!Holds, StopValue, Replay!StopValue, TakeValue, Replay!TakeValue, Sub,
         Replay!Sub
<1>5. /\ Replay!InitialState = InitialState /\ Replay!Frame = Frame
      /\ Replay!Arrive(st, frame) = Arrive(st, frame)
      /\ Replay!Admissible(st, frame) <=> Admissible(st, frame)
      /\ Replay!IsSome(st.position) = IsSome(st.position)
  BY DEF InitialState, Replay!InitialState, Bps, Replay!Bps, Frame, Replay!Frame,
         Arrive, Replay!Arrive, Admissible, Replay!Admissible, CloseAt, Replay!CloseAt,
         IsSome, Replay!IsSome
<1>6. Replay!Evaluate(st, frame) = Evaluate(st, frame)
  BY <1>1, <1>2, <1>3, <1>4, <1>5 DEF Evaluate, Replay!Evaluate
<1>7. Replay!MarkPoint(st, frame) = MarkOf(st, frame)
  BY DEF MarkOf, Replay!MarkPoint, OpenLeg, Replay!Unrealized, CloseAt, Replay!CloseAt,
         The, Replay!The, Bps, Replay!Bps
<1>. QED BY <1>5, <1>6, <1>7 DEF Marked

\* The run ticked through snapshots, with every retry, duplicate, late reply and
\* torn read, takes only steps simulate() takes over the same bars: restoring a
\* snapshot and evaluating one bar is one pass of the replay's loop, logs, marks
\* and balances included (_run_paper_tick, KernelState.from_snapshot, to_snapshot).
THEOREM TicksReplay == Spec => ImplementsReplay
<1>1. Init => Replay!Init
  <2>1. ASSUME Init PROVE Replay!Init
    BY <2>1, PaperStartsAtRest, ReplayStages DEF Replay!Init
  <2>. QED BY <2>1
<1>2. PaperInv /\ [Next]_vars => [Replay!Next]_Replay!vars
  <2> SUFFICES ASSUME PaperInv, [Next]_vars PROVE [Replay!Next]_Replay!vars OBVIOUS
  <2>1. CASE UNCHANGED <<PaperState, marks>> BY <2>1 DEF Replay!vars
  <2>2. CASE \E frame \in Bars : Replays(frame)
    <3>1. PICK frame \in Bars : Replays(frame) BY <2>2
    <3>2. Replay!EvaluateFrame(frame)
      BY <3>1, ReplayStages DEF Replays, Replay!EvaluateFrame
    <3>. QED BY <3>1, <3>2 DEF Replay!Next, Bars
  <2>. QED BY <2>1, <2>2, EveryStepReplays
<1>. QED BY <1>1, <1>2, PaperInvariance, PTL DEF Spec, ImplementsReplay, Replay!Spec

----------------------------------------------------------------------------
\* The theorems of the replay, of the state the Server's books stand for.
Kernel == INSTANCE StrategyKernelProofs
            WITH Frames <- Bars, state <- PaperState, mtm <- marks, status <- "running"

LEMMA KernelStages ==
  ASSUME NEW st, NEW frame
  PROVE  /\ Kernel!InitialState = InitialState /\ Kernel!Frame = Frame
         /\ Kernel!Admissible(st, frame) <=> Admissible(st, frame)
         /\ Kernel!Evaluate(st, frame) = Evaluate(st, frame)
         /\ (IF Kernel!IsSome(st.position) THEN Append(marks, Kernel!MarkPoint(st, frame)) ELSE marks)
              = Marked(marks, st, frame)
<1>1. \A s, index : Kernel!OpenPending(s, frame, index) = OpenPending(s, frame, index)
  BY DEF OpenPending, Kernel!OpenPending, IsSome, Kernel!IsSome, The, Kernel!The,
         OrderRejected, Kernel!OrderRejected, StopLoss, Kernel!StopLoss, TakeProfit,
         Kernel!TakeProfit, Quantize, Kernel!Quantize, Sub, Kernel!Sub, Abs, Kernel!Abs,
         WrongSide, Kernel!WrongSide, SizingRejected, Kernel!SizingRejected, Quantity,
         Kernel!Quantity, Bps, Kernel!Bps, FloorToStep, Kernel!FloorToStep,
         InstrumentOrMarginLimit, Kernel!InstrumentOrMarginLimit
<1>2. \A s, index : Kernel!TakeExit(s, frame, index) = TakeExit(s, frame, index)
  BY SMTT(20) DEF TakeExit, Kernel!TakeExit, IsSome, Kernel!IsSome, The, Kernel!The, ExitDue,
         Kernel!ExitDue, ExitPrice, Kernel!ExitPrice, StopGapped, Kernel!StopGapped,
         StopTouched, Kernel!StopTouched, TakeGapped, Kernel!TakeGapped, TakeTouched,
         Kernel!TakeTouched, Close, Kernel!Close, NetPnl, Kernel!NetPnl, Bps, Kernel!Bps,
         CloseAt, Kernel!CloseAt
<1>3. /\ \A s, index : Kernel!FlagSignalExit(s, index) = FlagSignalExit(s, index)
      /\ \A s, held : Kernel!CountHeldBar(s, held) = CountHeldBar(s, held)
  BY DEF FlagSignalExit, Kernel!FlagSignalExit, CountHeldBar, Kernel!CountHeldBar, IsSome,
         Kernel!IsSome, The, Kernel!The, Holds, Kernel!Holds
<1>4. \A s, index : Kernel!SignalEntry(s, frame, index) = SignalEntry(s, frame, index)
  BY DEF SignalEntry, Kernel!SignalEntry, IsSome, Kernel!IsSome, Eligible, Kernel!Eligible,
         Holds, Kernel!Holds, StopValue, Kernel!StopValue, TakeValue, Kernel!TakeValue, Sub,
         Kernel!Sub
<1>5. /\ Kernel!InitialState = InitialState /\ Kernel!Frame = Frame
      /\ Kernel!Arrive(st, frame) = Arrive(st, frame)
      /\ Kernel!Admissible(st, frame) <=> Admissible(st, frame)
      /\ Kernel!IsSome(st.position) = IsSome(st.position)
  BY DEF InitialState, Kernel!InitialState, Bps, Kernel!Bps, Frame, Kernel!Frame,
         Arrive, Kernel!Arrive, Admissible, Kernel!Admissible, CloseAt, Kernel!CloseAt,
         IsSome, Kernel!IsSome
<1>6. Kernel!Evaluate(st, frame) = Evaluate(st, frame)
  BY <1>1, <1>2, <1>3, <1>4, <1>5 DEF Evaluate, Kernel!Evaluate
<1>7. Kernel!MarkPoint(st, frame) = MarkOf(st, frame)
  BY DEF MarkOf, Kernel!MarkPoint, OpenLeg, Kernel!Unrealized, CloseAt, Kernel!CloseAt,
         The, Kernel!The, Bps, Kernel!Bps
<1>. QED BY <1>5, <1>6, <1>7 DEF Marked

\* What is proved of the replay holds of the paper run after any schedule of
\* ticks: no order is filled before the bar after its signal, none is lost or
\* signalled within the cooldown, positions are left on the first bar that ends
\* them, the closed trades the Server collected are one ledger up to the balance
\* in its snapshot, and a position it holds is covered by that balance
\* (strategy_kernel.py, _run_paper_tick).
THEOREM TicksKeepTheBooks ==
  Spec => [](/\ Kernel!NextBarFill /\ Kernel!ExitsFollowTheBars
             /\ Kernel!TradesFormLedger /\ Kernel!MarginCovered
             /\ Kernel!OrdersAccounted /\ Kernel!CooldownRespected)
<1>1. Kernel!SpecAssumption
  BY SpecAssumption DEF Kernel!SpecAssumption, Conditions, Kernel!Conditions,
                        ExitKinds, Kernel!ExitKinds
<1>2. Kernel!RunAssumption BY RunAssumption DEF Kernel!RunAssumption
<1>3. Kernel!FramesAssumption
  BY PaperAssumption, RunAssumption DEF Kernel!FramesAssumption, Frame, Kernel!Frame, At, Bars
<1>4. Init => Kernel!Init
  <2>1. ASSUME Init PROVE Kernel!Init
    BY <2>1, PaperStartsAtRest, KernelStages DEF Kernel!Init
  <2>. QED BY <2>1
<1>5. PaperInv /\ [Next]_vars => [Kernel!Next]_Kernel!vars
  <2> SUFFICES ASSUME PaperInv, [Next]_vars PROVE [Kernel!Next]_Kernel!vars OBVIOUS
  <2>1. CASE UNCHANGED <<PaperState, marks>> BY <2>1 DEF Kernel!vars
  <2>2. CASE \E frame \in Bars : Replays(frame)
    <3>1. PICK frame \in Bars : Replays(frame) BY <2>2
    <3>2. Kernel!EvaluateFrame(frame)
      BY <3>1, KernelStages DEF Replays, Kernel!EvaluateFrame
    <3>. QED BY <3>1, <3>2 DEF Kernel!Next
  <2>. QED BY <2>1, <2>2, EveryStepReplays
<1>6. Spec => Kernel!Spec
  BY <1>4, <1>5, PaperInvariance, PTL DEF Spec, Kernel!Spec
<1>7. Kernel!OrdersReachTheCurve => Kernel!OrdersAccounted /\ Kernel!CooldownRespected
  BY DEF Kernel!OrdersReachTheCurve
<1>. QED BY <1>1, <1>2, <1>3, <1>6, <1>7, Kernel!NoLookAhead, Kernel!LeftOnTheFirstBar,
            Kernel!LedgerChains, Kernel!NeverOverMargin, Kernel!OrdersEndOnce, PTL

----------------------------------------------------------------------------
(***************************************************************************)
(* What the decoder asks of a snapshot.                                    *)
(***************************************************************************)
\* The rules of the strategy put no level at or below zero, whatever bar they
\* read, unless that level is on the wrong side of the fill.
LevelsArePositive ==
  \A seen \in Bars, next \in Bars :
    LET order == [signal_index |-> 1, stop_value |-> StopValue(seen), take_value |-> TakeValue(seen)]
        stop == StopLoss(order, next.open)
        take == TakeProfit(order, next.open, stop)
    IN ~WrongSide(next.open, stop, take) =>
         (stop # None => stop > 0) /\ (take # None => take > 0)

\* The pending order carries what its signal bar said, and the position has
\* levels the decoder takes.
Priced(pending) ==
  \E seen \in Bars : pending.stop_value = StopValue(seen) /\ pending.take_value = TakeValue(seen)
Fit(pos) ==
  /\ pos.qty > 0 /\ pos.entry_price > 0
  /\ pos.stop_loss # None => pos.stop_loss > 0
  /\ pos.take_profit # None => pos.take_profit > 0
LevelsFit(st) ==
  /\ IsSome(st.pending_entry) => Priced(The(st.pending_entry))
  /\ IsSome(st.position) => Fit(The(st.position))

\* A snapshot that the kernel's state was taken for.
Handed(snap) == \E st : Sound(st) /\ LevelsFit(st) /\ snap = ToSnapshot(st)

LevelsInv ==
  /\ snapshot = None \/ Handed(snapshot)
  /\ draft # None => draft[1] = None \/ Handed(draft[1])
  /\ \A req \in requests : req.state = None \/ Handed(req.state)
  /\ \A reply \in replies : Handed(reply.next_state)

LEMMA OpenedFits ==
  ASSUME LevelsArePositive, NEW st, Sound(st), LevelsFit(st), NEW frame \in Bars, frame \in Frame,
         NEW index \in Nat
  PROVE  LevelsFit(OpenPending(st, frame, index))
<1> DEFINE pending == The(st.pending_entry)
           price == frame.open
           stop == StopLoss(pending, price)
           take == TakeProfit(pending, price, stop)
           qty == Quantity(st.equity, price, stop)
           pos == [qty |-> qty, entry_price |-> price, opened_at |-> frame.open_at,
                   stop_loss |-> stop, take_profit |-> take, bars_held |-> 1,
                   pending_signal_exit |-> FALSE]
           open == OpenPending(st, frame, index)
<1>0. st \in KernelState BY DEF Sound
<1>1. CASE ~IsSome(st.pending_entry)
  <2>1. open = st BY <1>1 DEF OpenPending
  <2>. QED BY <2>1
<1>2. CASE IsSome(st.pending_entry) /\ OrderRejected(st.equity, price, stop, take)
  <2>1. open.pending_entry = <<>> /\ open.position = st.position
    BY <1>0, <1>2 DEF OpenPending, KernelState
  <2>. QED BY <2>1 DEF LevelsFit, IsSome
<1>3. CASE IsSome(st.pending_entry) /\ ~OrderRejected(st.equity, price, stop, take)
  <2>1. open.pending_entry = <<>> /\ open.position = <<pos>>
    BY <1>0, <1>3 DEF OpenPending, KernelState
  <2>2. PICK seen \in Bars : /\ pending.stop_value = StopValue(seen)
                             /\ pending.take_value = TakeValue(seen)
    BY <1>3 DEF LevelsFit, Priced
  <2> DEFINE order == [signal_index |-> 1, stop_value |-> StopValue(seen),
                       take_value |-> TakeValue(seen)]
  <2>3. StopLoss(order, price) = stop BY <2>2 DEF StopLoss
  <2>4. TakeProfit(order, price, stop) = take BY <2>2 DEF TakeProfit
  <2>5. ~WrongSide(price, stop, take) /\ ~InstrumentOrMarginLimit(st.equity, price, qty)
    BY <1>3 DEF OrderRejected
  <2>6. (stop # None => stop > 0) /\ (take # None => take > 0)
    <3> HIDE DEF stop, take, price
    <3>1. ~WrongSide(price, StopLoss(order, price), TakeProfit(order, price, StopLoss(order, price)))
      BY <2>3, <2>4, <2>5
    <3>2. /\ (StopLoss(order, price) # None => StopLoss(order, price) > 0)
          /\ (TakeProfit(order, price, StopLoss(order, price)) # None
                => TakeProfit(order, price, StopLoss(order, price)) > 0)
      BY <3>1 DEF LevelsArePositive, price
    <3>. QED BY <2>3, <2>4, <3>2
  <2>7. qty \in Int
    <3>1. pending \in Pending /\ Resolved(pending) /\ st.equity \in Int BY <1>3, SoundParts
    <3>2. price \in Nat \ {0} BY DEF Frame
    <3>3. stop \in Int \cup {None} BY <3>1, <3>2, StopLossType
    <3>. QED BY <2>5, <3>1, <3>2, <3>3, QuantityInt, StopLossType
  <2>8. qty > 0 BY <2>5, <2>7, RunAssumption DEF InstrumentOrMarginLimit
  <2>9. price > 0 BY DEF Frame
  <2> HIDE DEF stop, take, qty, price
  <2>10. Fit(pos) BY <2>6, <2>8, <2>9 DEF Fit
  <2> HIDE DEF pos, open
  <2>11. The(open.position) = pos /\ ~IsSome(open.pending_entry) BY <2>1 DEF The, IsSome
  <2>. QED BY <2>10, <2>11 DEF LevelsFit, open
<1>. QED BY <1>1, <1>2, <1>3

\* A bar held, and the flag of a signal exit, leave the levels alone.
LEMMA RepositionFits ==
  ASSUME NEW st, Sound(st), LevelsFit(st), IsSome(st.position), NEW pos \in Position,
         pos.qty = The(st.position).qty, pos.entry_price = The(st.position).entry_price,
         pos.stop_loss = The(st.position).stop_loss,
         pos.take_profit = The(st.position).take_profit
  PROVE  LevelsFit([st EXCEPT !.position = <<pos>>])
<1> DEFINE new == [st EXCEPT !.position = <<pos>>]
<1>1. new.position = <<pos>> /\ new.pending_entry = st.pending_entry BY DEF Sound, KernelState
<1>2. Fit(pos) BY DEF LevelsFit, Fit
<1> HIDE DEF new
<1>3. The(new.position) = pos BY <1>1 DEF The
<1>4. LevelsFit(new) BY <1>1, <1>2, <1>3 DEF LevelsFit
<1>. QED BY <1>4 DEF new

LEMMA EvaluateFits ==
  ASSUME LevelsArePositive, NEW st, Sound(st), LevelsFit(st), NEW frame \in Bars, frame \in Frame
  PROVE  LevelsFit(Evaluate(st, frame))
<1> DEFINE index == Len(st.frames) + 1
           arrived == Arrive(st, frame)
           opened == OpenPending(arrived, frame, index)
           counted == CountHeldBar(opened, IsSome(st.position))
           exited == TakeExit(counted, frame, index)
           flagged == FlagSignalExit(exited, index)
           signalled == SignalEntry(flagged, frame, index)
<1>0. Len(st.frames) \in Nat /\ index \in Nat BY LenNat, SoundParts
<1>a. IsSome(st.position) \in BOOLEAN BY DEF IsSome
<1> HIDE DEF index
<1>1. Sound(arrived) /\ LevelsFit(arrived)
  <2>1. /\ arrived.position = st.position /\ arrived.pending_entry = st.pending_entry
    BY DEF Sound, KernelState, Arrive
  <2>. QED BY <2>1, ArriveSound DEF LevelsFit
<1> HIDE DEF arrived
<1>2. Sound(opened) /\ LevelsFit(opened) BY <1>0, <1>1, OpenPendingSound, OpenedFits
<1> HIDE DEF opened
<1>3. Sound(counted) /\ LevelsFit(counted)
  <2>1. Sound(counted) BY <1>a, <1>2, CountHeldBarSound
  <2>2. CASE ~(IsSome(st.position) /\ IsSome(opened.position)) BY <1>2, <2>1, <2>2 DEF CountHeldBar
  <2>3. CASE IsSome(st.position) /\ IsSome(opened.position)
    <3> DEFINE pos == [The(opened.position) EXCEPT !.bars_held = @ + 1]
    <3>1. The(opened.position) \in Position BY <1>2, <2>3, SoundParts
    <3>2. /\ pos \in Position
          /\ pos.qty = The(opened.position).qty
          /\ pos.entry_price = The(opened.position).entry_price
          /\ pos.stop_loss = The(opened.position).stop_loss
          /\ pos.take_profit = The(opened.position).take_profit
      BY <3>1 DEF Position
    <3>3. counted = [opened EXCEPT !.position = <<pos>>] BY <2>3 DEF CountHeldBar
    <3> HIDE DEF pos, counted
    <3>4. LevelsFit([opened EXCEPT !.position = <<pos>>])
      BY <1>2, <2>3, <3>2, RepositionFits
    <3>. QED BY <2>1, <3>3, <3>4
  <2>. QED BY <2>2, <2>3
<1> HIDE DEF counted
<1>4. Sound(exited) /\ LevelsFit(exited)
  <2>1. Sound(exited) BY <1>0, <1>3, TakeExitSound
  <2>2. CASE exited = counted BY <1>3, <2>1, <2>2
  <2>3. CASE exited # counted
    <3>1. PICK kind, price : exited = Close(counted, frame, index, kind, price)
      BY <2>3 DEF TakeExit
    <3>2. exited.position = <<>> /\ exited.pending_entry = counted.pending_entry
      BY <1>3, <3>1 DEF Close, Sound, KernelState
    <3>. QED BY <1>3, <2>1, <3>2 DEF LevelsFit, IsSome
  <2>. QED BY <2>2, <2>3
<1> HIDE DEF exited
<1>5. Sound(flagged) /\ LevelsFit(flagged)
  <2>1. Sound(flagged) BY <1>4, FlagSignalExitSound
  <2>2. CASE ~IsSome(exited.position) BY <1>4, <2>1, <2>2 DEF FlagSignalExit
  <2>3. CASE IsSome(exited.position)
    <3> DEFINE flag == Holds(SignalExit, exited.frames, index)
               pos == [The(exited.position) EXCEPT !.pending_signal_exit = flag]
    <3>0. flag \in BOOLEAN BY HoldsBoolean
    <3>1. The(exited.position) \in Position BY <1>4, <2>3, SoundParts
    <3>3. flagged = [exited EXCEPT !.position = <<pos>>] BY <2>3 DEF FlagSignalExit
    <3> HIDE DEF flag
    <3>2. /\ pos \in Position
          /\ pos.qty = The(exited.position).qty
          /\ pos.entry_price = The(exited.position).entry_price
          /\ pos.stop_loss = The(exited.position).stop_loss
          /\ pos.take_profit = The(exited.position).take_profit
      BY <3>0, <3>1 DEF Position
    <3> HIDE DEF pos, flagged
    <3>4. LevelsFit([exited EXCEPT !.position = <<pos>>])
      BY <1>4, <2>3, <3>2, RepositionFits
    <3>. QED BY <2>1, <3>3, <3>4
  <2>. QED BY <2>2, <2>3
<1> HIDE DEF flagged
<1>6. LevelsFit(signalled)
  <2> DEFINE order == [signal_index |-> index, stop_value |-> StopValue(frame),
                       take_value |-> TakeValue(frame)]
  <2>1. CASE signalled = flagged BY <1>5, <2>1
  <2>2. CASE signalled # flagged
    <3>1. signalled.pending_entry = <<order>> /\ signalled.position = flagged.position
      BY <1>5, <2>2 DEF SignalEntry, Sound, KernelState
    <3>2. Priced(order) BY DEF Priced
    <3> HIDE DEF order, signalled
    <3>3. The(signalled.pending_entry) = order BY <3>1 DEF The
    <3>. QED BY <1>5, <3>1, <3>2, <3>3 DEF LevelsFit
  <2>. QED BY <2>1, <2>2
<1>. QED BY <1>1, <1>6 DEF Evaluate, index, arrived, opened, counted, exited, flagged, signalled

LEMMA HandedDecodes ==
  ASSUME NEW snap, Handed(snap)
  PROVE  /\ Decodable(snap)
         /\ \A h \in Seq(Frame) : Sound(FromSnapshot(snap, h)) /\ LevelsFit(FromSnapshot(snap, h))
<1>1. PICK st : Sound(st) /\ LevelsFit(st) /\ snap = ToSnapshot(st) BY DEF Handed
<1>2. /\ snap \in Snapshot /\ snap.pending_entry = st.pending_entry
      /\ snap.equity = st.equity
      /\ snap.last_exit_index = st.last_exit_index /\ snap.trade_seq = st.trade_seq
      /\ IsSome(snap.position) = IsSome(st.position)
      /\ \A h : FromSnapshot(snap, h).position = st.position
  BY <1>1, SnapshotRestores
<1>3. Decodable(snap)
  <2> SUFFICES ASSUME IsSome(snap.position)
               PROVE  LET pos == The(snap.position)
                      IN /\ pos.qty > 0 /\ pos.entry_price > 0 /\ pos.opened_at % 1000 = 0
                         /\ pos.stop_loss # None => pos.stop_loss > 0
                         /\ pos.take_profit # None => pos.take_profit > 0
    BY DEF Decodable
  <2> DEFINE pos == The(st.position)
             wire == [pos EXCEPT !.opened_at = @ * 1000]
  <2>1. IsSome(st.position) BY <1>2
  <2>2. pos \in Position /\ Fit(pos) BY <1>1, <2>1, SoundParts DEF LevelsFit
  <2>3. snap.position = <<wire>>
    <3>1. snap.position = << [st.position[1] EXCEPT !.opened_at = @ * 1000] >>
      BY <1>1, <2>1 DEF ToSnapshot
    <3>. QED BY <3>1 DEF The
  <2> HIDE DEF pos
  <2>4. /\ wire.qty = pos.qty /\ wire.entry_price = pos.entry_price
        /\ wire.stop_loss = pos.stop_loss /\ wire.take_profit = pos.take_profit
        /\ wire.opened_at = pos.opened_at * 1000 /\ pos.opened_at \in Nat
    BY <2>2 DEF Position
  <2> HIDE DEF wire
  <2>5. (pos.opened_at * 1000) % 1000 = 0 BY <2>4
  <2>6. The(snap.position) = wire BY <2>3 DEF The
  <2>. QED BY <2>2, <2>4, <2>5, <2>6 DEF Fit
<1>4. ASSUME NEW h \in Seq(Frame)
      PROVE  Sound(FromSnapshot(snap, h)) /\ LevelsFit(FromSnapshot(snap, h))
  <2> DEFINE back == FromSnapshot(snap, h)
  <2>1. snap # None BY <1>2, NullAssumption
  <2>2. back = [equity |-> st.equity, frames |-> h, pending_entry |-> st.pending_entry,
                position |-> st.position, last_exit_index |-> st.last_exit_index,
                trade_seq |-> st.trade_seq, trades |-> <<>>, decisions |-> <<>>,
                diagnostics |-> <<>>]
    <3>1. back = Resume(snap, h) /\ Resume(snap, <<>>) = FromSnapshot(snap, <<>>)
      BY <2>1 DEF Resume
    <3> HIDE DEF back
    <3>2. Resume(snap, <<>>).position = st.position BY <1>2, <3>1
    <3>. QED BY <1>2, <2>1, <3>1, <3>2, ResumeFields
  <2> HIDE DEF back
  <2>3. /\ st.equity \in Int /\ st.pending_entry \in Seq(Pending) /\ st.position \in Seq(Position)
        /\ st.last_exit_index \in Nat /\ st.trade_seq \in Nat
    BY <1>1, SoundParts
  <2>4. \A S : <<>> \in Seq(S) OBVIOUS
  <2>5. back \in KernelState BY <2>2, <2>3, <2>4 DEF KernelState
  <2>6. back.pending_entry = st.pending_entry /\ back.position = st.position BY <2>2
  <2>7. Sound(back) BY <1>1, <2>5, <2>6 DEF Sound
  <2>8. LevelsFit(back) BY <1>1, <2>6 DEF LevelsFit
  <2>. QED BY <2>7, <2>8 DEF back
<1>. QED BY <1>3, <1>4

\* The answer to a tick carries a snapshot taken from a sound state.
LEMMA ReplyIsHanded ==
  ASSUME LevelsArePositive, PaperInv, NEW req \in requests, req.bar_open_at < Len(market),
         req.state = None \/ Handed(req.state)
  PROVE  Handed(Reply(req).next_state)
<1> DEFINE n == req.bar_open_at
           before == Restored(req)
           frame == market[n + 1]
<1>1. Printed(market) /\ market \in Seq(Frame) /\ Len(market) \in Nat /\ n \in Nat
  BY DEF PaperInv, MarketInv, Printed, RequestsInv, Anchored
<1>2. n + 1 \in 1..Len(market) BY <1>1
<1>3. frame \in Bars /\ frame \in Frame
  <2> DEFINE i == n + 1
  <2>1. i \in 1..Len(market) BY <1>2
  <2> HIDE DEF i
  <2>2. market[i] \in Bars /\ market[i] \in Frame BY <1>1, <2>1, BarsAreGiven, BarsAreFrames
  <2>. QED BY <2>2 DEF i
<1>4. History(req) \in Seq(Frame) BY <1>1, <1>2 DEF History
<1>5. Sound(before) /\ LevelsFit(before)
  <2>1. CASE req.state = None
    <3>1. before = [InitialState EXCEPT !.frames = History(req)] BY <2>1 DEF Restored
    <3>2. InitialState \in KernelState BY InitialSound DEF Sound
    <3> HIDE DEF before
    <3>3. /\ before \in KernelState
          /\ before.pending_entry = <<>> /\ before.position = <<>>
      BY <1>4, <3>1, <3>2 DEF KernelState, InitialState
    <3>4. Len(<<>>) = 0 OBVIOUS
    <3>. QED BY <3>3, <3>4 DEF Sound, LevelsFit, IsSome
  <2>2. CASE req.state # None
    <3>1. before = FromSnapshot(req.state, History(req)) BY <2>2 DEF Restored
    <3> HIDE DEF before
    <3>. QED BY <1>4, <2>2, <3>1, HandedDecodes
  <2>. QED BY <2>1, <2>2
<1> HIDE DEF before, frame
<1>6. Sound(Evaluate(before, frame)) /\ LevelsFit(Evaluate(before, frame))
  BY <1>3, <1>5, EvaluateSound, EvaluateFits
<1>7. Reply(req).next_state = ToSnapshot(Evaluate(before, frame)) BY DEF Reply, before, frame
<1>. QED BY <1>6, <1>7 DEF Handed

\* A strategy whose levels stay above zero is never refused its own snapshot: every
\* state a tick returns is one the next tick can decode, whatever was retried or torn
\* on the way (KernelState.from_snapshot, _run_paper_tick).
THEOREM EverySnapshotRestores ==
  ASSUME LevelsArePositive PROVE Spec => []SnapshotsRestore
<1>1. Init => LevelsInv BY DEF Init, LevelsInv
<1>2. PaperInv /\ LevelsInv /\ [Next]_vars => LevelsInv'
  <2> SUFFICES ASSUME PaperInv, LevelsInv, [Next]_vars PROVE LevelsInv' OBVIOUS
  <2>1. CASE \E shape \in Shapes : BarCloses(shape)
    BY <2>1 DEF LevelsInv, BarCloses, serverVars
  <2>2. CASE ReadState
    <3>1. /\ UNCHANGED <<snapshot, requests, replies>> /\ draft' = <<snapshot>>
      BY <2>2 DEF ReadState, serverVars
    <3>2. draft'[1] = snapshot BY <3>1
    <3>. QED BY <3>1, <3>2 DEF LevelsInv
  <2>3. CASE Dispatch
    <3> DEFINE new == [bar_open_at |-> cursor, state |-> draft[1], prev_state_hash |-> hash]
    <3>1. /\ UNCHANGED <<snapshot, replies>> /\ draft' = None /\ draft # None
          /\ requests' = requests \cup {new}
      BY <2>3 DEF Dispatch, serverVars
    <3>2. new.state = draft[1] OBVIOUS
    <3> HIDE DEF new
    <3>. QED BY <3>1, <3>2 DEF LevelsInv
  <2>4. CASE \E req \in requests : HandleTick(req)
    <3>1. PICK req \in requests : HandleTick(req) BY <2>4
    <3>2. /\ UNCHANGED <<snapshot, draft, requests>> /\ replies' = replies \cup {Reply(req)}
          /\ req.bar_open_at < Len(market)
      BY <3>1 DEF HandleTick, serverVars
    <3>3. Handed(Reply(req).next_state) BY <3>2, ReplyIsHanded DEF LevelsInv
    <3>. QED BY <3>2, <3>3 DEF LevelsInv
  <2>5. CASE \E reply \in replies : Commit(reply)
    BY <2>5 DEF LevelsInv, Commit
  <2>6. CASE UNCHANGED vars BY <2>6 DEF LevelsInv, vars
  <2>. QED BY <2>1, <2>2, <2>3, <2>4, <2>5, <2>6 DEF Next
<1>3. LevelsInv => SnapshotsRestore BY HandedDecodes DEF LevelsInv, SnapshotsRestore
<1>. QED BY <1>1, <1>2, <1>3, PaperInvariance, PTL DEF Spec
=============================================================================
