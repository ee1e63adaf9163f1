----------------------- MODULE StrategyKernelProofs -----------------------
(***************************************************************************)
(* Theorems of StrategyKernel for every strategy, market and window.       *)
(***************************************************************************)
EXTENDS StrategyKernel, KernelStepsProofs, FiniteSetTheorems

----------------------------------------------------------------------------
(***************************************************************************)
(* The inductive invariant.  Beside the types it says what must hold of    *)
(* the books between any two stages: the open position is covered, the     *)
(* trades chain up to the equity and do not overlap, every entry is the    *)
(* open of the bar after a signal, and the order in waiting was signalled  *)
(* on the last bar.  A trade closes no later than "now".                   *)
(***************************************************************************)
Covered(st) ==
  IsSome(st.position) =>
    The(st.position).qty * The(st.position).entry_price * Bps <= st.equity * Leverage

Chained(st, k) ==
  /\ st.trades[k].seq = k
  /\ st.trades[k].opened_at <= st.trades[k].closed_at
  /\ st.trades[k].equity_after = Prefix(st.trades, k - 1) + st.trades[k].pnl
  /\ k > 1 => st.trades[k - 1].closed_at <= st.trades[k].opened_at

Ledger(st) ==
  /\ st.trade_seq = Len(st.trades)
  /\ st.equity = Prefix(st.trades, Len(st.trades))
  /\ \A k \in DOMAIN st.trades : Chained(st, k)

Timed(st, now) ==
  /\ \A k \in DOMAIN st.trades : st.trades[k].closed_at <= now
  /\ IsSome(st.position) =>
       /\ The(st.position).opened_at <= now
       /\ \A k \in DOMAIN st.trades : st.trades[k].closed_at <= The(st.position).opened_at

Filled(e, fs) ==
  \E j \in 2..Len(fs) :
    /\ fs[j].open_at = e.opened_at /\ fs[j].open = e.entry_price
    /\ fs[j - 1].open_at >= ExecutionStart
    /\ Holds(EntryCondition, fs, j - 1)

FillsReal(st) ==
  /\ IsSome(st.position) => Filled(The(st.position), st.frames)
  /\ \A k \in DOMAIN st.trades : Filled(st.trades[k], st.frames)

SignalledOn(st, j) ==
  IsSome(st.pending_entry) =>
    /\ j \in 1..Len(st.frames)
    /\ st.frames[j].open_at >= ExecutionStart
    /\ Holds(EntryCondition, st.frames, j)

Kept(st, now) == Covered(st) /\ Ledger(st) /\ Timed(st, now) /\ FillsReal(st)

LastClose(st) == CloseAt(st.frames[Len(st.frames)])

AtRest(st) ==
  /\ st.frames = <<>> => st = InitialState
  /\ st.frames # <<>> => Kept(st, LastClose(st)) /\ SignalledOn(st, Len(st.frames))

IInv ==
  /\ Sound(state) /\ AtRest(state)
  /\ mtm \in Seq(Mark)
  /\ status \in {"running", "failed", "done"}

\* A stage that changes neither the books nor what was filled keeps them.
SameBooks(a, b) ==
  /\ b.frames = a.frames /\ b.equity = a.equity
  /\ b.trade_seq = a.trade_seq /\ b.trades = a.trades

SameFill(a, b) ==
  /\ IsSome(b.position) = IsSome(a.position)
  /\ IsSome(a.position) =>
       /\ The(b.position).qty = The(a.position).qty
       /\ The(b.position).entry_price = The(a.position).entry_price
       /\ The(b.position).opened_at = The(a.position).opened_at

LEMMA SameKept ==
  ASSUME NEW a, NEW b, NEW now, SameBooks(a, b), SameFill(a, b), Kept(a, now)
  PROVE  Kept(b, now)
<1>1. Covered(b) BY DEF Covered, Kept, SameBooks, SameFill
<1>2. Ledger(b)
  <2>1. b.trades = a.trades /\ b.equity = a.equity /\ b.trade_seq = a.trade_seq
    BY DEF SameBooks
  <2>2. \A k : Chained(a, k) => Chained(b, k) BY <2>1 DEF Chained
  <2>. QED BY <2>1, <2>2 DEF Ledger, Kept
<1>3. Timed(b, now) BY DEF Timed, Kept, SameBooks, SameFill
<1>4. FillsReal(b) BY DEF FillsReal, Filled, Kept, SameBooks, SameFill
<1>. QED BY <1>1, <1>2, <1>3, <1>4 DEF Kept

\* A condition on a bar does not depend on later bars.
LEMMA HoldsOfPrefix ==
  ASSUME NEW fs \in Seq(Frame), NEW f \in Frame, NEW c, NEW i \in 1..Len(fs)
  PROVE  Holds(c, Append(fs, f), i) = Holds(c, fs, i)
<1>1. Append(fs, f)[i] = fs[i] OBVIOUS
<1>2. i > 1 => Append(fs, f)[i - 1] = fs[i - 1] OBVIOUS
<1>. QED BY <1>1, <1>2 DEF Holds

LEMMA FilledOfPrefix ==
  ASSUME NEW fs \in Seq(Frame), NEW f \in Frame, NEW e, Filled(e, fs)
  PROVE  Filled(e, Append(fs, f))
<1>1. PICK j \in 2..Len(fs) :
        /\ fs[j].open_at = e.opened_at /\ fs[j].open = e.entry_price
        /\ fs[j - 1].open_at >= ExecutionStart
        /\ Holds(EntryCondition, fs, j - 1)
  BY DEF Filled
<1> DEFINE gs == Append(fs, f)
<1>2. /\ Len(gs) = Len(fs) + 1 /\ Len(fs) \in Nat
      /\ j \in 2..Len(gs) /\ j - 1 \in 1..Len(fs) /\ gs[j] = fs[j] /\ gs[j - 1] = fs[j - 1]
  BY <1>1
<1>3. Holds(EntryCondition, gs, j - 1) BY <1>1, <1>2, HoldsOfPrefix
<1> HIDE DEF gs
<1>4. Filled(e, gs) BY <1>1, <1>2, <1>3 DEF Filled
<1>. QED BY <1>4 DEF gs

----------------------------------------------------------------------------
\* Each stage keeps the books.  Before the first bar there is nothing to keep.
LEMMA InitialKept == Sound(InitialState) /\ \A now \in Nat : Kept(InitialState, now)
<1> DEFINE st == InitialState
<1>1. /\ st.position = <<>> /\ st.pending_entry = <<>> /\ st.trades = <<>> /\ st.trade_seq = 0
      /\ st.equity = InitialCapital * Bps /\ st.frames = <<>>
  BY DEF InitialState
<1>2. InitialCapital * Bps \in Int BY RunAssumption DEF Bps
<1>3. st \in KernelState BY <1>2 DEF InitialState, KernelState
<1> HIDE DEF st
<1>4. Sound(st) BY <1>1, <1>3 DEF Sound
<1>5. Covered(st) BY <1>1 DEF Covered, IsSome
<1>6. Ledger(st) BY <1>1 DEF Ledger, Prefix
<1>7. FillsReal(st) BY <1>1 DEF FillsReal, IsSome
<1>8. \A now \in Nat : Timed(st, now) BY <1>1 DEF Timed, IsSome
<1>. QED BY <1>4, <1>5, <1>6, <1>7, <1>8 DEF Kept, st

LEMMA ArriveKeeps ==
  ASSUME NEW st, Sound(st), AtRest(st), NEW frame \in Frame, Admissible(st, frame)
  PROVE  /\ Kept(Arrive(st, frame), frame.open_at)
         /\ SignalledOn(Arrive(st, frame), Len(st.frames))
         /\ IsSome(st.pending_entry) => frame.open_at >= ExecutionStart
<1> DEFINE new == Arrive(st, frame)
           n == Len(st.frames)
<1>0. frame.open_at \in Nat /\ ExecutionStart \in Int BY RunAssumption DEF Frame
<1>1. st.frames \in Seq(Frame) /\ n \in Nat BY SoundParts, LenNat
<1>2. /\ new.frames = Append(st.frames, frame) /\ new.equity = st.equity
      /\ new.trade_seq = st.trade_seq /\ new.trades = st.trades
      /\ new.position = st.position /\ new.pending_entry = st.pending_entry
  BY DEF Arrive, Sound, KernelState
<1>3. CASE st.frames = <<>>
  <2>1. st = InitialState BY <1>3 DEF AtRest
  <2>2. st.position = <<>> /\ st.pending_entry = <<>> /\ st.trades = <<>>
    BY <2>1 DEF InitialState
  <2>3. Kept(st, frame.open_at) BY <1>0, <2>1, InitialKept
  <2>4. ~IsSome(st.position) /\ ~IsSome(st.pending_entry) BY <2>2 DEF IsSome
  <2> HIDE DEF new
  <2>5. Covered(new) BY <1>2, <2>4 DEF Covered
  <2>6. Ledger(new) BY <1>2, <2>3 DEF Kept, Ledger, Chained
  <2>7. Timed(new, frame.open_at) BY <1>2, <2>2, <2>4 DEF Timed
  <2>8. FillsReal(new) BY <1>2, <2>2, <2>4 DEF FillsReal
  <2>. QED BY <1>2, <2>4, <2>5, <2>6, <2>7, <2>8 DEF Kept, SignalledOn, new
<1>4. CASE st.frames # <<>>
  <2>1. n \in 1..n /\ n # 0 BY <1>1, <1>4, EmptySeq
  <2>2. st.frames[n] \in Frame BY <1>1, <2>1
  <2>3. st.frames[n].open_at \in Nat BY <2>2 DEF Frame
  <2>4. st.frames[n].open_at < frame.open_at BY <1>4 DEF Admissible
  <2>5. LastClose(st) \in Nat /\ LastClose(st) <= frame.open_at
    BY <1>0, <2>3, <2>4 DEF LastClose, CloseAt
  <2>6. Kept(st, LastClose(st)) /\ SignalledOn(st, n) BY <1>4 DEF AtRest
  <2> HIDE DEF new, n
  <2>7. Covered(new) BY <1>2, <2>6 DEF Covered, Kept
  <2>8. Ledger(new) BY <1>2, <2>6 DEF Kept, Ledger, Chained
  <2>9. Timed(new, frame.open_at)
    <3>1. ASSUME NEW k \in DOMAIN st.trades PROVE st.trades[k].closed_at <= frame.open_at
      <4>1. st.trades[k] \in Trade BY <3>1, SoundParts
      <4>2. st.trades[k].closed_at \in Nat BY <4>1 DEF Trade
      <4>3. st.trades[k].closed_at <= LastClose(st) BY <2>6, <3>1 DEF Kept, Timed
      <4>. QED BY <1>0, <2>5, <4>2, <4>3
    <3>2. ASSUME IsSome(st.position) PROVE The(st.position).opened_at <= frame.open_at
      <4>1. The(st.position).opened_at \in Nat BY <3>2, SoundParts DEF Position
      <4>2. The(st.position).opened_at <= LastClose(st) BY <2>6, <3>2 DEF Kept, Timed
      <4>. QED BY <1>0, <2>5, <4>1, <4>2
    <3>. QED BY <1>2, <2>6, <3>1, <3>2 DEF Kept, Timed
  <2>10. FillsReal(new)
    <3>1. \A e : Filled(e, st.frames) => Filled(e, Append(st.frames, frame))
      BY <1>1, FilledOfPrefix
    <3>. QED BY <1>2, <2>6, <3>1 DEF Kept, FillsReal
  <2>11. ASSUME IsSome(st.pending_entry)
         PROVE  /\ n \in 1..Len(new.frames) /\ new.frames[n].open_at >= ExecutionStart
                /\ Holds(EntryCondition, new.frames, n)
                /\ frame.open_at >= ExecutionStart
    <3>1. st.frames[n].open_at >= ExecutionStart /\ Holds(EntryCondition, st.frames, n)
      BY <2>6, <2>11 DEF SignalledOn
    <3>2. n \in 1..Len(st.frames) BY <2>1 DEF n
    <3>3. new.frames[n] = st.frames[n] /\ n \in 1..Len(new.frames) BY <1>1, <1>2, <3>2
    <3>4. Holds(EntryCondition, new.frames, n) BY <1>1, <1>2, <3>1, <3>2, HoldsOfPrefix
    <3>. QED BY <1>0, <2>3, <2>4, <3>1, <3>3, <3>4
  <2>12. SignalledOn(new, n) BY <1>2, <2>11 DEF SignalledOn
  <2>. QED BY <2>7, <2>8, <2>9, <2>10, <2>11, <2>12 DEF Kept, new, n
<1>. QED BY <1>3, <1>4

\* The order is filled at the open of the bar after its signal, and only if its
\* margin is covered; either way nothing stays pending.
LEMMA OpenPendingKeeps ==
  ASSUME NEW st, Sound(st), NEW frame \in Frame, NEW index \in Nat,
         Kept(st, frame.open_at), Len(st.frames) = index, index >= 1,
         st.frames[index] = frame, SignalledOn(st, index - 1)
  PROVE  LET new == OpenPending(st, frame, index)
         IN /\ Kept(new, frame.open_at)
            /\ new.frames = st.frames /\ ~IsSome(new.pending_entry)
<1> DEFINE pending == The(st.pending_entry)
           price == frame.open
           stop == StopLoss(pending, price)
           take == TakeProfit(pending, price, stop)
           new == OpenPending(st, frame, index)
<1>0. st \in KernelState /\ frame.open_at \in Nat BY DEF Sound, Frame
<1>1. CASE ~IsSome(st.pending_entry)
  <2>1. new = st BY <1>1 DEF OpenPending
  <2>. QED BY <1>1, <2>1
<1>2. CASE IsSome(st.pending_entry) /\ OrderRejected(st.equity, price, stop, take)
  <2> DEFINE notes == Append(st.diagnostics, [frame_index |-> index, kind |-> "order_rejected"])
  <2>1. new = [st EXCEPT !.pending_entry = <<>>, !.diagnostics = notes]
    BY <1>2 DEF OpenPending
  <2> HIDE DEF new, notes
  <2>2. new.position = st.position /\ new.pending_entry = <<>> /\ SameBooks(st, new)
    BY <1>0, <2>1 DEF KernelState, SameBooks
  <2>3. SameFill(st, new) BY <2>2 DEF SameFill
  <2>4. Kept(new, frame.open_at) BY <2>2, <2>3, SameKept
  <2>. QED BY <2>2, <2>4 DEF SameBooks, IsSome, new
<1>3. CASE IsSome(st.pending_entry) /\ ~OrderRejected(st.equity, price, stop, take)
  <2> DEFINE qty == Quantity(st.equity, price, stop)
             pos == [qty |-> qty, entry_price |-> price, opened_at |-> frame.open_at,
                     stop_loss |-> stop, take_profit |-> take, bars_held |-> 1,
                     pending_signal_exit |-> FALSE]
             log == Append(st.decisions, [frame_index |-> index, kind |-> "entry_filled"])
  <2>1. new = [st EXCEPT !.pending_entry = <<>>, !.position = <<pos>>, !.decisions = log]
    BY <1>3 DEF OpenPending
  <2>2. ~InstrumentOrMarginLimit(st.equity, price, qty) BY <1>3 DEF OrderRejected
  <2>3. /\ pos.qty = qty /\ pos.entry_price = price /\ pos.opened_at = frame.open_at
    OBVIOUS
  <2>4. pending \in Pending /\ Resolved(pending) /\ st.equity \in Int BY <1>3, SoundParts
  <2>5. price \in Nat \ {0} BY DEF Frame
  <2>6. stop \in Int \cup {None} /\ (StopRule.model # "none" => stop \in Int)
    BY <2>4, <2>5, StopLossType
  <2>7. ~WrongSide(price, stop, take) BY <1>3 DEF OrderRejected
  <2>8. qty \in Int BY <2>4, <2>5, <2>6, <2>7, QuantityInt
  <2> HIDE DEF qty, stop, take, pending
  <2>9. qty * price * Bps <= st.equity * Leverage
    <3>1. ~(qty * price * Bps > st.equity * Leverage) BY <2>2 DEF InstrumentOrMarginLimit
    <3>2. qty * price * Bps \in Int /\ st.equity * Leverage \in Int
      BY <2>4, <2>5, <2>8, RunAssumption DEF Bps
    <3>. QED BY <3>1, <3>2
  <2> HIDE DEF pos, log, new, price
  <2>10. <<pos>> # <<>> /\ The(<<pos>>) = pos BY DEF The
  <2>11. new.position = <<pos>> /\ new.pending_entry = <<>> /\ SameBooks(st, new)
    BY <1>0, <2>1 DEF KernelState, SameBooks
  <2>12. Covered(new) BY <2>3, <2>9, <2>10, <2>11 DEF Covered, SameBooks
  <2>13. Ledger(new) BY <2>11 DEF Kept, Ledger, Chained, SameBooks
  <2>14. Timed(new, frame.open_at)
    BY <1>0, <2>3, <2>10, <2>11 DEF Kept, Timed, SameBooks
  <2>15. Filled(pos, st.frames)
    <3>1. /\ index - 1 \in 1..Len(st.frames) /\ st.frames[index - 1].open_at >= ExecutionStart
          /\ Holds(EntryCondition, st.frames, index - 1)
      BY <1>3 DEF SignalledOn
    <3>2. index \in 2..Len(st.frames) BY <3>1
    <3>. QED BY <2>3, <3>1, <3>2 DEF Filled, price
  <2>16. FillsReal(new) BY <2>10, <2>11, <2>15 DEF Kept, FillsReal, SameBooks
  <2>17. Kept(new, frame.open_at) BY <2>12, <2>13, <2>14, <2>16 DEF Kept
  <2>. QED BY <2>11, <2>17 DEF SameBooks, IsSome, new
<1>. QED BY <1>1, <1>2, <1>3

\* Replacing the position by one with the same fill keeps the books.
LEMMA RepositionKeeps ==
  ASSUME NEW st, Sound(st), IsSome(st.position), NEW pos, NEW now, Kept(st, now),
         pos.qty = The(st.position).qty, pos.entry_price = The(st.position).entry_price,
         pos.opened_at = The(st.position).opened_at
  PROVE  LET new == [st EXCEPT !.position = <<pos>>]
         IN Kept(new, now) /\ new.frames = st.frames /\ new.pending_entry = st.pending_entry
<1> DEFINE new == [st EXCEPT !.position = <<pos>>]
<1>1. /\ new.position = <<pos>> /\ new.pending_entry = st.pending_entry /\ SameBooks(st, new)
  BY DEF Sound, KernelState, SameBooks
<1> HIDE DEF new
<1>2. <<pos>> # <<>> /\ The(<<pos>>) = pos BY DEF The
<1>3. SameFill(st, new) BY <1>1, <1>2 DEF SameFill, IsSome
<1>4. Kept(new, now) BY <1>1, <1>3, SameKept
<1>. QED BY <1>1, <1>4 DEF SameBooks, new

LEMMA CountHeldBarKeeps ==
  ASSUME NEW st, Sound(st), NEW held \in BOOLEAN, NEW now, Kept(st, now)
  PROVE  LET new == CountHeldBar(st, held)
         IN Kept(new, now) /\ new.frames = st.frames /\ new.pending_entry = st.pending_entry
<1>1. CASE ~(held /\ IsSome(st.position)) BY <1>1 DEF CountHeldBar
<1>2. CASE held /\ IsSome(st.position)
  <2> DEFINE pos == [The(st.position) EXCEPT !.bars_held = @ + 1]
  <2>1. The(st.position) \in Position BY <1>2, SoundParts
  <2>2. /\ pos.qty = The(st.position).qty /\ pos.entry_price = The(st.position).entry_price
        /\ pos.opened_at = The(st.position).opened_at
    BY <2>1 DEF Position
  <2> DEFINE new == [st EXCEPT !.position = <<pos>>]
  <2>3. CountHeldBar(st, held) = new BY <1>2 DEF CountHeldBar
  <2> HIDE DEF pos
  <2>4. Kept(new, now) /\ new.frames = st.frames /\ new.pending_entry = st.pending_entry
    BY <1>2, <2>2, RepositionKeeps
  <2> HIDE DEF new
  <2>. QED BY <2>3, <2>4
<1>. QED BY <1>1, <1>2

LEMMA FlagSignalExitKeeps ==
  ASSUME NEW st, Sound(st), NEW index, NEW now, Kept(st, now)
  PROVE  LET new == FlagSignalExit(st, index)
         IN Kept(new, now) /\ new.frames = st.frames /\ new.pending_entry = st.pending_entry
<1>1. CASE ~IsSome(st.position) BY <1>1 DEF FlagSignalExit
<1>2. CASE IsSome(st.position)
  <2> DEFINE flag == Holds(SignalExit, st.frames, index)
             pos == [The(st.position) EXCEPT !.pending_signal_exit = flag]
  <2>1. The(st.position) \in Position BY <1>2, SoundParts
  <2>2. FlagSignalExit(st, index) = [st EXCEPT !.position = <<pos>>]
    BY <1>2 DEF FlagSignalExit
  <2> HIDE DEF flag
  <2>3. /\ pos.qty = The(st.position).qty /\ pos.entry_price = The(st.position).entry_price
        /\ pos.opened_at = The(st.position).opened_at
    BY <2>1 DEF Position
  <2> HIDE DEF pos
  <2>. QED BY <1>2, <2>2, <2>3, RepositionKeeps
<1>. QED BY <1>1, <1>2

\* A trade settles at a time no earlier than its entry, nor than any trade
\* before it, and is added to the chain; the slot is free afterwards.
LEMMA CloseKeeps ==
  ASSUME NEW st, Sound(st), IsSome(st.position), NEW frame \in Frame, NEW index \in Nat,
         NEW kind \in ExitKinds \cup {"end_of_data"}, NEW price \in Int, NEW now \in Nat,
         Kept(st, now),
         kind \in {"time_exit", "end_of_data"} => now <= CloseAt(frame),
         kind \notin {"time_exit", "end_of_data"} => now <= frame.open_at
  PROVE  LET new == Close(st, frame, index, kind, price)
         IN /\ Kept(new, CloseAt(frame))
            /\ new.frames = st.frames /\ new.pending_entry = st.pending_entry
<1> DEFINE pos == The(st.position)
           pnl == NetPnl(pos, price)
           at == IF kind \in {"time_exit", "end_of_data"} THEN CloseAt(frame) ELSE frame.open_at
           trade == [seq |-> st.trade_seq + 1, opened_at |-> pos.opened_at, closed_at |-> at,
                     entry_price |-> pos.entry_price, exit_price |-> price, exit_kind |-> kind,
                     pnl |-> pnl, equity_after |-> st.equity + pnl,
                     stop_loss |-> pos.stop_loss, take_profit |-> pos.take_profit]
           log == Append(st.decisions, [frame_index |-> index, kind |-> "exit_filled"])
           new == Close(st, frame, index, kind, price)
           n == Len(st.trades)
<1>1. st \in KernelState /\ pos \in Position /\ st.trades \in Seq(Trade) /\ st.equity \in Int
  BY SoundParts DEF Sound
<1>2. pnl \in Int BY <1>1, NetPnlInt
<1>3. /\ at \in Nat /\ now <= at /\ at <= CloseAt(frame) /\ CloseAt(frame) \in Nat
      /\ pos.opened_at \in Nat
  <2>1. frame.open_at \in Nat BY DEF Frame
  <2>2. CloseAt(frame) = frame.open_at + 1 BY DEF CloseAt
  <2> HIDE DEF pos, pnl, trade, log, new, n
  <2>3. pos.opened_at \in Nat BY <1>1 DEF Position
  <2>4. CASE kind \in {"time_exit", "end_of_data"}
    <3>1. at = CloseAt(frame) BY <2>4
    <3>. QED BY <2>1, <2>2, <2>3, <2>4, <3>1
  <2>5. CASE kind \notin {"time_exit", "end_of_data"}
    <3>1. at = frame.open_at BY <2>5
    <3>. QED BY <2>1, <2>2, <2>3, <2>5, <3>1
  <2>. QED BY <2>4, <2>5
<1>4. new = [st EXCEPT !.equity = st.equity + pnl, !.trade_seq = st.trade_seq + 1,
                       !.trades = Append(st.trades, trade), !.decisions = log,
                       !.position = <<>>, !.last_exit_index = index]
  BY DEF Close
<1>5. /\ trade.seq = st.trade_seq + 1 /\ trade.opened_at = pos.opened_at /\ trade.closed_at = at
      /\ trade.entry_price = pos.entry_price /\ trade.pnl = pnl
      /\ trade.equity_after = st.equity + pnl
  OBVIOUS
<1> HIDE DEF pos, pnl, at, trade, log, new
<1>6. /\ new.equity = st.equity + pnl /\ new.trade_seq = st.trade_seq + 1
      /\ new.trades = Append(st.trades, trade) /\ new.position = <<>>
      /\ new.frames = st.frames /\ new.pending_entry = st.pending_entry
  BY <1>1, <1>4 DEF KernelState
<1>7. /\ n \in Nat /\ Len(new.trades) = n + 1 /\ DOMAIN new.trades = 1..(n + 1)
      /\ DOMAIN st.trades = 1..n /\ new.trades[n + 1] = trade
      /\ \A k \in 1..n : new.trades[k] = st.trades[k]
  BY <1>1, <1>6
<1>8. st.trade_seq = n /\ st.equity = Prefix(st.trades, n)
      /\ (\A k \in 1..n : Chained(st, k)) /\ Timed(st, now) /\ FillsReal(st)
  BY <1>7 DEF Kept, Ledger
<1>9. \A k \in 0..n : Prefix(new.trades, k) = Prefix(st.trades, k)
  BY <1>7 DEF Prefix
<1>10. pos.opened_at <= now /\ (\A k \in 1..n : st.trades[k].closed_at <= pos.opened_at)
  BY <1>7, <1>8 DEF Timed, pos
<1> HIDE DEF n
<1>11. Ledger(new)
  <2>1. ASSUME NEW k \in 1..n PROVE Chained(new, k)
    <3>1. Chained(st, k) /\ k - 1 \in 0..n BY <1>7, <1>8, <2>1
    <3>2. k > 1 => k - 1 \in 1..n BY <1>7, <2>1
    <3>3. new.trades[k] = st.trades[k] /\ Prefix(new.trades, k - 1) = Prefix(st.trades, k - 1)
      BY <1>7, <1>9, <2>1, <3>1
    <3>4. k > 1 => new.trades[k - 1] = st.trades[k - 1] BY <1>7, <3>2
    <3>. QED BY <3>1, <3>3, <3>4 DEF Chained
  <2>2. Chained(new, n + 1)
    <3>1. n + 1 - 1 = n /\ n \in 0..n /\ (n + 1 > 1 => n \in 1..n) BY <1>7
    <3>2. trade.seq = n + 1 BY <1>5, <1>8
    <3>3. trade.opened_at <= trade.closed_at BY <1>3, <1>5, <1>10
    <3>4. trade.equity_after = Prefix(new.trades, n) + trade.pnl BY <1>5, <1>8, <1>9, <3>1
    <3>5. n + 1 > 1 => new.trades[n].closed_at <= trade.opened_at
      BY <1>5, <1>7, <1>10, <3>1
    <3>. QED BY <1>7, <3>1, <3>2, <3>3, <3>4, <3>5 DEF Chained
  <2>3. new.equity = Prefix(new.trades, n + 1) BY <1>5, <1>6, <1>7 DEF Prefix
  <2>4. \A k \in 1..(n + 1) : k \in 1..n \/ k = n + 1 BY <1>7
  <2>. QED BY <1>6, <1>7, <1>8, <2>1, <2>2, <2>3, <2>4 DEF Ledger
<1>12. ~IsSome(new.position) BY <1>6 DEF IsSome
<1>13. Timed(new, CloseAt(frame))
  <2>1. ASSUME NEW k \in 1..n PROVE new.trades[k].closed_at <= CloseAt(frame)
    <3>0. st.trades[k] \in Trade BY <1>1, <1>7, <2>1
    <3>1. st.trades[k].closed_at \in Nat BY <3>0 DEF Trade
    <3>2. st.trades[k].closed_at <= now BY <1>7, <1>8, <2>1 DEF Timed
    <3>3. new.trades[k] = st.trades[k] BY <1>7, <2>1
    <3>4. now <= CloseAt(frame) BY <1>3
    <3>5. CloseAt(frame) \in Nat BY <1>3
    <3>. QED BY <3>1, <3>2, <3>3, <3>4, <3>5
  <2>2. new.trades[n + 1].closed_at <= CloseAt(frame) BY <1>3, <1>5, <1>7
  <2>3. \A k \in 1..(n + 1) : k \in 1..n \/ k = n + 1 BY <1>7
  <2>. QED BY <1>7, <1>12, <2>1, <2>2, <2>3 DEF Timed
<1>14. FillsReal(new)
  <2>1. Filled(pos, st.frames) BY <1>8 DEF FillsReal, pos
  <2>2. Filled(trade, st.frames) BY <1>5, <2>1 DEF Filled
  <2>3. \A k \in 1..(n + 1) : k \in 1..n \/ k = n + 1 BY <1>7
  <2>. QED BY <1>6, <1>7, <1>8, <1>12, <2>2, <2>3 DEF FillsReal
<1>15. Covered(new) BY <1>12 DEF Covered
<1>. QED BY <1>6, <1>11, <1>13, <1>14, <1>15 DEF Kept, new

\* What has settled by one time has settled by any later one.
LEMMA KeptLater ==
  ASSUME NEW st, Sound(st), NEW now \in Nat, NEW later \in Nat, now <= later, Kept(st, now)
  PROVE  Kept(st, later)
<1>1. ASSUME NEW k \in DOMAIN st.trades PROVE st.trades[k].closed_at <= later
  <2>1. st.trades \in Seq(Trade) BY SoundParts
  <2>2. st.trades[k] \in Trade BY <1>1, <2>1
  <2>3. st.trades[k].closed_at \in Nat BY <2>2 DEF Trade
  <2>4. st.trades[k].closed_at <= now BY <1>1 DEF Kept, Timed
  <2>. QED BY <2>3, <2>4
<1>2. ASSUME IsSome(st.position) PROVE The(st.position).opened_at <= later
  <2>1. The(st.position).opened_at \in Nat BY <1>2, SoundParts DEF Position
  <2>2. The(st.position).opened_at <= now BY <1>2 DEF Kept, Timed
  <2>. QED BY <2>1, <2>2
<1>. QED BY <1>1, <1>2 DEF Kept, Timed

LEMMA TakeExitKeeps ==
  ASSUME NEW st, Sound(st), NEW frame \in Frame, NEW index \in Nat, Kept(st, frame.open_at)
  PROVE  LET new == TakeExit(st, frame, index)
         IN /\ Kept(new, CloseAt(frame))
            /\ new.frames = st.frames /\ new.pending_entry = st.pending_entry
<1>0. /\ frame.open_at \in Nat /\ CloseAt(frame) \in Nat /\ frame.open_at <= CloseAt(frame)
  BY DEF Frame, CloseAt
<1>1. CASE TakeExit(st, frame, index) = st
  <2>1. Kept(st, CloseAt(frame)) BY <1>0, KeptLater
  <2>. QED BY <1>1, <2>1
<1>2. ASSUME IsSome(st.position), NEW kind \in ExitKinds,
             ExitDue(kind, The(st.position), frame),
             TakeExit(st, frame, index)
               = Close(st, frame, index, kind, ExitPrice(kind, The(st.position), frame))
      PROVE  LET new == TakeExit(st, frame, index)
             IN /\ Kept(new, CloseAt(frame))
                /\ new.frames = st.frames /\ new.pending_entry = st.pending_entry
  <2> DEFINE price == ExitPrice(kind, The(st.position), frame)
             new == Close(st, frame, index, kind, price)
  <2>1. The(st.position) \in Position BY <1>2, SoundParts
  <2>2. price \in Int BY <1>2, <2>1, ExitPriceInt
  <2> HIDE DEF price
  <2>3. /\ Kept(new, CloseAt(frame))
        /\ new.frames = st.frames /\ new.pending_entry = st.pending_entry
    BY <1>0, <1>2, <2>2, CloseKeeps
  <2>. QED BY <1>2, <2>3 DEF price
<1>. QED BY <1>1, <1>2, TakeExitCases

\* A signal leaves the books alone and is of the bar it is recorded for.
LEMMA SignalEntryKeeps ==
  ASSUME NEW st, Sound(st), NEW frame \in Frame, NEW index \in Nat, NEW now, Kept(st, now),
         ~IsSome(st.pending_entry), Len(st.frames) = index, index >= 1,
         st.frames[index].open_at >= ExecutionStart
  PROVE  LET new == SignalEntry(st, frame, index)
         IN /\ Kept(new, now) /\ new.frames = st.frames
            /\ SignalledOn(new, index)
<1> DEFINE go == /\ ~IsSome(st.position) /\ ~IsSome(st.pending_entry)
                 /\ Eligible(st, index)
                 /\ Holds(EntryCondition, st.frames, index)
           order == [signal_index |-> index, stop_value |-> StopValue(frame),
                     take_value |-> TakeValue(frame)]
           log == Append(st.decisions, [frame_index |-> index, kind |-> "entry_pending"])
           new == SignalEntry(st, frame, index)
<1>1. CASE ~go
  <2>1. new = st BY <1>1 DEF SignalEntry
  <2>. QED BY <2>1 DEF SignalledOn
<1>2. CASE go
  <2>1. new = [st EXCEPT !.pending_entry = <<order>>, !.decisions = log]
    BY <1>2 DEF SignalEntry
  <2>2. Holds(EntryCondition, st.frames, index) BY <1>2
  <2> HIDE DEF order, log, go, new
  <2>3. new.position = st.position /\ SameBooks(st, new)
    BY <2>1 DEF Sound, KernelState, SameBooks
  <2>4. SameFill(st, new) BY <2>3 DEF SameFill
  <2>5. Kept(new, now) BY <2>3, <2>4, SameKept
  <2>6. index \in 1..Len(st.frames) OBVIOUS
  <2>7. SignalledOn(new, index) BY <2>2, <2>3, <2>6 DEF SignalledOn, SameBooks
  <2>. QED BY <2>3, <2>5, <2>7 DEF SameBooks, new
<1>. QED BY <1>1, <1>2

\* One evaluated frame, from rest to rest.
LEMMA EvaluateAtRest ==
  ASSUME NEW st, Sound(st), AtRest(st), NEW frame \in Frame, Admissible(st, frame)
  PROVE  AtRest(Evaluate(st, frame))
<1> DEFINE index == Len(st.frames) + 1
           arrived == Arrive(st, frame)
           opened == OpenPending(arrived, frame, index)
           counted == CountHeldBar(opened, IsSome(st.position))
           exited == TakeExit(counted, frame, index)
           flagged == FlagSignalExit(exited, index)
           signalled == SignalEntry(flagged, frame, index)
           fs == Append(st.frames, frame)
<1>1. st.frames \in Seq(Frame) /\ Len(st.frames) \in Nat BY SoundParts, LenNat
<1>2. /\ index \in Nat /\ index \in Nat \ {0} /\ index >= 1 /\ index - 1 = Len(st.frames)
      /\ fs # <<>> /\ Len(fs) = index /\ fs[index] = frame
  BY <1>1
<1>3. Sound(arrived) /\ arrived.frames = fs BY ArriveSound
<1>4. Kept(arrived, frame.open_at) /\ SignalledOn(arrived, index - 1) BY <1>2, ArriveKeeps
<1>5. IsSome(st.pending_entry) => frame.open_at >= ExecutionStart BY ArriveKeeps
<1>6. IsSome(st.position) \in BOOLEAN BY DEF IsSome
<1>7. Evaluate(st, frame) = IF frame.open_at < ExecutionStart THEN arrived ELSE signalled
  BY DEF Evaluate
<1>8. /\ frame.open_at \in Nat /\ ExecutionStart \in Nat /\ CloseAt(frame) \in Nat
      /\ CloseAt(frame) = frame.open_at + 1
  BY RunAssumption DEF Frame, CloseAt
<1>9. arrived.pending_entry = st.pending_entry BY DEF Arrive, Sound, KernelState
<1> HIDE DEF index, arrived, fs
<1>10. Sound(opened) BY <1>2, <1>3, OpenPendingSound
<1>11. Kept(opened, frame.open_at) /\ opened.frames = fs /\ ~IsSome(opened.pending_entry)
  BY <1>2, <1>3, <1>4, OpenPendingKeeps
<1> HIDE DEF opened
<1>12. Sound(counted) BY <1>6, <1>10, CountHeldBarSound
<1>13. Kept(counted, frame.open_at) /\ counted.frames = fs /\ ~IsSome(counted.pending_entry)
  BY <1>6, <1>10, <1>11, CountHeldBarKeeps
<1> HIDE DEF counted
<1>14. Sound(exited) BY <1>2, <1>12, TakeExitSound
<1>15. Kept(exited, CloseAt(frame)) /\ exited.frames = fs /\ ~IsSome(exited.pending_entry)
  BY <1>2, <1>12, <1>13, TakeExitKeeps
<1> HIDE DEF exited
<1>16. Sound(flagged) BY <1>14, FlagSignalExitSound
<1>17. Kept(flagged, CloseAt(frame)) /\ flagged.frames = fs /\ ~IsSome(flagged.pending_entry)
  BY <1>14, <1>15, FlagSignalExitKeeps
<1> HIDE DEF flagged
<1>18. CASE frame.open_at < ExecutionStart
  <2>1. Evaluate(st, frame) = arrived BY <1>7, <1>18
  <2>2. ~IsSome(arrived.pending_entry) BY <1>5, <1>8, <1>9, <1>18
  <2>3. LastClose(arrived) = CloseAt(frame) BY <1>2, <1>3 DEF LastClose
  <2>4. Kept(arrived, CloseAt(frame)) BY <1>3, <1>4, <1>8, KeptLater
  <2>. QED BY <1>2, <1>3, <2>1, <2>2, <2>3, <2>4 DEF AtRest, SignalledOn
<1>19. CASE ~(frame.open_at < ExecutionStart)
  <2>1. Evaluate(st, frame) = signalled BY <1>7, <1>19
  <2>2. frame.open_at >= ExecutionStart BY <1>8, <1>19
  <2>3. Kept(signalled, CloseAt(frame)) /\ signalled.frames = fs /\ SignalledOn(signalled, index)
    BY <1>2, <1>16, <1>17, <2>2, SignalEntryKeeps
  <2> HIDE DEF signalled
  <2>4. LastClose(signalled) = CloseAt(frame) BY <1>2, <2>3 DEF LastClose
  <2>. QED BY <1>2, <2>1, <2>3, <2>4 DEF AtRest
<1>. QED BY <1>18, <1>19

\* The end of the data drops the order and closes the position, at rest again.
LEMMA FinalizeAtRest ==
  ASSUME NEW st, Sound(st), AtRest(st)
  PROVE  Sound(Finalize(st)) /\ AtRest(Finalize(st))
<1> DEFINE index == Len(st.frames)
           notes == Append(st.diagnostics, [frame_index |-> index, kind |-> "no_next_bar"])
           dropped == IF IsSome(st.pending_entry)
                      THEN [st EXCEPT !.diagnostics = notes, !.pending_entry = <<>>]
                      ELSE st
           new == Finalize(st)
<1>0. st \in KernelState /\ st.frames \in Seq(Frame) /\ index \in Nat
  BY SoundParts, LenNat DEF Sound
<1>1. new = IF IsSome(dropped.position)
            THEN Close(dropped, st.frames[index], index, "end_of_data", st.frames[index].close)
            ELSE dropped
  BY DEF Finalize
<1>2. CASE st.frames = <<>>
  <2>1. st.position = <<>> /\ st.pending_entry = <<>> BY <1>2 DEF AtRest, InitialState
  <2>2. dropped = st /\ ~IsSome(st.position) BY <2>1 DEF IsSome
  <2>. QED BY <1>1, <2>2
<1>3. CASE st.frames # <<>>
  <2>1. index >= 1 /\ index \in 1..Len(st.frames) BY <1>0, <1>3, EmptySeq
  <2>2. st.frames[index] \in Frame BY <1>0, <2>1
  <2>3. st.frames[index].close \in Int /\ LastClose(st) \in Nat
    BY <2>2 DEF Frame, LastClose, CloseAt
  <2>4. Sound(new) BY <1>3, FinalizeSound
  <2>5. /\ SameBooks(st, dropped) /\ dropped.position = st.position
        /\ ~IsSome(dropped.pending_entry)
    BY <1>0 DEF KernelState, SameBooks, IsSome
  <2>6. Sound(dropped)
    <3>1. CASE ~IsSome(st.pending_entry) BY <3>1
    <3>2. CASE IsSome(st.pending_entry)
      <4>1. [frame_index |-> index, kind |-> "no_next_bar"] \in Diagnostic
        BY <1>0 DEF Diagnostic
      <4>2. notes \in Seq(Diagnostic) BY <4>1, SoundParts, AppendType
      <4>3. dropped = [st EXCEPT !.diagnostics = notes, !.pending_entry = <<>>] BY <3>2
      <4> HIDE DEF notes, dropped
      <4>4. <<>> \in Seq(Pending) /\ Len(<<>>) = 0 BY EmptySeq
      <4>5. dropped \in KernelState BY <1>0, <4>2, <4>3, <4>4 DEF KernelState
      <4>6. dropped.pending_entry = <<>> BY <1>0, <4>3 DEF KernelState
      <4>7. st.position = <<>> BY <3>2, SoundParts
      <4>. QED BY <2>5, <4>4, <4>5, <4>6, <4>7 DEF Sound
    <3>. QED BY <3>1, <3>2
  <2>7. Kept(dropped, LastClose(st))
    <3> HIDE DEF dropped
    <3>1. SameFill(st, dropped) BY <2>5 DEF SameFill
    <3>2. Kept(st, LastClose(st)) BY <1>3 DEF AtRest
    <3>. QED BY <2>5, <3>1, <3>2, SameKept
  <2> HIDE DEF dropped
  <2>8. /\ Kept(new, LastClose(st)) /\ new.frames = st.frames /\ ~IsSome(new.pending_entry)
    <3>1. CASE ~IsSome(dropped.position) BY <1>1, <2>5, <2>7, <3>1 DEF SameBooks
    <3>2. CASE IsSome(dropped.position)
      <4> DEFINE last == st.frames[index]
                 price == last.close
                 closed == Close(dropped, last, index, "end_of_data", price)
      <4>1. LastClose(st) = CloseAt(last) BY DEF LastClose
      <4>2. last \in Frame /\ price \in Int /\ CloseAt(last) \in Nat BY <2>2, <2>3, <4>1
      <4>3. new = closed BY <1>1, <3>2
      <4> DEFINE kind == "end_of_data"
                 now == CloseAt(last)
      <4>4. /\ kind \in ExitKinds \cup {"end_of_data"} /\ Kept(dropped, now) /\ now \in Nat
            /\ kind \in {"time_exit", "end_of_data"} => now <= CloseAt(last)
            /\ kind \notin {"time_exit", "end_of_data"} => now <= last.open_at
        BY <2>7, <4>1, <4>2
      <4>0. index \in Nat BY <1>0
      <4> HIDE DEF price, last, index, kind, now
      <4>5. closed = Close(dropped, last, index, kind, price) BY DEF kind
      <4>6. /\ Kept(closed, CloseAt(last)) /\ closed.frames = dropped.frames
            /\ closed.pending_entry = dropped.pending_entry
        BY <4>0, <2>6, <3>2, <4>2, <4>4, <4>5, CloseKeeps
      <4> HIDE DEF closed, new
      <4>. QED BY <2>5, <4>1, <4>3, <4>6 DEF SameBooks
    <3>. QED BY <3>1, <3>2
  <2> HIDE DEF new
  <2>9. AtRest(new) BY <1>3, <2>8 DEF AtRest, LastClose, SignalledOn
  <2>. QED BY <2>4, <2>9 DEF new
<1>. QED BY <1>2, <1>3

----------------------------------------------------------------------------
LEMMA InitIInv == Init => IInv
<1> SUFFICES ASSUME Init PROVE IInv OBVIOUS
<1>1. state = InitialState /\ mtm = <<>> /\ status = "running" BY DEF Init
<1>2. Sound(state) BY <1>1, InitialKept
<1>3. state.frames = <<>> BY <1>1 DEF InitialState
<1>4. AtRest(state) BY <1>1, <1>3 DEF AtRest
<1>5. mtm \in Seq(Mark) BY <1>1, EmptySeq
<1>. QED BY <1>1, <1>2, <1>4, <1>5 DEF IInv

LEMMA NextIInv == IInv /\ [Next]_vars => IInv'
<1> SUFFICES ASSUME IInv, [Next]_vars PROVE IInv' OBVIOUS
<1>0. /\ Sound(state) /\ AtRest(state) /\ mtm \in Seq(Mark)
      /\ status \in {"running", "failed", "done"}
  BY DEF IInv
<1>1. ASSUME NEW frame \in Frames, EvaluateFrame(frame) PROVE IInv'
  <2>1. frame \in Frame /\ CloseAt(frame) \in Nat
    BY <1>1, FramesAssumption DEF Frame, CloseAt
  <2>2. Admissible(state, frame) /\ state' = Evaluate(state, frame) /\ status' = status
    BY <1>1 DEF EvaluateFrame
  <2>3. Sound(state') BY <1>0, <2>1, <2>2, EvaluateSound
  <2>4. AtRest(state') BY <1>0, <2>1, <2>2, EvaluateAtRest
  <2>5. mtm' \in Seq(Mark)
    <3>1. CASE ~IsSome(state'.position) BY <1>0, <1>1, <3>1 DEF EvaluateFrame
    <3>2. CASE IsSome(state'.position)
      <4> DEFINE point == MarkPoint(state', frame)
      <4>1. The(state'.position) \in Position /\ state'.trades \in Seq(Trade)
        BY <2>3, <3>2, SoundParts
      <4>2. Len(state'.trades) \in Nat BY <4>1, LenNat
      <4>3. ASSUME NEW pos \in Position, NEW mark \in Int PROVE Unrealized(pos, mark) \in Int
        <5>1. pos.qty \in Int /\ pos.entry_price \in Int /\ FeeBps + SlippageBps \in Int
          BY RunAssumption DEF Position
        <5> DEFINE delta == IF Side = "long" THEN mark - pos.entry_price
                                             ELSE pos.entry_price - mark
        <5>2. delta \in Int BY <5>1
        <5>3. delta * pos.qty * Bps \in Int BY <5>1, <5>2 DEF Bps
        <5>4. pos.entry_price * pos.qty * (FeeBps + SlippageBps) \in Int BY <5>1
        <5>5. Unrealized(pos, mark)
                = delta * pos.qty * Bps - pos.entry_price * pos.qty * (FeeBps + SlippageBps)
          BY DEF Unrealized
        <5>. QED BY <5>3, <5>4, <5>5
      <4>4. frame.close \in Int BY <2>1 DEF Frame
      <4>5. Unrealized(The(state'.position), frame.close) \in Int BY <4>1, <4>3, <4>4
      <4>6. point \in Mark BY <2>1, <4>2, <4>5 DEF MarkPoint, Mark
      <4>7. mtm' = Append(mtm, point) BY <1>1, <3>2 DEF EvaluateFrame
      <4> HIDE DEF point
      <4>. QED BY <1>0, <4>6, <4>7, AppendType
    <3>. QED BY <3>1, <3>2
  <2>. QED BY <1>0, <2>2, <2>3, <2>4, <2>5 DEF IInv
<1>2. ASSUME NEW frame \in Frames, RefuseFrame(frame) PROVE IInv'
  BY <1>0, <1>2 DEF RefuseFrame, IInv
<1>3. CASE FinishReplay
  <2>1. state' = Finalize(state) /\ status' = "done" /\ mtm' = mtm BY <1>3 DEF FinishReplay
  <2>2. Sound(state') /\ AtRest(state') BY <1>0, <2>1, FinalizeAtRest
  <2>. QED BY <1>0, <2>1, <2>2 DEF IInv
<1>4. CASE UNCHANGED vars BY <1>0, <1>4 DEF vars, IInv
<1>. QED BY <1>1, <1>2, <1>3, <1>4 DEF Next

THEOREM Invariance == Spec => []IInv
  BY InitIInv, NextIInv, PTL DEF Spec

\* The replay's state is well typed for every strategy, market and window, and
\* a pending order and an open position never exist side by side.
THEOREM TypeCorrect == Spec => []TypeOK
<1>1. IInv => TypeOK BY DEF IInv, Sound, TypeOK
<1>. QED BY <1>1, Invariance, PTL

\* simulate() never looks ahead: every entry is filled at the open of the bar
\* after one on which the entry condition held.
THEOREM NoLookAhead == Spec => []NextBarFill
<1>1. ASSUME IInv PROVE NextBarFill
  <2>0. Sound(state) /\ AtRest(state) BY <1>1 DEF IInv
  <2>1. FillsReal(state)
    <3>1. CASE state.frames = <<>> BY <2>0, <3>1, InitialKept DEF AtRest, Kept
    <3>2. CASE state.frames # <<>> BY <2>0, <3>2 DEF AtRest, Kept
    <3>. QED BY <3>1, <3>2
  <2>2. ASSUME NEW i \in DOMAIN state.position PROVE Filled(state.position[i], state.frames)
    <3>1. state.position \in Seq(Position) BY <2>0, SoundParts
    <3>2. IsSome(state.position) BY <2>2, <3>1 DEF IsSome
    <3>3. Len(state.position) = 1 BY <2>0, <3>2, SoundParts
    <3>4. i = 1 BY <2>2, <3>1, <3>3
    <3>. QED BY <2>1, <3>2, <3>4 DEF FillsReal, The
  <2>3. ASSUME NEW k \in DOMAIN state.trades PROVE Filled(state.trades[k], state.frames)
    BY <2>1, <2>3 DEF FillsReal
  <2>4. \A e \in {state.position[i] : i \in DOMAIN state.position}
                  \cup {state.trades[k] : k \in DOMAIN state.trades} : Filled(e, state.frames)
    BY <2>2, <2>3
  <2>. QED BY <2>4 DEF NextBarFill, Filled, frames, trades
<1>. QED BY <1>1, Invariance, PTL

\* The books of every replay: numbered without a gap, chained balance by
\* balance up to the equity, no trade opened before the last one settled.
THEOREM LedgerChains == Spec => []TradesFormLedger
<1>1. ASSUME IInv PROVE TradesFormLedger
  <2>0. AtRest(state) BY <1>1 DEF IInv
  <2>1. Ledger(state)
    <3>1. CASE state.frames = <<>> BY <2>0, <3>1, InitialKept DEF AtRest, Kept
    <3>2. CASE state.frames # <<>> BY <2>0, <3>2 DEF AtRest, Kept
    <3>. QED BY <3>1, <3>2
  <2>. QED BY <2>1 DEF Ledger, Chained, TradesFormLedger, trades
<1>. QED BY <1>1, Invariance, PTL

\* No replay holds a position its realized equity does not cover, whatever the
\* losses before it.
THEOREM NeverOverMargin == Spec => []MarginCovered
<1>1. ASSUME IInv PROVE MarginCovered
  <2>0. AtRest(state) BY <1>1 DEF IInv
  <2>1. Covered(state)
    <3>1. CASE state.frames = <<>> BY <2>0, <3>1, InitialKept DEF AtRest, Kept
    <3>2. CASE state.frames # <<>> BY <2>0, <3>2 DEF AtRest, Kept
    <3>. QED BY <3>1, <3>2
  <2>. QED BY <2>1 DEF Covered, MarginCovered
<1>. QED BY <1>1, Invariance, PTL

----------------------------------------------------------------------------
(***************************************************************************)
(* The second inductive invariant.  "Told" is what holds of the logs, the  *)
(* trades and the marks between any two stages; "Held" and "Survives" are  *)
(* what holds of the open position before and after its exits were looked  *)
(* for on bar n.                                                           *)
(***************************************************************************)
Tallied(st) ==
  /\ Count(st.decisions, "entry_pending") =
       Count(st.decisions, "entry_filled") + Len(st.diagnostics) + Len(st.pending_entry)
  /\ Count(st.decisions, "entry_filled") =
       Count(st.decisions, "exit_filled") + Len(st.position)
  /\ Count(st.decisions, "exit_filled") = Len(st.trades)

\* Every exit is known to the state by the index of the last one.
Cooled(log, last) ==
  /\ \A i \in DOMAIN log : log[i].kind = "exit_filled" =>
       1 <= log[i].frame_index /\ log[i].frame_index <= last
  /\ \A i, j \in DOMAIN log :
       i < j /\ log[i].kind = "exit_filled" /\ log[j].kind = "entry_pending" =>
         log[j].frame_index - log[i].frame_index >= CooldownBars

Rested(st) == Cooled(st.decisions, st.last_exit_index) /\ st.last_exit_index <= Len(st.frames)

\* A replay's bars come in order and enclose their own open and close.
WellFormed(bar) ==
  /\ bar.low <= bar.open /\ bar.low <= bar.close
  /\ bar.open <= bar.high /\ bar.close <= bar.high

Ordered(fs) ==
  /\ \A i, j \in DOMAIN fs : i < j => fs[i].open_at < fs[j].open_at
  /\ \A i \in DOMAIN fs : WellFormed(fs[i])

Settled(t) == IF t.exit_kind \in {"time_exit", "end_of_data"} THEN t.closed_at - 1 ELSE t.closed_at

RealOn(t, bar) ==
  /\ bar.low <= t.exit_price /\ t.exit_price <= bar.high
  /\ Priority[1] = "stop_loss" /\ t.exit_kind # "stop_loss" => ~StopTouched(t, bar)

Real(t, fs) == \E j \in DOMAIN fs : fs[j].open_at = Settled(t) /\ RealOn(t, fs[j])

\* No trade settles after the last one.
Latest(ts) == \A k \in DOMAIN ts : ts[k].closed_at <= ts[Len(ts)].closed_at

\* A mark is of a position still open, or no later than some settled trade.
Marked(st, points, now) ==
  \A i \in DOMAIN points :
    /\ points[i].ts <= now
    /\ IsSome(st.position) \/ \E k \in DOMAIN st.trades : points[i].ts <= st.trades[k].closed_at

Told(st, points, now) ==
  /\ Tallied(st) /\ Rested(st)
  /\ Ordered(st.frames)
  /\ \A k \in DOMAIN st.trades : Real(st.trades[k], st.frames)
  /\ Latest(st.trades)
  /\ Marked(st, points, now)

Entered(p, fs, n) == n - p.bars_held + 1 >= 1 /\ fs[n - p.bars_held + 1].open_at = p.opened_at

Held(p, fs, n) ==
  /\ Entered(p, fs, n)
  /\ TimeExitBars > 0 => p.bars_held <= TimeExitBars
  /\ \A j \in (n - p.bars_held + 1)..(n - 1) :
       /\ ~StopTouched(p, fs[j]) /\ ~TakeTouched(p, fs[j])
       /\ Holds(SignalExit, fs, j) => p.pending_signal_exit

Survives(p, fs, n) ==
  /\ Entered(p, fs, n)
  /\ TimeExitBars > 0 => p.bars_held < TimeExitBars
  /\ \A j \in (n - p.bars_held + 1)..n :
       /\ ~StopTouched(p, fs[j]) /\ ~TakeTouched(p, fs[j])
       /\ Holds(SignalExit, fs, j) => j = n
  /\ p.pending_signal_exit = Holds(SignalExit, fs, n)

\* Between two frames: nothing of the above is pending.
Quiet(st, points) ==
  /\ st.frames = <<>> => points = <<>>
  /\ st.frames # <<>> => Told(st, points, LastClose(st))
  /\ IsSome(st.position) => Survives(The(st.position), st.frames, Len(st.frames))

XInv ==
  /\ Quiet(state, mtm)
  /\ status = "done" => ~IsSome(state.position) /\ ~IsSome(state.pending_entry)

----------------------------------------------------------------------------
\* A log entry is counted under its own kind and no other.
LEMMA CountAppend ==
  ASSUME NEW S, NEW s \in Seq(S), NEW e \in S, NEW kind
  PROVE  /\ Count(s, kind) \in Nat
         /\ e.kind = kind => Count(Append(s, e), kind) = Count(s, kind) + 1
         /\ e.kind # kind => Count(Append(s, e), kind) = Count(s, kind)
<1> DEFINE n == Len(s)
           t == Append(s, e)
           D == {i \in DOMAIN s : s[i].kind = kind}
           E == {i \in DOMAIN t : t[i].kind = kind}
<1>1. /\ n \in Nat /\ DOMAIN s = 1..n /\ DOMAIN t = 1..(n + 1)
      /\ t[n + 1] = e /\ \A i \in 1..n : t[i] = s[i]
  OBVIOUS
<1>2. IsFiniteSet(1..n) BY <1>1, FS_Interval
<1>3. D \subseteq 1..n BY <1>1
<1>4. IsFiniteSet(D) /\ Cardinality(D) \in Nat BY <1>2, <1>3, FS_Subset, FS_CardinalityType
<1>5. n + 1 \notin D BY <1>1, <1>3
<1>6. \A i : i \in E <=> (i \in D \/ (i = n + 1 /\ e.kind = kind))
  <2>1. \A i : i \in 1..(n + 1) <=> (i \in 1..n \/ i = n + 1) BY <1>1
  <2>2. n + 1 \notin 1..n BY <1>1
  <2> HIDE DEF t, n
  <2>. QED BY <1>1, <2>1, <2>2
<1>7. Count(s, kind) = Cardinality(D) /\ Count(t, kind) = Cardinality(E) BY DEF Count
<1> HIDE DEF D, E, t, n
<1>8. e.kind = kind => E = D \cup {n + 1} BY <1>6
<1>9. e.kind # kind => E = D BY <1>6
<1>10. Cardinality(D \cup {n + 1}) = Cardinality(D) + 1 BY <1>4, <1>5, FS_AddElement
<1>. QED BY <1>4, <1>7, <1>8, <1>9, <1>10 DEF t

\* What a stage does not touch stays told.
SameLog(a, b) ==
  /\ b.frames = a.frames /\ b.trades = a.trades /\ b.decisions = a.decisions
  /\ b.diagnostics = a.diagnostics /\ b.last_exit_index = a.last_exit_index
  /\ Len(b.pending_entry) = Len(a.pending_entry) /\ Len(b.position) = Len(a.position)
  /\ IsSome(b.position) = IsSome(a.position)

LEMMA SameTold ==
  ASSUME NEW a, NEW b, NEW points, NEW now, SameLog(a, b), Told(a, points, now)
  PROVE  Told(b, points, now)
<1>1. Tallied(b) /\ Rested(b) BY DEF Told, Tallied, Rested, SameLog
<1>2. Marked(b, points, now) BY DEF Told, Marked, SameLog
<1>. QED BY <1>1, <1>2 DEF Told, SameLog

\* Before the first bar there is nothing to tell.
LEMMA InitialTold == \A now \in Nat : Told(InitialState, <<>>, now)
<1> DEFINE st == InitialState
<1>1. /\ st.position = <<>> /\ st.pending_entry = <<>> /\ st.trades = <<>> /\ st.frames = <<>>
      /\ st.decisions = <<>> /\ st.diagnostics = <<>> /\ st.last_exit_index = 0
  BY DEF InitialState
<1>2. Len(<<>>) = 0 /\ DOMAIN <<>> = {} OBVIOUS
<1>3. ASSUME NEW kind PROVE Count(<<>>, kind) = 0
  <2>1. {i \in DOMAIN <<>> : (<<>>)[i].kind = kind} = {} BY <1>2
  <2>. QED BY <2>1, FS_EmptySet DEF Count
<1> HIDE DEF st
<1>4. Tallied(st) BY <1>1, <1>2, <1>3 DEF Tallied
<1>5. Rested(st) BY <1>1, <1>2 DEF Rested, Cooled
<1>6. Ordered(st.frames) /\ Latest(st.trades) BY <1>1, <1>2 DEF Ordered, Latest
<1>7. \A now : Marked(st, <<>>, now) BY <1>2 DEF Marked
<1>. QED BY <1>1, <1>2, <1>4, <1>5, <1>6, <1>7 DEF Told, st

LEMMA MarkedLater ==
  ASSUME NEW st, NEW points \in Seq(Mark), NEW now \in Nat, NEW later \in Nat, now <= later,
         Marked(st, points, now)
  PROVE  Marked(st, points, later)
<1>1. ASSUME NEW i \in DOMAIN points PROVE points[i].ts <= later
  <2>1. points[i] \in Mark BY <1>1
  <2>2. points[i].ts \in Nat BY <2>1 DEF Mark
  <2>3. points[i].ts <= now BY <1>1 DEF Marked
  <2>. QED BY <2>2, <2>3
<1>. QED BY <1>1 DEF Marked

\* A bar that arrives is later than every bar before it.
LEMMA OrderedAppend ==
  ASSUME NEW fs \in Seq(Frame), fs # <<>>, Ordered(fs), NEW frame \in Frame,
         WellFormed(frame), fs[Len(fs)].open_at < frame.open_at
  PROVE  Ordered(Append(fs, frame))
<1> DEFINE n == Len(fs)
           gs == Append(fs, frame)
<1>1. /\ n \in Nat /\ n >= 1 /\ DOMAIN fs = 1..n /\ DOMAIN gs = 1..(n + 1)
      /\ gs[n + 1] = frame /\ \A i \in 1..n : gs[i] = fs[i]
  BY EmptySeq
<1>2. ASSUME NEW i \in 1..n PROVE fs[i].open_at < frame.open_at
  <2>1. fs[i] \in Frame /\ fs[n] \in Frame BY <1>1, <1>2
  <2>2. fs[i].open_at \in Nat /\ fs[n].open_at \in Nat /\ frame.open_at \in Nat
    BY <2>1 DEF Frame
  <2>3. i = n \/ fs[i].open_at < fs[n].open_at
    <3> HIDE DEF gs, n
    <3>1. n \in DOMAIN fs /\ i \in DOMAIN fs /\ (i = n \/ i < n) BY <1>1, <1>2
    <3>. QED BY <3>1 DEF Ordered
  <2>. QED BY <2>2, <2>3
<1> HIDE DEF gs, n
<1>3. ASSUME NEW i \in 1..(n + 1), NEW j \in 1..(n + 1), i < j PROVE gs[i].open_at < gs[j].open_at
  <2>1. i \in 1..n BY <1>1, <1>3
  <2>2. CASE j = n + 1 BY <1>1, <1>2, <2>1, <2>2
  <2>3. CASE j # n + 1
    <3>1. j \in 1..n BY <1>1, <2>3
    <3>. QED BY <1>1, <1>3, <2>1, <3>1 DEF Ordered
  <2>. QED BY <2>2, <2>3
<1>4. ASSUME NEW i \in 1..(n + 1) PROVE WellFormed(gs[i])
  <2>1. CASE i = n + 1 BY <1>1, <2>1
  <2>2. CASE i # n + 1
    <3>1. i \in 1..n BY <1>1, <2>2
    <3>. QED BY <1>1, <3>1 DEF Ordered
  <2>. QED BY <2>1, <2>2
<1>. QED BY <1>1, <1>3, <1>4 DEF Ordered, gs

LEMMA ArriveTold ==
  ASSUME NEW st, Sound(st), AtRest(st), NEW points \in Seq(Mark), Quiet(st, points),
         NEW frame \in Frame, Admissible(st, frame)
  PROVE  Told(Arrive(st, frame), points, frame.open_at)
<1> DEFINE new == Arrive(st, frame)
           n == Len(st.frames)
           gs == Append(st.frames, frame)
<1>0. frame.open_at \in Nat /\ WellFormed(frame) BY DEF Frame, Admissible, WellFormed
<1>1. st.frames \in Seq(Frame) /\ n \in Nat /\ st.last_exit_index \in Nat BY SoundParts, LenNat
<1>2. /\ new.frames = gs /\ new.trades = st.trades /\ new.position = st.position
      /\ new.pending_entry = st.pending_entry /\ new.decisions = st.decisions
      /\ new.diagnostics = st.diagnostics /\ new.last_exit_index = st.last_exit_index
  BY DEF Arrive, Sound, KernelState
<1>3. Len(gs) = n + 1 /\ DOMAIN gs = 1..(n + 1) /\ gs[n + 1] = frame
        /\ \A i \in 1..n : gs[i] = st.frames[i]
  BY <1>1
<1>4. Told(st, points, frame.open_at) /\ Ordered(gs)
  <2>1. CASE st.frames = <<>>
    <3>1. st = InitialState /\ points = <<>> BY <2>1 DEF AtRest, Quiet
    <3>2. n = 0 BY <2>1
    <3> HIDE DEF gs, n
    <3>3. Ordered(gs) BY <1>0, <1>3, <3>2 DEF Ordered
    <3>. QED BY <1>0, <3>1, <3>3, InitialTold
  <2>2. CASE st.frames # <<>>
    <3>1. Told(st, points, LastClose(st)) BY <2>2 DEF Quiet
    <3>2. st.frames[n].open_at < frame.open_at BY <2>2 DEF Admissible
    <3>3. Ordered(gs) BY <1>0, <1>1, <2>2, <3>1, <3>2, OrderedAppend DEF Told
    <3>4. n # 0 BY <1>1, <2>2, EmptySeq
    <3>5. st.frames[n] \in Frame BY <1>1, <3>4
    <3>6. st.frames[n].open_at \in Nat BY <3>5 DEF Frame
    <3>7. LastClose(st) \in Nat /\ LastClose(st) <= frame.open_at
      BY <1>0, <3>2, <3>6 DEF LastClose, CloseAt
    <3>8. Marked(st, points, frame.open_at) BY <1>0, <3>1, <3>7, MarkedLater DEF Told
    <3>. QED BY <3>1, <3>3, <3>8 DEF Told
  <2>. QED BY <2>1, <2>2
<1> HIDE DEF new, gs
<1>5. Tallied(new) BY <1>2, <1>4 DEF Told, Tallied
<1>6. Rested(new)
  <2>1. st.last_exit_index <= n BY <1>4 DEF Told, Rested
  <2>2. st.last_exit_index <= n + 1 BY <1>1, <2>1
  <2>. QED BY <1>2, <1>3, <1>4, <2>2 DEF Told, Rested
<1>7. ASSUME NEW k \in DOMAIN st.trades PROVE Real(st.trades[k], gs)
  <2>1. PICK j \in DOMAIN st.frames :
          st.frames[j].open_at = Settled(st.trades[k]) /\ RealOn(st.trades[k], st.frames[j])
    BY <1>4, <1>7 DEF Told, Real
  <2>2. j \in 1..n /\ j \in 1..(n + 1) BY <1>1, <2>1
  <2>3. j \in DOMAIN gs /\ gs[j] = st.frames[j] BY <1>3, <2>2
  <2>. QED BY <2>1, <2>3 DEF Real
<1>8. Marked(new, points, frame.open_at) BY <1>2, <1>4 DEF Told, Marked
<1>. QED BY <1>2, <1>4, <1>5, <1>6, <1>7, <1>8 DEF Told, new

----------------------------------------------------------------------------
\* The cooldown after one more entry in the log: a fill of an entry does not
\* count, an exit raises the last index, a signal has waited for it.
LEMMA CooledOther ==
  ASSUME NEW log \in Seq(Decision), NEW last \in Nat, Cooled(log, last), NEW e \in Decision,
         e.kind = "entry_filled"
  PROVE  Cooled(Append(log, e), last)
<1> DEFINE n == Len(log)
           new == Append(log, e)
<1>1. /\ n \in Nat /\ DOMAIN log = 1..n /\ DOMAIN new = 1..(n + 1)
      /\ new[n + 1] = e /\ \A i \in 1..n : new[i] = log[i]
  OBVIOUS
<1>2. \A i \in 1..(n + 1) : i \in 1..n \/ i = n + 1 BY <1>1
<1> HIDE DEF new, n
<1>3. ASSUME NEW i \in 1..(n + 1), new[i].kind # "entry_filled"
      PROVE  i \in 1..n /\ new[i] = log[i]
  BY <1>1, <1>2, <1>3
<1>4. ASSUME NEW i \in 1..(n + 1), new[i].kind = "exit_filled"
      PROVE  1 <= new[i].frame_index /\ new[i].frame_index <= last
  <2>1. i \in 1..n /\ new[i] = log[i] BY <1>3, <1>4
  <2>. QED BY <1>1, <1>4, <2>1 DEF Cooled
<1>5. ASSUME NEW i \in 1..(n + 1), NEW j \in 1..(n + 1), i < j, new[i].kind = "exit_filled",
             new[j].kind = "entry_pending"
      PROVE  new[j].frame_index - new[i].frame_index >= CooldownBars
  <2>1. i \in 1..n /\ new[i] = log[i] /\ j \in 1..n /\ new[j] = log[j] BY <1>3, <1>5
  <2>. QED BY <1>1, <1>5, <2>1 DEF Cooled
<1>. QED BY <1>1, <1>4, <1>5 DEF Cooled, new

LEMMA CooledExit ==
  ASSUME NEW log \in Seq(Decision), NEW last \in Nat, Cooled(log, last), NEW e \in Decision,
         e.kind = "exit_filled", last <= e.frame_index, e.frame_index >= 1
  PROVE  Cooled(Append(log, e), e.frame_index)
<1> DEFINE n == Len(log)
           new == Append(log, e)
<1>1. /\ n \in Nat /\ DOMAIN log = 1..n /\ DOMAIN new = 1..(n + 1)
      /\ new[n + 1] = e /\ \A i \in 1..n : new[i] = log[i]
  OBVIOUS
<1>2. \A i \in 1..(n + 1) : i \in 1..n \/ i = n + 1 BY <1>1
<1> HIDE DEF new
<1>3. ASSUME NEW i \in 1..(n + 1), new[i].kind = "exit_filled"
      PROVE  1 <= new[i].frame_index /\ new[i].frame_index <= e.frame_index
  <2>0. e.frame_index \in Nat BY DEF Decision
  <2>1. CASE i = n + 1 BY <1>1, <2>0, <2>1
  <2>2. CASE i \in 1..n
    <3>1. log[i] \in Decision BY <1>1, <2>2
    <3>2. log[i].frame_index \in Nat BY <3>1 DEF Decision
    <3>3. new[i] = log[i] BY <1>1, <2>2
    <3>4. 1 <= log[i].frame_index /\ log[i].frame_index <= last
      BY <1>1, <1>3, <2>2, <3>3 DEF Cooled
    <3>. QED BY <2>0, <3>2, <3>3, <3>4
  <2>. QED BY <1>2, <2>1, <2>2
<1>4. ASSUME NEW i \in 1..(n + 1), NEW j \in 1..(n + 1), i < j, new[i].kind = "exit_filled",
             new[j].kind = "entry_pending"
      PROVE  new[j].frame_index - new[i].frame_index >= CooldownBars
  <2>1. j \in 1..n BY <1>1, <1>2, <1>4
  <2>2. i \in 1..n BY <1>1, <1>4, <2>1
  <2>3. new[i] = log[i] /\ new[j] = log[j] BY <1>1, <2>1, <2>2
  <2>. QED BY <1>1, <1>4, <2>1, <2>2, <2>3 DEF Cooled
<1> HIDE DEF n
<1>. QED BY <1>1, <1>3, <1>4 DEF Cooled, new

LEMMA CooledSignal ==
  ASSUME NEW log \in Seq(Decision), NEW last \in Nat, Cooled(log, last), NEW e \in Decision,
         e.kind = "entry_pending", last = 0 \/ e.frame_index - last >= CooldownBars
  PROVE  Cooled(Append(log, e), last)
<1> DEFINE n == Len(log)
           new == Append(log, e)
<1>0. CooldownBars \in Nat /\ e.frame_index \in Nat BY SpecAssumption DEF Decision
<1>1. /\ n \in Nat /\ DOMAIN log = 1..n /\ DOMAIN new = 1..(n + 1)
      /\ new[n + 1] = e /\ \A i \in 1..n : new[i] = log[i]
  OBVIOUS
<1>2. \A i \in 1..(n + 1) : i \in 1..n \/ i = n + 1 BY <1>1
<1> HIDE DEF new
<1>3. ASSUME NEW i \in 1..(n + 1), new[i].kind = "exit_filled"
      PROVE  /\ i \in 1..n /\ new[i] = log[i] /\ log[i].frame_index \in Nat
             /\ 1 <= new[i].frame_index /\ new[i].frame_index <= last
  <2>1. i \in 1..n /\ new[i] = log[i] BY <1>1, <1>2, <1>3
  <2>2. log[i] \in Decision BY <1>1, <2>1
  <2>3. log[i].frame_index \in Nat BY <2>2 DEF Decision
  <2>. QED BY <1>1, <1>3, <2>1, <2>3 DEF Cooled
<1>4. ASSUME NEW i \in 1..(n + 1), NEW j \in 1..(n + 1), i < j, new[i].kind = "exit_filled",
             new[j].kind = "entry_pending"
      PROVE  new[j].frame_index - new[i].frame_index >= CooldownBars
  <2>1. CASE j = n + 1
    <3>1. new[j] = e BY <1>1, <2>1
    <3>2. /\ new[i].frame_index \in Nat
          /\ 1 <= new[i].frame_index /\ new[i].frame_index <= last
      BY <1>3, <1>4
    <3>3. last # 0 BY <3>2
    <3>4. e.frame_index - last >= CooldownBars BY <3>3
    <3>. QED BY <1>0, <3>1, <3>2, <3>4
  <2>2. CASE j \in 1..n
    <3>1. i \in 1..n /\ new[i] = log[i] /\ new[j] = log[j] BY <1>1, <1>3, <1>4, <2>2
    <3>. QED BY <1>1, <1>4, <2>2, <3>1 DEF Cooled
  <2>. QED BY <1>2, <2>1, <2>2
<1> HIDE DEF n
<1>. QED BY <1>1, <1>3, <1>4 DEF Cooled, new

----------------------------------------------------------------------------
\* An order is filled or rejected, once; a filled one has held for one bar.
LEMMA OpenPendingTold ==
  ASSUME NEW st, Sound(st), NEW points, NEW now, Told(st, points, now),
         NEW frame \in Frame, NEW index \in Nat
  PROVE  LET new == OpenPending(st, frame, index)
         IN /\ Told(new, points, now)
            /\ \/ new = st /\ ~IsSome(st.pending_entry)
               \/ IsSome(st.pending_entry) /\ ~IsSome(new.position)
               \/ /\ IsSome(st.pending_entry)
                  /\ The(new.position).bars_held = 1
                  /\ The(new.position).opened_at = frame.open_at
<1> DEFINE price == frame.open
           stop == StopLoss(The(st.pending_entry), price)
           take == TakeProfit(The(st.pending_entry), price, stop)
           new == OpenPending(st, frame, index)
<1>0. /\ st \in KernelState /\ st.decisions \in Seq(Decision)
      /\ st.diagnostics \in Seq(Diagnostic) /\ st.trades \in Seq(Trade)
  BY SoundParts DEF Sound
<1>1. CASE ~IsSome(st.pending_entry) BY <1>1 DEF OpenPending
<1>2. ASSUME IsSome(st.pending_entry)
      PROVE  /\ st.position = <<>> /\ Len(st.position) = 0 /\ Len(st.pending_entry) = 1
  <2>1. st.position = <<>> /\ st.pending_entry \in Seq(Pending) BY <1>2, SoundParts
  <2>2. /\ Len(st.pending_entry) \in Nat /\ Len(st.position) = 0
        /\ Len(st.pending_entry) + Len(st.position) <= 1
    BY <2>1 DEF Sound
  <2>3. Len(st.pending_entry) # 0 BY <1>2, <2>1, EmptySeq DEF IsSome
  <2>4. ASSUME NEW m \in Nat, m # 0, m + 0 <= 1 PROVE m = 1 BY <2>4
  <2>. QED BY <2>1, <2>2, <2>3, <2>4
<1>3. ASSUME NEW b, IsSome(st.pending_entry), b.trades = st.trades, Marked(st, points, now)
      PROVE  Marked(b, points, now)
  BY <1>2, <1>3 DEF Marked, IsSome
<1>4. CASE IsSome(st.pending_entry) /\ OrderRejected(st.equity, price, stop, take)
  <2> DEFINE note == [frame_index |-> index, kind |-> "order_rejected"]
             notes == Append(st.diagnostics, note)
  <2>1. new = [st EXCEPT !.pending_entry = <<>>, !.diagnostics = notes]
    BY <1>4 DEF OpenPending
  <2>2. Len(notes) = Len(st.diagnostics) + 1 /\ Len(st.diagnostics) \in Nat BY <1>0
  <2> HIDE DEF new, notes, price, stop, take
  <2>3. /\ new.frames = st.frames /\ new.trades = st.trades /\ new.decisions = st.decisions
        /\ new.diagnostics = notes /\ new.last_exit_index = st.last_exit_index
        /\ new.pending_entry = <<>> /\ new.position = <<>>
    BY <1>0, <1>2, <1>4, <2>1 DEF KernelState
  <2>4. Len(<<>>) = 0 OBVIOUS
  <2>5. Tallied(new)
    <3> DEFINE a == Count(st.decisions, "entry_pending")
               b == Count(st.decisions, "entry_filled")
    <3>1. a = b + Len(st.diagnostics) + 1 BY <1>2, <1>4 DEF Told, Tallied
    <3>2. b \in Nat
      <4>1. [frame_index |-> 0, kind |-> "entry_filled"] \in Decision BY DEF Decision
      <4>. QED BY <1>0, <4>1, CountAppend
    <3> HIDE DEF a, b
    <3>3. a = b + Len(notes) + 0 BY <2>2, <3>1, <3>2
    <3>. QED BY <1>2, <1>4, <2>3, <2>4, <3>3 DEF Told, Tallied, a, b
  <2>6. Marked(new, points, now) BY <1>3, <1>4, <2>3 DEF Told
  <2>7. Rested(new) BY <2>3 DEF Told, Rested
  <2>. QED BY <1>4, <2>3, <2>5, <2>6, <2>7 DEF Told, IsSome, new
<1>5. CASE IsSome(st.pending_entry) /\ ~OrderRejected(st.equity, price, stop, take)
  <2> DEFINE pos == [qty |-> Quantity(st.equity, price, stop), entry_price |-> price,
                     opened_at |-> frame.open_at, stop_loss |-> stop, take_profit |-> take,
                     bars_held |-> 1, pending_signal_exit |-> FALSE]
             fill == [frame_index |-> index, kind |-> "entry_filled"]
             log == Append(st.decisions, fill)
  <2>1. new = [st EXCEPT !.pending_entry = <<>>, !.position = <<pos>>, !.decisions = log]
    BY <1>5 DEF OpenPending
  <2>2. pos.bars_held = 1 /\ pos.opened_at = frame.open_at OBVIOUS
  <2>3. fill \in Decision /\ fill.kind = "entry_filled" BY DEF Decision
  <2> HIDE DEF new, pos, fill, price, stop, take
  <2>4. /\ new.frames = st.frames /\ new.trades = st.trades /\ new.decisions = log
        /\ new.diagnostics = st.diagnostics /\ new.last_exit_index = st.last_exit_index
        /\ new.pending_entry = <<>> /\ new.position = <<pos>>
    BY <1>0, <2>1 DEF KernelState
  <2>5. Len(<<>>) = 0 /\ Len(<<pos>>) = 1 /\ <<pos>> # <<>> /\ The(<<pos>>) = pos BY DEF The
  <2>6. /\ Count(log, "entry_pending") = Count(st.decisions, "entry_pending")
        /\ Count(log, "entry_filled") = Count(st.decisions, "entry_filled") + 1
        /\ Count(log, "exit_filled") = Count(st.decisions, "exit_filled")
        /\ Count(st.decisions, "entry_filled") \in Nat /\ Count(st.decisions, "exit_filled") \in Nat
    BY <1>0, <2>3, CountAppend
  <2>7. Tallied(new)
    <3> DEFINE a == Count(st.decisions, "entry_pending")
               b == Count(st.decisions, "entry_filled")
               c == Count(st.decisions, "exit_filled")
               d == Len(st.diagnostics)
    <3>1. a = b + d + 1 /\ b = c + 0 BY <1>2, <1>5 DEF Told, Tallied
    <3>2. b \in Nat /\ c \in Nat /\ d \in Nat BY <1>0, <2>6
    <3>3. c = Len(st.trades) BY DEF Told, Tallied
    <3>4. Count(new.decisions, "entry_pending") = a /\ Count(new.decisions, "entry_filled") = b + 1
            /\ Count(new.decisions, "exit_filled") = c
      BY <2>4, <2>6
    <3> HIDE DEF a, b, c, d
    <3>5. a = (b + 1) + d + 0 /\ b + 1 = c + 1 BY <3>1, <3>2
    <3>. QED BY <2>4, <2>5, <3>3, <3>4, <3>5 DEF Tallied, d
  <2>8. Cooled(log, st.last_exit_index)
    <3>1. Cooled(st.decisions, st.last_exit_index) BY DEF Told, Rested
    <3>2. st.last_exit_index \in Nat BY SoundParts
    <3>. QED BY <1>0, <2>3, <3>1, <3>2, CooledOther
  <2>9. Rested(new) BY <2>4, <2>8 DEF Told, Rested
  <2>10. Marked(new, points, now) BY <1>3, <1>5, <2>4 DEF Told
  <2>. QED BY <1>5, <2>2, <2>4, <2>5, <2>7, <2>9, <2>10 DEF Told, new
<1>. QED BY <1>1, <1>4, <1>5

\* Counting a bar and noting the exit signal touch the position alone.
LEMMA RepositionLog ==
  ASSUME NEW st, Sound(st), IsSome(st.position), NEW pos
  PROVE  SameLog(st, [st EXCEPT !.position = <<pos>>])
<1> DEFINE new == [st EXCEPT !.position = <<pos>>]
<1>1. /\ new.frames = st.frames /\ new.trades = st.trades /\ new.decisions = st.decisions
      /\ new.diagnostics = st.diagnostics /\ new.last_exit_index = st.last_exit_index
      /\ new.pending_entry = st.pending_entry /\ new.position = <<pos>>
  BY DEF Sound, KernelState
<1>2. Len(st.position) = 1 /\ Len(<<pos>>) = 1 /\ <<pos>> # <<>> BY SoundParts
<1> HIDE DEF new
<1>3. SameLog(st, new) BY <1>1, <1>2 DEF SameLog, IsSome
<1>. QED BY <1>3 DEF new

LEMMA CountHeldBarTold ==
  ASSUME NEW st, Sound(st), NEW held \in BOOLEAN, NEW points, NEW now, Told(st, points, now)
  PROVE  Told(CountHeldBar(st, held), points, now)
<1>1. CASE ~(held /\ IsSome(st.position)) BY <1>1 DEF CountHeldBar
<1>2. CASE held /\ IsSome(st.position)
  <2> DEFINE pos == [The(st.position) EXCEPT !.bars_held = @ + 1]
  <2>1. CountHeldBar(st, held) = [st EXCEPT !.position = <<pos>>] BY <1>2 DEF CountHeldBar
  <2> HIDE DEF pos
  <2>2. SameLog(st, [st EXCEPT !.position = <<pos>>]) BY <1>2, RepositionLog
  <2>3. SameLog(st, CountHeldBar(st, held)) BY <2>1, <2>2
  <2>. QED BY <2>3, SameTold
<1>. QED BY <1>1, <1>2

LEMMA FlagSignalExitTold ==
  ASSUME NEW st, Sound(st), NEW index, NEW points, NEW now, Told(st, points, now)
  PROVE  Told(FlagSignalExit(st, index), points, now)
<1>1. CASE ~IsSome(st.position) BY <1>1 DEF FlagSignalExit
<1>2. CASE IsSome(st.position)
  <2> DEFINE pos == [The(st.position) EXCEPT
                       !.pending_signal_exit = Holds(SignalExit, st.frames, index)]
  <2>1. FlagSignalExit(st, index) = [st EXCEPT !.position = <<pos>>]
    BY <1>2 DEF FlagSignalExit
  <2> HIDE DEF pos
  <2>2. SameLog(st, FlagSignalExit(st, index)) BY <1>2, <2>1, RepositionLog
  <2>. QED BY <2>2, SameTold
<1>. QED BY <1>1, <1>2

\* One more bar of a position that was held before the bar, or the first bar of
\* one that was just filled: no level was touched before this bar, and the flag
\* tells whether the exit signal was seen.
LEMMA HeldAfterCount ==
  ASSUME NEW pos \in Position, NEW fs \in Seq(Frame), NEW frame \in Frame,
         Survives(pos, fs, Len(fs))
  PROVE  Held([pos EXCEPT !.bars_held = @ + 1], Append(fs, frame), Len(fs) + 1)
<1> DEFINE n == Len(fs)
           gs == Append(fs, frame)
           new == [pos EXCEPT !.bars_held = @ + 1]
           b == pos.bars_held
<1>1. n \in Nat /\ b \in Nat \ {0} /\ TimeExitBars \in Nat BY SpecAssumption DEF Position
<1>2. \A i \in 1..n : gs[i] = fs[i] OBVIOUS
<1>3. /\ new.bars_held = b + 1 /\ new.opened_at = pos.opened_at
      /\ new.stop_loss = pos.stop_loss /\ new.take_profit = pos.take_profit
      /\ new.pending_signal_exit = pos.pending_signal_exit
  BY DEF Position
<1>4. ASSUME NEW c, NEW i \in 1..n PROVE Holds(c, gs, i) = Holds(c, fs, i)
  BY <1>4, HoldsOfPrefix
<1> HIDE DEF n, gs, new, b
<1>5. (n + 1) - (b + 1) + 1 = n - b + 1 BY <1>1
<1>6. n - b + 1 >= 1 /\ fs[n - b + 1].open_at = pos.opened_at
  BY DEF Survives, Entered, n, b
<1>7. n - b + 1 \in 1..n BY <1>1, <1>6
<1>8. (n + 1) - 1 = n BY <1>1
<1>10. Entered(new, gs, n + 1)
  <2>1. (n + 1) - new.bars_held + 1 = n - b + 1 BY <1>3, <1>5
  <2>2. gs[n - b + 1] = fs[n - b + 1] BY <1>2, <1>7
  <2>3. (n + 1) - new.bars_held + 1 >= 1 BY <1>6, <2>1
  <2>4. gs[(n + 1) - new.bars_held + 1].open_at = new.opened_at BY <1>3, <1>6, <2>1, <2>2
  <2>. QED BY <2>3, <2>4 DEF Entered
<1>11. TimeExitBars > 0 => new.bars_held <= TimeExitBars
  <2>1. TimeExitBars > 0 => b < TimeExitBars BY DEF Survives, b
  <2>. QED BY <1>1, <1>3, <2>1
<1>12. ASSUME NEW j \in (n - b + 1)..n
       PROVE  /\ ~StopTouched(new, gs[j]) /\ ~TakeTouched(new, gs[j])
              /\ Holds(SignalExit, gs, j) => new.pending_signal_exit
  <2>1. j \in 1..n BY <1>1, <1>7, <1>12
  <2>2. gs[j] = fs[j] /\ Holds(SignalExit, gs, j) = Holds(SignalExit, fs, j)
    BY <1>2, <1>4, <2>1
  <2>3. /\ ~StopTouched(pos, fs[j]) /\ ~TakeTouched(pos, fs[j])
        /\ Holds(SignalExit, fs, j) => j = n
        /\ pos.pending_signal_exit = Holds(SignalExit, fs, n)
    BY <1>12 DEF Survives, n, b
  <2>. QED BY <1>3, <2>2, <2>3 DEF StopTouched, TakeTouched
<1>13. (n + 1) - new.bars_held + 1 = n - b + 1 BY <1>3, <1>5
<1>15. ((n + 1) - new.bars_held + 1)..((n + 1) - 1) = (n - b + 1)..n BY <1>8, <1>13
<1>14. Held(new, gs, n + 1) BY <1>10, <1>11, <1>12, <1>15 DEF Held
<1>. QED BY <1>14 DEF gs, n, new

LEMMA HeldWhenFilled ==
  ASSUME NEW pos, NEW fs, NEW n \in Nat \ {0}, pos.bars_held = 1, fs[n].open_at = pos.opened_at
  PROVE  Held(pos, fs, n)
<1>1. n - 1 + 1 = n /\ n >= 1 /\ n..(n - 1) = {} OBVIOUS
<1>2. TimeExitBars \in Nat BY SpecAssumption
<1>. QED BY <1>1, <1>2 DEF Held, Entered

\* A bar on which no exit is due has touched neither level.
LEMMA SurvivesAfterFlag ==
  ASSUME NEW pos \in Position, NEW fs \in Seq(Frame), NEW n \in Nat \ {0}, n = Len(fs),
         Held(pos, fs, n), \A kind \in ExitKinds : ~ExitDue(kind, pos, fs[n])
  PROVE  Survives([pos EXCEPT !.pending_signal_exit = Holds(SignalExit, fs, n)], fs, n)
<1> DEFINE flag == Holds(SignalExit, fs, n)
           new == [pos EXCEPT !.pending_signal_exit = flag]
           b == pos.bars_held
<1>1. b \in Nat \ {0} /\ TimeExitBars \in Nat BY SpecAssumption DEF Position
<1>2. /\ new.bars_held = b /\ new.opened_at = pos.opened_at
      /\ new.stop_loss = pos.stop_loss /\ new.take_profit = pos.take_profit
      /\ new.pending_signal_exit = flag
  BY DEF Position
<1>3. {"stop_loss", "take_profit", "signal_exit", "time_exit"} \subseteq ExitKinds
  BY DEF ExitKinds
<1>4. ~StopTouched(pos, fs[n])
  <2>1. ~ExitDue("stop_loss", pos, fs[n]) BY <1>3
  <2>. QED BY <2>1 DEF ExitDue
<1>5. ~TakeTouched(pos, fs[n])
  <2>1. ~ExitDue("take_profit", pos, fs[n]) BY <1>3
  <2>. QED BY <2>1 DEF ExitDue
<1>6. ~pos.pending_signal_exit
  <2>1. ~ExitDue("signal_exit", pos, fs[n]) BY <1>3
  <2>. QED BY <2>1 DEF ExitDue
<1>7. TimeExitBars > 0 => b < TimeExitBars
  <2>1. ~ExitDue("time_exit", pos, fs[n]) BY <1>3
  <2>2. ~(TimeExitBars > 0 /\ b >= TimeExitBars) BY <2>1 DEF ExitDue
  <2>. QED BY <1>1, <2>2
<1> HIDE DEF new, flag, b
<1>8. Entered(new, fs, n) BY <1>2 DEF Held, Entered, b
<1>9. ASSUME NEW j \in (n - b + 1)..n
      PROVE  /\ ~StopTouched(new, fs[j]) /\ ~TakeTouched(new, fs[j])
             /\ Holds(SignalExit, fs, j) => j = n
  <2>1. CASE j = n BY <1>2, <1>4, <1>5, <2>1 DEF StopTouched, TakeTouched
  <2>2. CASE j # n
    <3>1. j \in (n - b + 1)..(n - 1) BY <1>1, <1>9, <2>2
    <3>2. /\ ~StopTouched(pos, fs[j]) /\ ~TakeTouched(pos, fs[j])
          /\ Holds(SignalExit, fs, j) => pos.pending_signal_exit
      BY <3>1 DEF Held, b
    <3>. QED BY <1>2, <1>6, <3>2 DEF StopTouched, TakeTouched
  <2>. QED BY <2>1, <2>2
<1>10. Survives(new, fs, n) BY <1>2, <1>7, <1>8, <1>9 DEF Survives, flag
<1>. QED BY <1>10 DEF new, flag

----------------------------------------------------------------------------
\* A trade is settled on this bar at one of its prices; the order it came from
\* is done, the cooldown starts, and the marks before it are behind it.
LEMMA CloseTold ==
  ASSUME NEW st, Sound(st), IsSome(st.position), NEW frame \in Frame, NEW index \in Nat \ {0},
         Len(st.frames) = index, st.frames[index] = frame,
         NEW kind \in ExitKinds \cup {"end_of_data"}, NEW price \in Int,
         NEW points \in Seq(Mark), NEW now \in Nat, Told(st, points, now), Timed(st, now),
         kind \in {"time_exit", "end_of_data"} => now <= CloseAt(frame),
         kind \notin {"time_exit", "end_of_data"} => now <= frame.open_at,
         frame.low <= price, price <= frame.high,
         Priority[1] = "stop_loss" /\ kind # "stop_loss" => ~StopTouched(The(st.position), frame)
  PROVE  LET new == Close(st, frame, index, kind, price)
         IN /\ Told(new, points, CloseAt(frame))
            /\ new.frames = st.frames /\ new.pending_entry = st.pending_entry
            /\ new.position = <<>>
<1> DEFINE pos == The(st.position)
           pnl == NetPnl(pos, price)
           late == kind \in {"time_exit", "end_of_data"}
           at == IF late THEN CloseAt(frame) ELSE frame.open_at
           trade == [seq |-> st.trade_seq + 1, opened_at |-> pos.opened_at, closed_at |-> at,
                     entry_price |-> pos.entry_price, exit_price |-> price, exit_kind |-> kind,
                     pnl |-> pnl, equity_after |-> st.equity + pnl,
                     stop_loss |-> pos.stop_loss, take_profit |-> pos.take_profit]
           fill == [frame_index |-> index, kind |-> "exit_filled"]
           log == Append(st.decisions, fill)
           new == Close(st, frame, index, kind, price)
           n == Len(st.trades)
<1>1. /\ st \in KernelState /\ st.trades \in Seq(Trade) /\ st.decisions \in Seq(Decision)
      /\ pos \in Position /\ Len(st.position) = 1 /\ st.last_exit_index \in Nat
      /\ st.diagnostics \in Seq(Diagnostic) /\ st.frames \in Seq(Frame)
  BY SoundParts DEF Sound
<1>2. new = [st EXCEPT !.equity = st.equity + pnl, !.trade_seq = st.trade_seq + 1,
                       !.trades = Append(st.trades, trade), !.decisions = log,
                       !.position = <<>>, !.last_exit_index = index]
  BY DEF Close
<1>3. trade.closed_at = at /\ trade.exit_price = price /\ trade.exit_kind = kind
        /\ trade.stop_loss = pos.stop_loss
  OBVIOUS
<1>4. fill \in Decision /\ fill.kind = "exit_filled" /\ fill.frame_index = index
  BY DEF Decision
<1>5. /\ at \in Nat /\ now <= at /\ at <= CloseAt(frame) /\ CloseAt(frame) \in Nat
      /\ frame.open_at \in Nat /\ CloseAt(frame) = frame.open_at + 1
      /\ frame.open_at = IF late THEN at - 1 ELSE at
  <2>1. frame.open_at \in Nat /\ CloseAt(frame) = frame.open_at + 1 BY DEF Frame, CloseAt
  <2> HIDE DEF pos, pnl, trade, log, new, n
  <2>4. CASE late
    <3>1. at = CloseAt(frame) BY <2>4
    <3>. QED BY <2>1, <2>4, <3>1
  <2>5. CASE ~late
    <3>1. at = frame.open_at BY <2>5
    <3>. QED BY <2>1, <2>5, <3>1
  <2>. QED BY <2>4, <2>5
<1> HIDE DEF pos, pnl, at, trade, fill, new
<1>6. /\ new.trades = Append(st.trades, trade) /\ new.position = <<>>
      /\ new.frames = st.frames /\ new.pending_entry = st.pending_entry
      /\ new.decisions = log /\ new.last_exit_index = index
      /\ new.diagnostics = st.diagnostics
  BY <1>1, <1>2 DEF KernelState
<1>7. /\ n \in Nat /\ Len(new.trades) = n + 1 /\ DOMAIN new.trades = 1..(n + 1)
      /\ DOMAIN st.trades = 1..n /\ new.trades[n + 1] = trade
      /\ \A k \in 1..n : new.trades[k] = st.trades[k]
  BY <1>1, <1>6
<1>8. \A k \in 1..(n + 1) : k \in 1..n \/ k = n + 1 BY <1>7
<1>9. Tallied(new)
  <2> DEFINE a == Count(st.decisions, "entry_pending")
             b == Count(st.decisions, "entry_filled")
             c == Count(st.decisions, "exit_filled")
  <2>1. /\ Count(log, "entry_pending") = a /\ Count(log, "entry_filled") = b
        /\ Count(log, "exit_filled") = c + 1 /\ b \in Nat /\ c \in Nat
    BY <1>1, <1>4, CountAppend
  <2>2. /\ a = b + Len(st.diagnostics) + Len(st.pending_entry)
        /\ b = c + 1 /\ c = n
    BY <1>1 DEF Told, Tallied
  <2>3. Len(<<>>) = 0 OBVIOUS
  <2> HIDE DEF a, b, c, n, log
  <2>4. b = (c + 1) + 0 BY <2>1, <2>2
  <2>. QED BY <1>6, <1>7, <2>1, <2>2, <2>3, <2>4 DEF Tallied
<1>10. Rested(new)
  <2>1. Cooled(st.decisions, st.last_exit_index) /\ st.last_exit_index <= index
    BY DEF Told, Rested
  <2>2. index >= 1 /\ index <= index OBVIOUS
  <2>3. Cooled(log, index) BY <1>1, <1>4, <2>1, <2>2, CooledExit
  <2>. QED BY <1>6, <2>2, <2>3 DEF Rested
<1>11. Real(trade, st.frames)
  <2>1. Settled(trade) = frame.open_at BY <1>3, <1>5 DEF Settled
  <2>2. RealOn(trade, frame)
    <3>1. StopTouched(trade, frame) = StopTouched(pos, frame) BY <1>3 DEF StopTouched
    <3>. QED BY <1>3, <3>1 DEF RealOn, pos
  <2>3. index \in DOMAIN st.frames BY <1>1
  <2>. QED BY <2>1, <2>2, <2>3 DEF Real
<1>12. \A k \in DOMAIN new.trades : Real(new.trades[k], new.frames)
  BY <1>6, <1>7, <1>8, <1>11 DEF Told
<1> HIDE DEF log, n
<1>13. Latest(new.trades)
  <2>1. ASSUME NEW k \in 1..n PROVE new.trades[k].closed_at <= at
    <3>1. st.trades[k] \in Trade BY <1>1, <1>7, <2>1
    <3>2. st.trades[k].closed_at \in Nat BY <3>1 DEF Trade
    <3>3. st.trades[k].closed_at <= now BY <1>7, <2>1 DEF Timed
    <3>4. new.trades[k] = st.trades[k] BY <1>7, <2>1
    <3>. QED BY <1>5, <3>2, <3>3, <3>4
  <2>2. new.trades[n + 1].closed_at = at /\ at <= at BY <1>3, <1>5, <1>7
  <2>. QED BY <1>7, <1>8, <2>1, <2>2 DEF Latest
<1>14. Marked(new, points, CloseAt(frame))
  <2>1. Marked(st, points, now) BY DEF Told
  <2>2. n + 1 \in DOMAIN new.trades /\ new.trades[n + 1].closed_at = at BY <1>3, <1>7
  <2>3. ASSUME NEW i \in DOMAIN points PROVE points[i].ts <= at /\ points[i].ts <= CloseAt(frame)
    <3>0. points[i] \in Mark BY <2>3
    <3>1. points[i].ts \in Nat BY <3>0 DEF Mark
    <3>2. points[i].ts <= now BY <2>1, <2>3 DEF Marked
    <3>. QED BY <1>5, <3>1, <3>2
  <2>. QED BY <2>2, <2>3 DEF Marked
<1>. QED BY <1>6, <1>9, <1>10, <1>12, <1>13, <1>14 DEF Told, new

\* Every due exit is at a price of its bar: at the open when the bar opens beyond
\* the level, else at the level, which the bar then reaches.
LEMMA DuePriceOnBar ==
  ASSUME NEW pos \in Position, NEW frame \in Frame, WellFormed(frame), NEW kind \in ExitKinds,
         ExitDue(kind, pos, frame)
  PROVE  frame.low <= ExitPrice(kind, pos, frame) /\ ExitPrice(kind, pos, frame) <= frame.high
<1>1. /\ frame.open \in Nat /\ frame.close \in Nat /\ frame.low \in Nat /\ frame.high \in Nat
      /\ frame.low <= frame.open /\ frame.open <= frame.high
      /\ frame.low <= frame.close /\ frame.close <= frame.high
  BY DEF Frame, WellFormed
<1>2. CASE kind = "stop_loss"
  <2>1. CASE StopGapped(pos, frame) BY <1>1, <1>2, <2>1 DEF ExitPrice
  <2>2. CASE ~StopGapped(pos, frame)
    <3>1. StopTouched(pos, frame) BY <1>2, <2>2 DEF ExitDue
    <3>2. pos.stop_loss # None BY <3>1 DEF StopTouched
    <3>3. pos.stop_loss \in Int BY <3>2 DEF Position
    <3>4. ExitPrice(kind, pos, frame) = pos.stop_loss BY <1>2, <2>2 DEF ExitPrice
    <3>5. CASE Side = "long"
      <4>1. frame.low <= pos.stop_loss /\ ~(frame.open <= pos.stop_loss)
        BY <2>2, <3>1, <3>2, <3>5 DEF StopTouched, StopGapped
      <4>. QED BY <1>1, <3>3, <3>4, <4>1
    <3>6. CASE Side # "long"
      <4>1. frame.high >= pos.stop_loss /\ ~(frame.open >= pos.stop_loss)
        BY <2>2, <3>1, <3>2, <3>6 DEF StopTouched, StopGapped
      <4>. QED BY <1>1, <3>3, <3>4, <4>1
    <3>. QED BY <3>5, <3>6
  <2>. QED BY <2>1, <2>2
<1>3. CASE kind = "take_profit"
  <2>1. CASE TakeGapped(pos, frame) BY <1>1, <1>3, <2>1 DEF ExitPrice
  <2>2. CASE ~TakeGapped(pos, frame)
    <3>1. TakeTouched(pos, frame) BY <1>3, <2>2 DEF ExitDue
    <3>2. pos.take_profit # None BY <3>1 DEF TakeTouched
    <3>3. pos.take_profit \in Int BY <3>2 DEF Position
    <3>4. ExitPrice(kind, pos, frame) = pos.take_profit BY <1>3, <2>2 DEF ExitPrice
    <3>5. CASE Side = "long"
      <4>1. frame.high >= pos.take_profit /\ ~(frame.open >= pos.take_profit)
        BY <2>2, <3>1, <3>2, <3>5 DEF TakeTouched, TakeGapped
      <4>. QED BY <1>1, <3>3, <3>4, <4>1
    <3>6. CASE Side # "long"
      <4>1. frame.low <= pos.take_profit /\ ~(frame.open <= pos.take_profit)
        BY <2>2, <3>1, <3>2, <3>6 DEF TakeTouched, TakeGapped
      <4>. QED BY <1>1, <3>3, <3>4, <4>1
    <3>. QED BY <3>5, <3>6
  <2>. QED BY <2>1, <2>2
<1>4. CASE kind = "signal_exit" BY <1>1, <1>4 DEF ExitPrice
<1>5. CASE kind = "time_exit" BY <1>1, <1>5 DEF ExitPrice
<1>. QED BY <1>2, <1>3, <1>4, <1>5 DEF ExitKinds

LEMMA TakeExitTold ==
  ASSUME NEW st, Sound(st), NEW frame \in Frame, NEW index \in Nat \ {0},
         Len(st.frames) = index, st.frames[index] = frame,
         NEW points \in Seq(Mark), Told(st, points, frame.open_at), Timed(st, frame.open_at)
  PROVE  LET new == TakeExit(st, frame, index)
         IN /\ Told(new, points, CloseAt(frame))
            /\ IsSome(new.position) =>
                 /\ new = st
                 /\ \A kind \in ExitKinds : ~ExitDue(kind, The(st.position), frame)
<1> DEFINE new == TakeExit(st, frame, index)
<1>0. /\ frame.open_at \in Nat /\ CloseAt(frame) \in Nat /\ frame.open_at <= CloseAt(frame)
  BY DEF Frame, CloseAt
<1>1. CASE /\ new = st
           /\ IsSome(st.position) =>
                \A kind \in ExitKinds : ~ExitDue(kind, The(st.position), frame)
  <2>1. Marked(st, points, CloseAt(frame)) BY <1>0, MarkedLater DEF Told
  <2>. QED BY <1>1, <2>1 DEF Told
<1>2. ASSUME IsSome(st.position), NEW kind \in ExitKinds,
             ExitDue(kind, The(st.position), frame),
             ExitDue(Priority[1], The(st.position), frame) => kind = Priority[1],
             new = Close(st, frame, index, kind, ExitPrice(kind, The(st.position), frame))
      PROVE  Told(new, points, CloseAt(frame)) /\ ~IsSome(new.position)
  <2> DEFINE price == ExitPrice(kind, The(st.position), frame)
             closed == Close(st, frame, index, kind, price)
  <2>1. The(st.position) \in Position BY <1>2, SoundParts
  <2>2. price \in Int BY <1>2, <2>1, ExitPriceInt
  <2>3. st.frames \in Seq(Frame) /\ index \in DOMAIN st.frames
    <3>1. st.frames \in Seq(Frame) BY SoundParts
    <3>. QED BY <3>1
  <2>4. WellFormed(frame) BY <2>3 DEF Told, Ordered
  <2>5. frame.low <= price /\ price <= frame.high BY <1>2, <2>1, <2>4, DuePriceOnBar
  <2>6. Priority[1] = "stop_loss" /\ kind # "stop_loss" => ~StopTouched(The(st.position), frame)
    BY <1>2 DEF ExitDue
  <2>7. kind \in ExitKinds \cup {"end_of_data"} OBVIOUS
  <2> HIDE DEF price
  <2>8. Told(closed, points, CloseAt(frame)) /\ closed.position = <<>>
    BY <1>0, <1>2, <2>2, <2>5, <2>6, <2>7, CloseTold
  <2>. QED BY <1>2, <2>8 DEF price, IsSome
<1>. QED BY <1>1, <1>2, TakeExitCases

LEMMA SignalEntryTold ==
  ASSUME NEW st, Sound(st), NEW frame \in Frame, NEW index \in Nat \ {0},
         NEW points, NEW now, Told(st, points, now)
  PROVE  LET new == SignalEntry(st, frame, index)
         IN Told(new, points, now) /\ new.frames = st.frames /\ new.position = st.position
<1> DEFINE go == /\ ~IsSome(st.position) /\ ~IsSome(st.pending_entry)
                 /\ Eligible(st, index)
                 /\ Holds(EntryCondition, st.frames, index)
           order == [signal_index |-> index, stop_value |-> StopValue(frame),
                     take_value |-> TakeValue(frame)]
           note == [frame_index |-> index, kind |-> "entry_pending"]
           log == Append(st.decisions, note)
           new == SignalEntry(st, frame, index)
<1>1. CASE ~go BY <1>1 DEF SignalEntry
<1>2. CASE go
  <2>1. new = [st EXCEPT !.pending_entry = <<order>>, !.decisions = log]
    BY <1>2 DEF SignalEntry
  <2>2. /\ note \in Decision /\ note.kind = "entry_pending" /\ note.frame_index = index
    BY DEF Decision
  <2>3. st.pending_entry = <<>> /\ Eligible(st, index) BY <1>2 DEF IsSome
  <2>4. /\ st.decisions \in Seq(Decision) /\ st.last_exit_index \in Nat
        /\ st.diagnostics \in Seq(Diagnostic)
    BY SoundParts
  <2> HIDE DEF order, note, go, new
  <2>5. /\ new.frames = st.frames /\ new.trades = st.trades /\ new.decisions = log
        /\ new.diagnostics = st.diagnostics /\ new.last_exit_index = st.last_exit_index
        /\ new.pending_entry = <<order>> /\ new.position = st.position
    BY <2>1 DEF Sound, KernelState
  <2>6. Tallied(new)
    <3> DEFINE a == Count(st.decisions, "entry_pending")
               b == Count(st.decisions, "entry_filled")
               c == Count(st.decisions, "exit_filled")
               d == Len(st.diagnostics)
    <3>1. /\ Count(log, "entry_pending") = a + 1 /\ Count(log, "entry_filled") = b
          /\ Count(log, "exit_filled") = c /\ b \in Nat /\ d \in Nat
      BY <2>2, <2>4, CountAppend
    <3>2. Len(<<>>) = 0 /\ Len(<<order>>) = 1 OBVIOUS
    <3>3. a = b + d + 0 /\ b = c + Len(st.position) /\ c = Len(st.trades)
      BY <2>3, <3>2 DEF Told, Tallied
    <3> HIDE DEF a, b, c, d, log
    <3>4. a + 1 = b + d + 1 BY <3>1, <3>3
    <3>. QED BY <2>5, <3>1, <3>2, <3>3, <3>4 DEF Tallied, d
  <2>7. Rested(new)
    <3>1. Cooled(st.decisions, st.last_exit_index) /\ st.last_exit_index <= Len(st.frames)
      BY DEF Told, Rested
    <3>2. st.last_exit_index = 0 \/ index - st.last_exit_index >= CooldownBars
      BY <2>3 DEF Eligible
    <3>3. Cooled(log, st.last_exit_index) BY <2>2, <2>4, <3>1, <3>2, CooledSignal
    <3>. QED BY <2>5, <3>1, <3>3 DEF Rested
  <2>8. Marked(new, points, now) BY <2>5 DEF Told, Marked
  <2>. QED BY <2>5, <2>6, <2>7, <2>8 DEF Told, new
<1>. QED BY <1>1, <1>2

\* The bars of a replay in order: before the window opens nothing is held.
LEMMA HeldInWindow ==
  ASSUME NEW st, Sound(st), Ordered(st.frames), FillsReal(st), IsSome(st.position)
  PROVE  /\ st.frames # <<>>
         /\ ExecutionStart < st.frames[Len(st.frames)].open_at
<1>1. st.frames \in Seq(Frame) BY SoundParts
<1>2. PICK j \in 2..Len(st.frames) : st.frames[j - 1].open_at >= ExecutionStart
  BY DEF FillsReal, Filled
<1> DEFINE n == Len(st.frames)
<1>3. n \in Nat /\ n \in DOMAIN st.frames /\ j - 1 \in DOMAIN st.frames /\ j - 1 < n BY <1>1, <1>2
<1>4. st.frames[n] \in Frame /\ st.frames[j - 1] \in Frame BY <1>1, <1>3
<1>5. /\ st.frames[n].open_at \in Nat /\ st.frames[j - 1].open_at \in Nat
      /\ ExecutionStart \in Nat
  BY <1>4, RunAssumption DEF Frame
<1>6. st.frames[j - 1].open_at < st.frames[n].open_at BY <1>3 DEF Ordered
<1>7. st.frames # <<>> BY <1>3
<1>. QED BY <1>2, <1>5, <1>6, <1>7

MarksAfter(new, points, frame) ==
  IF IsSome(new.position) THEN Append(points, MarkPoint(new, frame)) ELSE points

\* One evaluated frame and the mark it leaves, from quiet to quiet.
LEMMA EvaluateQuiet ==
  ASSUME NEW st, Sound(st), AtRest(st), NEW points \in Seq(Mark), Quiet(st, points),
         NEW frame \in Frame, Admissible(st, frame)
  PROVE  Quiet(Evaluate(st, frame), MarksAfter(Evaluate(st, frame), points, frame))
<1> DEFINE index == Len(st.frames) + 1
           arrived == Arrive(st, frame)
           opened == OpenPending(arrived, frame, index)
           counted == CountHeldBar(opened, IsSome(st.position))
           exited == TakeExit(counted, frame, index)
           flagged == FlagSignalExit(exited, index)
           signalled == SignalEntry(flagged, frame, index)
           fs == Append(st.frames, frame)
           open == frame.open_at
<1>1. st.frames \in Seq(Frame) /\ Len(st.frames) \in Nat BY SoundParts, LenNat
<1>2. /\ index \in Nat /\ index \in Nat \ {0} /\ index >= 1 /\ index - 1 = Len(st.frames)
      /\ fs # <<>> /\ Len(fs) = index /\ fs[index] = frame /\ fs \in Seq(Frame)
  BY <1>1
<1>3. Sound(arrived) /\ arrived.frames = fs BY ArriveSound
<1>4. Kept(arrived, open) /\ SignalledOn(arrived, index - 1) BY <1>2, ArriveKeeps
<1>5. Told(arrived, points, open) BY ArriveTold
<1>6. IsSome(st.position) \in BOOLEAN BY DEF IsSome
<1>7. Evaluate(st, frame) = IF open < ExecutionStart THEN arrived ELSE signalled
  BY DEF Evaluate
<1>8. open \in Nat /\ ExecutionStart \in Nat /\ CloseAt(frame) \in Nat /\ open <= CloseAt(frame)
  BY RunAssumption DEF Frame, CloseAt
<1>9. arrived.position = st.position /\ arrived.pending_entry = st.pending_entry
  BY DEF Arrive, Sound, KernelState
<1>s. IsSome(st.position) => Survives(The(st.position), st.frames, Len(st.frames)) BY DEF Quiet
<1> HIDE DEF index, arrived, fs, open
<1>10. /\ Sound(opened) /\ Kept(opened, open) /\ opened.frames = fs /\ ~IsSome(opened.pending_entry)
  BY <1>2, <1>3, <1>4, OpenPendingSound, OpenPendingKeeps DEF open
<1>11. /\ Told(opened, points, open)
       /\ \/ opened = arrived /\ ~IsSome(arrived.pending_entry)
          \/ IsSome(arrived.pending_entry) /\ ~IsSome(opened.position)
          \/ /\ IsSome(arrived.pending_entry)
             /\ The(opened.position).bars_held = 1
             /\ The(opened.position).opened_at = open
  BY <1>2, <1>3, <1>5, OpenPendingTold DEF open
<1> HIDE DEF opened
<1>12. /\ Sound(counted) /\ Kept(counted, open) /\ counted.frames = fs
       /\ ~IsSome(counted.pending_entry)
  BY <1>6, <1>10, CountHeldBarSound, CountHeldBarKeeps
<1>13. Told(counted, points, open) BY <1>6, <1>10, <1>11, CountHeldBarTold
<1>14. IsSome(counted.position) => Held(The(counted.position), fs, index)
  <2>1. CASE IsSome(st.position)
    <3> DEFINE pos == [The(st.position) EXCEPT !.bars_held = @ + 1]
    <3>1. st.pending_entry = <<>> /\ The(st.position) \in Position BY <2>1, SoundParts
    <3>2. opened = arrived BY <1>9, <1>11, <3>1 DEF IsSome
    <3>3. counted = [arrived EXCEPT !.position = <<pos>>]
      BY <1>9, <2>1, <3>2 DEF CountHeldBar
    <3>4. Held(pos, fs, index) BY <1>1, <1>s, <2>1, <3>1, HeldAfterCount DEF fs, index
    <3> HIDE DEF pos, counted
    <3>5. counted.position = <<pos>> BY <1>3, <3>3 DEF Sound, KernelState
    <3>6. The(<<pos>>) = pos BY DEF The
    <3>. QED BY <3>4, <3>5, <3>6
  <2>2. CASE ~IsSome(st.position)
    <3>1. counted = opened BY <2>2 DEF CountHeldBar
    <3>2. ASSUME IsSome(opened.position)
          PROVE  /\ The(opened.position).bars_held = 1
                 /\ The(opened.position).opened_at = open
      BY <1>9, <1>11, <2>2, <3>2
    <3>3. fs[index].open_at = open BY <1>2 DEF open
    <3> HIDE DEF counted
    <3>. QED BY <1>2, <3>1, <3>2, <3>3, HeldWhenFilled
  <2>. QED BY <2>1, <2>2
<1> HIDE DEF counted
<1>15. /\ Sound(exited) /\ Kept(exited, CloseAt(frame)) /\ exited.frames = fs
       /\ ~IsSome(exited.pending_entry)
  BY <1>2, <1>12, TakeExitSound, TakeExitKeeps DEF open
<1>16. /\ Told(exited, points, CloseAt(frame))
       /\ IsSome(exited.position) =>
            /\ exited = counted
            /\ \A kind \in ExitKinds : ~ExitDue(kind, The(counted.position), frame)
  <2>1. Timed(counted, open) BY <1>12 DEF Kept
  <2>. QED BY <1>2, <1>12, <1>13, <2>1, TakeExitTold DEF open
<1> HIDE DEF exited
<1>17. /\ Sound(flagged) /\ Kept(flagged, CloseAt(frame)) /\ flagged.frames = fs
  BY <1>15, FlagSignalExitSound, FlagSignalExitKeeps
<1>18. Told(flagged, points, CloseAt(frame)) BY <1>15, <1>16, FlagSignalExitTold
<1>19. IsSome(flagged.position) => Survives(The(flagged.position), fs, index)
  <2>1. CASE ~IsSome(exited.position) BY <2>1 DEF FlagSignalExit
  <2>2. CASE IsSome(exited.position)
    <3> DEFINE flag == Holds(SignalExit, fs, index)
               pos == [The(exited.position) EXCEPT !.pending_signal_exit = flag]
    <3>1. flagged = [exited EXCEPT !.position = <<pos>>] BY <1>15, <2>2 DEF FlagSignalExit
    <3>2. The(exited.position) \in Position BY <1>15, <2>2, SoundParts
    <3>3. Held(The(exited.position), fs, index) BY <1>14, <1>16, <2>2
    <3>4. \A kind \in ExitKinds : ~ExitDue(kind, The(exited.position), fs[index])
      BY <1>2, <1>16, <2>2
    <3>5. Survives(pos, fs, index) BY <1>2, <3>2, <3>3, <3>4, SurvivesAfterFlag
    <3> HIDE DEF pos, flagged
    <3>6. flagged.position = <<pos>> BY <1>15, <3>1 DEF Sound, KernelState
    <3>7. The(<<pos>>) = pos BY DEF The
    <3>. QED BY <3>5, <3>6, <3>7
  <2>. QED BY <2>1, <2>2
<1> HIDE DEF flagged
<1>20. CASE open < ExecutionStart
  <2>1. Evaluate(st, frame) = arrived BY <1>7, <1>20
  <2>2. ~IsSome(arrived.position)
    <3>1. SUFFICES ASSUME IsSome(arrived.position) PROVE FALSE OBVIOUS
    <3>2. ExecutionStart < fs[index].open_at
      BY <1>2, <1>3, <1>4, <1>5, <3>1, HeldInWindow DEF Told, Kept
    <3>. QED BY <1>2, <1>8, <1>20, <3>2 DEF open
  <2>3. LastClose(arrived) = CloseAt(frame) BY <1>2, <1>3 DEF LastClose
  <2>4. Told(arrived, points, CloseAt(frame))
    <3>1. Marked(arrived, points, CloseAt(frame)) BY <1>5, <1>8, MarkedLater DEF Told
    <3>. QED BY <1>5, <3>1 DEF Told
  <2>. QED BY <1>2, <1>3, <2>1, <2>2, <2>3, <2>4 DEF Quiet, MarksAfter
<1>21. CASE ~(open < ExecutionStart)
  <2>1. Evaluate(st, frame) = signalled BY <1>7, <1>21
  <2>2. /\ Told(signalled, points, CloseAt(frame)) /\ signalled.frames = fs
        /\ signalled.position = flagged.position
    BY <1>2, <1>17, <1>18, SignalEntryTold
  <2> HIDE DEF signalled
  <2>3. LastClose(signalled) = CloseAt(frame) BY <1>2, <2>2 DEF LastClose
  <2>4. Told(signalled, MarksAfter(signalled, points, frame), CloseAt(frame))
    <3>1. CASE ~IsSome(signalled.position) BY <2>2, <3>1 DEF MarksAfter
    <3>2. CASE IsSome(signalled.position)
      <4> DEFINE point == MarkPoint(signalled, frame)
      <4>1. point.ts = CloseAt(frame) BY DEF MarkPoint
      <4> HIDE DEF point
      <4>2. \A i \in DOMAIN Append(points, point) :
              (i \in DOMAIN points /\ Append(points, point)[i] = points[i])
              \/ Append(points, point)[i] = point
        OBVIOUS
      <4>3. CloseAt(frame) <= CloseAt(frame) BY <1>8
      <4>4. Marked(signalled, Append(points, point), CloseAt(frame))
        BY <2>2, <3>2, <4>1, <4>2, <4>3 DEF Told, Marked
      <4>5. MarksAfter(signalled, points, frame) = Append(points, point)
        BY <3>2 DEF MarksAfter, point
      <4>. QED BY <2>2, <4>4, <4>5 DEF Told
    <3>. QED BY <3>1, <3>2
  <2>. QED BY <1>2, <1>19, <2>1, <2>2, <2>3, <2>4 DEF Quiet
<1>. QED BY <1>20, <1>21

\* An order that finds no next bar is told as such.
LEMMA DropTold ==
  ASSUME NEW st, Sound(st), IsSome(st.pending_entry), NEW points, NEW now,
         Told(st, points, now), NEW note \in Diagnostic
  PROVE  LET new == [st EXCEPT !.diagnostics = Append(st.diagnostics, note), !.pending_entry = <<>>]
         IN Sound(new) /\ Told(new, points, now) /\ new.frames = st.frames /\ new.position = <<>>
              /\ new.pending_entry = <<>> /\ new.trades = st.trades
<1> DEFINE notes == Append(st.diagnostics, note)
           new == [st EXCEPT !.diagnostics = notes, !.pending_entry = <<>>]
<1>0. /\ st \in KernelState /\ st.position = <<>> /\ st.pending_entry \in Seq(Pending)
      /\ st.diagnostics \in Seq(Diagnostic) /\ st.decisions \in Seq(Decision)
  BY SoundParts DEF Sound
<1>1. notes \in Seq(Diagnostic) /\ Len(notes) = Len(st.diagnostics) + 1
        /\ Len(st.diagnostics) \in Nat
  BY <1>0
<1>2. Len(<<>>) = 0 /\ <<>> \in Seq(Pending) OBVIOUS
<1>3. Len(st.pending_entry) = 1
  <2>1. Len(st.pending_entry) >= 1 BY <1>0, SomeThe
  <2>2. Len(st.pending_entry) \in Nat BY <1>0, LenNat
  <2>3. Len(st.pending_entry) + 0 <= 1 BY <1>0, <1>2 DEF Sound
  <2>4. ASSUME NEW m \in Nat, m >= 1, m + 0 <= 1 PROVE m = 1 BY <2>4
  <2>. QED BY <2>1, <2>2, <2>3, <2>4
<1> HIDE DEF notes
<1>4. new \in KernelState BY <1>0, <1>1, <1>2 DEF KernelState
<1>5. /\ new.frames = st.frames /\ new.trades = st.trades /\ new.decisions = st.decisions
      /\ new.diagnostics = notes /\ new.last_exit_index = st.last_exit_index
      /\ new.pending_entry = <<>> /\ new.position = <<>>
  BY <1>0 DEF KernelState
<1> HIDE DEF new
<1>6. Sound(new) BY <1>2, <1>4, <1>5 DEF Sound
<1>7. Tallied(new)
  <2> DEFINE a == Count(st.decisions, "entry_pending")
             b == Count(st.decisions, "entry_filled")
  <2>1. a = b + Len(st.diagnostics) + 1 BY <1>3 DEF Told, Tallied
  <2>2. [frame_index |-> 0, kind |-> "entry_filled"] \in Decision BY DEF Decision
  <2>3. b \in Nat BY <1>0, <2>2, CountAppend
  <2> HIDE DEF a, b
  <2>4. a = b + Len(notes) + 0 BY <1>1, <2>1, <2>3
  <2>. QED BY <1>0, <1>2, <1>5, <2>4 DEF Told, Tallied, a, b
<1>8. Marked(new, points, now) BY <1>0, <1>5 DEF Told, Marked, IsSome
<1>9. Rested(new) BY <1>5 DEF Told, Rested
<1>. QED BY <1>5, <1>6, <1>7, <1>8, <1>9 DEF Told, new, notes

\* A position that is still open settles at the close of the last bar.
LEMMA CloseAtEnd ==
  ASSUME NEW st, Sound(st), IsSome(st.position), NEW last \in Frame, NEW index \in Nat \ {0},
         Len(st.frames) = index, st.frames[index] = last, NEW points \in Seq(Mark),
         CloseAt(last) \in Nat, Told(st, points, CloseAt(last)), Timed(st, CloseAt(last)),
         ~StopTouched(The(st.position), last)
  PROVE  LET new == Close(st, last, index, "end_of_data", last.close)
         IN /\ Told(new, points, CloseAt(last))
            /\ new.frames = st.frames /\ new.pending_entry = st.pending_entry
            /\ new.position = <<>>
<1> DEFINE price == last.close
           now == CloseAt(last)
<1>1. price \in Int BY DEF Frame
<1>2. last.low <= price /\ price <= last.high
  <2>1. st.frames \in Seq(Frame) BY SoundParts
  <2>2. index \in DOMAIN st.frames BY <2>1
  <2>. QED BY <2>2 DEF Told, Ordered, WellFormed
<1>3. now \in Nat /\ now <= now OBVIOUS
<1> HIDE DEF price
<1>4. ASSUME NEW kind, kind = "end_of_data"
      PROVE  LET new == Close(st, last, index, kind, price)
             IN /\ Told(new, points, CloseAt(last))
                /\ new.frames = st.frames /\ new.pending_entry = st.pending_entry
                /\ new.position = <<>>
  <2>1. kind \in ExitKinds \cup {"end_of_data"} BY <1>4
  <2>2. /\ kind \in {"time_exit", "end_of_data"} => now <= CloseAt(last)
        /\ kind \notin {"time_exit", "end_of_data"} => now <= last.open_at
    BY <1>3, <1>4
  <2>3. Told(st, points, now) /\ Timed(st, now) /\ now \in Nat OBVIOUS
  <2>4. Priority[1] = "stop_loss" /\ kind # "stop_loss" => ~StopTouched(The(st.position), last)
    OBVIOUS
  <2> HIDE DEF now
  <2>6. kind \in {"time_exit", "end_of_data"} => now <= CloseAt(last) BY <2>2
  <2>7. kind \notin {"time_exit", "end_of_data"} => now <= last.open_at BY <2>2
  <2> DEFINE new == Close(st, last, index, kind, price)
  <2>8. /\ Told(new, points, CloseAt(last))
        /\ new.frames = st.frames /\ new.pending_entry = st.pending_entry
        /\ new.position = <<>>
    BY <1>1, <1>2, <2>1, <2>3, <2>4, <2>6, <2>7, CloseTold, SMTT(20)
  <2>. QED BY <2>8
<1>. QED BY <1>4 DEF price

\* The end of the data leaves nothing open, and tells of everything it ended.
LEMMA FinalizeQuiet ==
  ASSUME NEW st, Sound(st), AtRest(st), NEW points \in Seq(Mark), Quiet(st, points)
  PROVE  /\ Quiet(Finalize(st), points)
         /\ ~IsSome(Finalize(st).position) /\ ~IsSome(Finalize(st).pending_entry)
<1> DEFINE index == Len(st.frames)
           note == [frame_index |-> index, kind |-> "no_next_bar"]
           noted == [st EXCEPT !.diagnostics = Append(st.diagnostics, note), !.pending_entry = <<>>]
           last == st.frames[index]
           new == Finalize(st)
<1>0. st \in KernelState /\ st.frames \in Seq(Frame) /\ index \in Nat
  BY SoundParts, LenNat DEF Sound
<1>1. CASE ~IsSome(st.pending_entry) /\ ~IsSome(st.position)
  <2>1. new = st BY <1>1 DEF Finalize
  <2>. QED BY <1>1, <2>1
<1>2. ASSUME IsSome(st.pending_entry) \/ IsSome(st.position)
      PROVE  /\ st.frames # <<>> /\ index \in Nat \ {0} /\ last \in Frame
             /\ Told(st, points, LastClose(st)) /\ LastClose(st) = CloseAt(last)
             /\ LastClose(st) \in Nat
  <2>1. st.frames # <<>> BY <1>2 DEF AtRest, InitialState, IsSome
  <2>2. index \in Nat \ {0} BY <1>0, <2>1, EmptySeq
  <2>3. last \in Frame BY <1>0, <2>2
  <2>4. CloseAt(last) \in Nat
    <3> HIDE DEF last
    <3>. QED BY <2>3 DEF Frame, CloseAt
  <2>. QED BY <2>1, <2>2, <2>3, <2>4 DEF Quiet, LastClose
<1>3. CASE IsSome(st.pending_entry)
  <2>1. note \in Diagnostic BY <1>0 DEF Diagnostic
  <2> HIDE DEF note
  <2>2. /\ Told(noted, points, LastClose(st)) /\ noted.frames = st.frames
        /\ noted.position = <<>> /\ noted.pending_entry = <<>>
    BY <1>2, <1>3, <2>1, DropTold
  <2>3. new = IF IsSome(noted.position)
              THEN Close(noted, last, index, "end_of_data", last.close) ELSE noted
    BY <1>3 DEF Finalize, note
  <2> HIDE DEF noted, new
  <2>4. new = noted BY <2>2, <2>3 DEF IsSome
  <2>. QED BY <1>2, <1>3, <2>2, <2>4 DEF Quiet, LastClose, IsSome, new
<1>4. CASE IsSome(st.position)
  <2> DEFINE closed == Close(st, last, index, "end_of_data", last.close)
  <2>1. st.pending_entry = <<>> BY <1>4, SoundParts
  <2>2. new = closed BY <1>4, <2>1 DEF Finalize, IsSome
  <2>3. Timed(st, CloseAt(last)) BY <1>2, <1>4 DEF AtRest, Kept
  <2>6. ~StopTouched(The(st.position), last)
    <3>1. Survives(The(st.position), st.frames, index) BY <1>4 DEF Quiet
    <3>2. The(st.position).bars_held \in Nat \ {0} BY <1>4, SoundParts DEF Position
    <3>3. index \in (index - The(st.position).bars_held + 1)..index BY <1>0, <3>2
    <3>. QED BY <3>1, <3>3 DEF Survives
  <2>7. /\ CloseAt(last) \in Nat /\ Told(st, points, CloseAt(last))
        /\ index \in Nat \ {0} /\ last \in Frame /\ Len(st.frames) = index
        /\ st.frames[index] = last
    BY <1>2, <1>4
  <2> HIDE DEF last, index
  <2>9. /\ Told(closed, points, CloseAt(last)) /\ closed.frames = st.frames
        /\ closed.pending_entry = st.pending_entry /\ closed.position = <<>>
    BY <1>4, <2>3, <2>6, <2>7, CloseAtEnd
  <2> HIDE DEF closed, new
  <2>10. LastClose(new) = CloseAt(last) BY <2>2, <2>9 DEF LastClose, last, index
  <2>. QED BY <1>2, <1>4, <2>1, <2>2, <2>9, <2>10 DEF Quiet, IsSome, new, last, index
<1>. QED BY <1>1, <1>3, <1>4

----------------------------------------------------------------------------
LEMMA InitXInv == Init => XInv
<1> SUFFICES ASSUME Init PROVE XInv OBVIOUS
<1>1. state = InitialState /\ mtm = <<>> /\ status = "running" BY DEF Init
<1>2. state.frames = <<>> /\ state.position = <<>> BY <1>1 DEF InitialState
<1>. QED BY <1>1, <1>2 DEF XInv, Quiet, IsSome

LEMMA NextXInv == IInv /\ XInv /\ [Next]_vars => XInv'
<1> SUFFICES ASSUME IInv, XInv, [Next]_vars PROVE XInv' OBVIOUS
<1>0. Sound(state) /\ AtRest(state) /\ mtm \in Seq(Mark) /\ Quiet(state, mtm)
  BY DEF IInv, XInv
<1>1. ASSUME NEW frame \in Frames, EvaluateFrame(frame) PROVE XInv'
  <2>1. frame \in Frame BY FramesAssumption
  <2>2. /\ Admissible(state, frame) /\ state' = Evaluate(state, frame)
        /\ mtm' = MarksAfter(state', mtm, frame) /\ status' = status /\ status = "running"
    BY <1>1 DEF EvaluateFrame, MarksAfter
  <2>3. Quiet(state', mtm') BY <1>0, <2>1, <2>2, EvaluateQuiet
  <2>. QED BY <2>2, <2>3 DEF XInv
<1>2. ASSUME NEW frame \in Frames, RefuseFrame(frame) PROVE XInv'
  BY <1>0, <1>2 DEF RefuseFrame, XInv
<1>3. CASE FinishReplay
  <2>1. state' = Finalize(state) /\ mtm' = mtm BY <1>3 DEF FinishReplay
  <2>2. /\ Quiet(state', mtm') /\ ~IsSome(state'.position) /\ ~IsSome(state'.pending_entry)
    BY <1>0, <2>1, FinalizeQuiet
  <2>. QED BY <2>2 DEF XInv
<1>4. CASE UNCHANGED vars BY <1>4 DEF vars, XInv
<1>. QED BY <1>1, <1>2, <1>3, <1>4 DEF Next

\* Told at rest, in every reachable state.
THEOREM ExitInvariance == Spec => []XInv
<1>1. Spec => []IInv BY Invariance
<1>. QED BY <1>1, InitXInv, NextXInv, PTL DEF Spec

\* What the invariant tells of every reachable state.
LEMMA ToldAnyway ==
  ASSUME IInv, XInv
  PROVE  /\ Sound(state) /\ mtm \in Seq(Mark)
         /\ \E now \in Nat : Told(state, mtm, now) /\ Kept(state, now)
<1>0. Sound(state) /\ AtRest(state) /\ mtm \in Seq(Mark) /\ Quiet(state, mtm)
  BY DEF IInv, XInv
<1>1. CASE state.frames = <<>>
  <2>1. state = InitialState /\ mtm = <<>> BY <1>0, <1>1 DEF AtRest, Quiet
  <2>2. 0 \in Nat OBVIOUS
  <2>3. Told(state, mtm, 0) /\ Kept(state, 0) BY <2>1, <2>2, InitialTold, InitialKept
  <2>. QED BY <1>0, <2>2, <2>3
<1>2. CASE state.frames # <<>>
  <2>1. state.frames \in Seq(Frame) BY <1>0, SoundParts
  <2>2. state.frames[Len(state.frames)] \in Frame BY <1>2, <2>1, EmptySeq
  <2>3. LastClose(state) \in Nat BY <2>2 DEF LastClose, CloseAt, Frame
  <2>4. Told(state, mtm, LastClose(state)) /\ Kept(state, LastClose(state))
    BY <1>0, <1>2 DEF AtRest, Quiet
  <2>. QED BY <1>0, <2>3, <2>4
<1>. QED BY <1>1, <1>2

\* No trade of a replay settles before the window: its signal is inside it.
LEMMA SettlesInWindow ==
  ASSUME NEW st, Sound(st), NEW now, Kept(st, now), Ordered(st.frames), NEW k \in DOMAIN st.trades
  PROVE  st.trades[k].closed_at \in Nat /\ st.trades[k].closed_at > ExecutionStart
<1> DEFINE t == st.trades[k]
           fs == st.frames
<1>1. st.trades \in Seq(Trade) /\ fs \in Seq(Frame) BY SoundParts
<1>2. t \in Trade BY <1>1
<1>3. t.closed_at \in Nat /\ t.opened_at \in Nat /\ ExecutionStart \in Nat
  BY <1>2, RunAssumption DEF Trade
<1>4. t.opened_at <= t.closed_at BY DEF Kept, Ledger, Chained
<1>5. PICK j \in 2..Len(fs) : fs[j].open_at = t.opened_at /\ fs[j - 1].open_at >= ExecutionStart
  BY DEF Kept, FillsReal, Filled
<1>6. j \in DOMAIN fs /\ j - 1 \in DOMAIN fs /\ j - 1 < j BY <1>1, <1>5
<1>7. fs[j - 1] \in Frame BY <1>1, <1>6
<1>8. fs[j - 1].open_at \in Nat BY <1>7 DEF Frame
<1>9. fs[j - 1].open_at < fs[j].open_at BY <1>6 DEF Ordered
<1> HIDE DEF t, fs
<1>10. t.closed_at \in Nat /\ t.closed_at > ExecutionStart BY <1>3, <1>4, <1>5, <1>8, <1>9
<1>. QED BY <1>10 DEF t

\* The curve of a run that holds nothing ends at the last trade, which overrides
\* any mark of the same instant; without a trade there is no mark either.
LEMMA CurveEnds ==
  ASSUME NEW st, Sound(st), NEW points \in Seq(Mark), NEW now \in Nat, Told(st, points, now),
         Kept(st, now), ~IsSome(st.position)
  PROVE  LET times == CurveTimes(st, points)
             end == CHOOSE t \in times : \A u \in times : u <= t
         IN IF times = {} THEN st.equity = InitialCapital * Bps
                          ELSE CurveAt(st, points, end) = st.equity
<1> DEFINE times == CurveTimes(st, points)
           end == CHOOSE t \in times : \A u \in times : u <= t
           n == Len(st.trades)
           last == st.trades[n].closed_at
<1>1. st.trades \in Seq(Trade) /\ n \in Nat /\ DOMAIN st.trades = 1..n BY SoundParts, LenNat
<1>2. st.equity = Prefix(st.trades, n) BY DEF Kept, Ledger
<1>3. \A k \in 1..n : /\ st.trades[k].closed_at \in Nat
                      /\ st.trades[k].closed_at > ExecutionStart
                      /\ st.trades[k].closed_at <= last
  BY <1>1, SettlesInWindow DEF Told, Latest
<1>4. CASE n = 0
  <2>1. ASSUME NEW t \in times PROVE FALSE
    <3>1. t \in {points[i].ts : i \in DOMAIN points}
                \cup {st.trades[k].closed_at : k \in DOMAIN st.trades}
      BY DEF CurveTimes
    <3>2. DOMAIN st.trades = {} BY <1>1, <1>4
    <3>3. PICK i \in DOMAIN points : points[i].ts = t BY <3>1, <3>2
    <3>. QED BY <3>2, <3>3 DEF Told, Marked
  <2>2. st.equity = InitialCapital * Bps BY <1>2, <1>4 DEF Prefix
  <2>. QED BY <2>1, <2>2
<1>5. CASE n # 0
  <2>0. n \in 1..n /\ \A j \in 1..n : j <= n BY <1>1, <1>5
  <2>1. last \in times BY <1>1, <1>3, <2>0 DEF CurveTimes
  <2>2. ASSUME NEW u \in times PROVE u <= last
    <3>1. CASE \E k \in 1..n : u = st.trades[k].closed_at BY <1>3, <3>1
    <3>2. CASE \E i \in DOMAIN points : u = points[i].ts
      <4>1. PICK i \in DOMAIN points : u = points[i].ts BY <3>2
      <4>2. PICK k \in 1..n : points[i].ts <= st.trades[k].closed_at
        BY <1>1, <4>1 DEF Told, Marked
      <4>3. points[i] \in Mark BY <4>1
      <4>4. u \in Nat BY <4>1, <4>3 DEF Mark
      <4>. QED BY <1>3, <2>0, <4>1, <4>2, <4>4, SMTT(20)
    <3>. QED BY <1>1, <3>1, <3>2 DEF CurveTimes
  <2>3. \A t \in times : t \in Int
    <3>1. \A i \in DOMAIN points : points[i] \in Mark OBVIOUS
    <3>2. \A i \in DOMAIN points : points[i].ts \in Int BY <3>1 DEF Mark
    <3>. QED BY <1>1, <1>3, <3>2 DEF CurveTimes
  <2> HIDE DEF times, last
  <2>4. end \in times /\ \A u \in times : u <= end BY <2>1, <2>2
  <2>5. end = last BY <2>1, <2>2, <2>3, <2>4
  <2> HIDE DEF end
  <2>6. CurveAt(st, points, last) = Prefix(st.trades, n)
    <3> DEFINE closing == {k \in DOMAIN st.trades : st.trades[k].closed_at = last}
               top == CHOOSE k \in closing : \A j \in closing : j <= k
    <3>1. n \in closing BY <1>1, <2>0 DEF last
    <3>2. closing \subseteq 1..n BY <1>1
    <3>3. CurveAt(st, points, last) = Prefix(st.trades, top) BY <3>1 DEF CurveAt
    <3> HIDE DEF closing
    <3>4. top \in closing /\ \A j \in closing : j <= top BY <2>0, <3>1, <3>2
    <3> HIDE DEF top
    <3>5. top = n BY <1>1, <2>0, <3>1, <3>2, <3>4
    <3>. QED BY <3>3, <3>5
  <2>. QED BY <1>2, <2>1, <2>5, <2>6 DEF times, end
<1>. QED BY <1>1, <1>4, <1>5

\* Every order of a replay ends exactly once: filled, rejected, dropped at the
\* end of the data or still pending, and every fill closed or open; the cooldown
\* is never cut short; and the equity curve ends at the realized equity.
THEOREM OrdersEndOnce == Spec => []OrdersReachTheCurve
<1>1. ASSUME IInv, XInv PROVE OrdersReachTheCurve
  <2>0. PICK now \in Nat : Told(state, mtm, now) /\ Kept(state, now) BY <1>1, ToldAnyway
  <2>1. OrdersAccounted BY <2>0 DEF Told, Tallied, OrdersAccounted, decisions, trades
  <2>2. CooldownRespected BY <2>0 DEF Told, Rested, Cooled, CooldownRespected, decisions
  <2>3. CurveEndsAtEquity
    <3>1. ASSUME status = "done" PROVE ~IsSome(state.position) /\ ~IsSome(state.pending_entry)
      BY <1>1, <3>1 DEF XInv
    <3>2. Sound(state) /\ mtm \in Seq(Mark) BY <1>1, ToldAnyway
    <3>. QED BY <2>0, <3>1, <3>2, CurveEnds DEF CurveEndsAtEquity, IsSome
  <2>. QED BY <2>1, <2>2, <2>3 DEF OrdersReachTheCurve
<1>. QED BY <1>1, Invariance, ExitInvariance, PTL

\* A position is left on the first bar that ends it: as long as it is open no bar
\* has touched its stop or take, it is younger than the time exit and has seen
\* the exit signal on its last bar at most; and every exit is at a price its bar
\* traded, a stop that comes first in the priority never being passed over.
THEOREM LeftOnTheFirstBar == Spec => []ExitsFollowTheBars
<1>1. ASSUME IInv, XInv PROVE ExitsFollowTheBars
  <2>0. PICK now \in Nat : Told(state, mtm, now) /\ Kept(state, now) BY <1>1, ToldAnyway
  <2>1. Sound(state) BY <1>1, ToldAnyway
  <2>2. SurvivorUntouched
    <3>1. IsSome(state.position) => Survives(The(state.position), state.frames, Len(state.frames))
      BY <1>1 DEF XInv, Quiet
    <3>. QED BY <3>1 DEF SurvivorUntouched, Survives, Entered, HeldBars, frames
  <2>3. ExitsAreReal
    <3>1. SUFFICES ASSUME NEW k \in DOMAIN trades
                   PROVE  LET bar == frames[BarAt(Settled(trades[k]))]
                          IN RealOn(trades[k], bar)
      BY DEF ExitsAreReal, RealOn, Settled
    <3>2. PICK j \in DOMAIN frames :
            frames[j].open_at = Settled(trades[k]) /\ RealOn(trades[k], frames[j])
      BY <2>0 DEF Told, Real, frames, trades
    <3>3. BarAt(Settled(trades[k])) = j
      <4> DEFINE t == Settled(trades[k])
      <4>1. frames \in Seq(Frame) BY <2>1, SoundParts DEF frames
      <4>2. ASSUME NEW i \in DOMAIN frames, frames[i].open_at = t PROVE i = j
        <5>1. i \in Int /\ j \in Int BY <4>1
        <5>2. frames[i] \in Frame /\ frames[j] \in Frame BY <4>1
        <5>3. frames[i].open_at \in Nat /\ frames[j].open_at \in Nat BY <5>2 DEF Frame
        <5>4. frames[i].open_at = frames[j].open_at BY <3>2, <4>2
        <5>5. (i < j => frames[i].open_at < frames[j].open_at)
                /\ (j < i => frames[j].open_at < frames[i].open_at)
          BY <2>0 DEF Told, Ordered, frames
        <5>. QED BY <5>1, <5>3, <5>4, <5>5
      <4> HIDE DEF t
      <4>3. frames[j].open_at = t BY <3>2 DEF t
      <4>. QED BY <4>2, <4>3 DEF BarAt, t
    <3>. QED BY <3>2, <3>3
  <2>. QED BY <2>2, <2>3 DEF ExitsFollowTheBars
<1>. QED BY <1>1, Invariance, ExitInvariance, PTL
=============================================================================
