------------------------- MODULE KernelStepsProofs -------------------------
(***************************************************************************)
(* What the stages of evaluate() do to any KernelState: they keep its      *)
(* types and its single slot, and they never read the logs they write.     *)
(* The proofs of the replay and of the paper run both rest on this.        *)
(***************************************************************************)
EXTENDS KernelSteps, SequenceTheorems, TLAPS

----------------------------------------------------------------------------
\* Integer division by a positive step is an integer, the only fact about
\* rounding and sizing that typing needs.
LEMMA DivInt == ASSUME NEW a \in Int, NEW b \in Int, b > 0 PROVE a \div b \in Int
  BY SMT

\* Quantizing a decimal gives whole ticks.
LEMMA QuantizeInt ==
  ASSUME NEW v \in Int, NEW d PROVE Quantize(v, d) \in Int
<1>1. Sub \in Int /\ Sub > 0 BY DEF Sub
<1>2. -v \in Int OBVIOUS
<1>3. v \div Sub \in Int /\ (-v) \div Sub \in Int BY <1>1, <1>2, DivInt
<1>. QED BY <1>3 DEF Quantize

\* A pending entry of a strategy with a feature-expression stop or take has
\* read that value on its signal bar.
Resolved(p) ==
  /\ StopRule.model = "feature_expression" => p.stop_value \in Int
  /\ TakeRule.model = "feature_expression" => p.take_value \in Int

\* The stop of an entry is in whole ticks, and is there when the rule is.
LEMMA StopLossType ==
  ASSUME NEW p \in Pending, Resolved(p), NEW price \in Nat \ {0}
  PROVE  /\ StopLoss(p, price) \in Int \cup {None}
         /\ StopRule.model # "none" => StopLoss(p, price) \in Int
<1>1. CASE StopRule.model = "none" BY <1>1 DEF StopLoss
<1>2. CASE StopRule.model = "fixed_percent"
  <2>1. StopRule.value \in Int BY SpecAssumption
  <2>2. price * (Sub - StopRule.value) \in Int /\ price * (Sub + StopRule.value) \in Int
    BY <2>1 DEF Sub
  <2>3. Quantize(price * (Sub - StopRule.value), "down") \in Int BY <2>2, QuantizeInt
  <2>4. Quantize(price * (Sub + StopRule.value), "up") \in Int BY <2>2, QuantizeInt
  <2>. QED BY <1>2, <2>3, <2>4 DEF StopLoss
<1>3. CASE StopRule.model = "feature_expression"
  <2>1. p.stop_value \in Int BY <1>3 DEF Resolved
  <2>2. StopLoss(p, price) = Quantize(p.stop_value, IF Side = "long" THEN "down" ELSE "up")
    BY <1>3 DEF StopLoss
  <2>. QED BY <2>1, <2>2, QuantizeInt
<1>. QED BY <1>1, <1>2, <1>3, SpecAssumption

\* So is the take.
LEMMA TakeProfitType ==
  ASSUME NEW p \in Pending, Resolved(p), NEW price \in Nat \ {0},
         NEW stop \in Int \cup {None}, StopRule.model # "none" => stop \in Int
  PROVE  TakeProfit(p, price, stop) \in Int \cup {None}
<1> DEFINE away == IF Side = "long" THEN "up" ELSE "down"
           sign == IF Side = "long" THEN 1 ELSE -1
<1>0. TakeRule.value \in Int /\ sign \in Int BY SpecAssumption
<1>1. CASE TakeRule.model = "none" BY <1>1 DEF TakeProfit
<1>2. CASE TakeRule.model = "fixed_percent"
  <2>1. price * (Sub + sign * TakeRule.value) \in Int BY <1>0 DEF Sub
  <2>2. TakeProfit(p, price, stop) = Quantize(price * (Sub + sign * TakeRule.value), away)
    BY <1>2 DEF TakeProfit
  <2>. QED BY <2>1, <2>2, QuantizeInt
<1>3. CASE TakeRule.model = "r_multiple"
  <2>1. stop \in Int BY <1>3, SpecAssumption
  <2>2. Abs(price - stop) \in Int BY <2>1 DEF Abs
  <2>3. Sub * price + sign * TakeRule.value * Abs(price - stop) \in Int BY <1>0, <2>2 DEF Sub
  <2>4. TakeProfit(p, price, stop)
          = Quantize(Sub * price + sign * TakeRule.value * Abs(price - stop), away)
    BY <1>3 DEF TakeProfit
  <2>. QED BY <2>3, <2>4, QuantizeInt
<1>4. CASE TakeRule.model = "feature_expression"
  <2>1. p.take_value \in Int BY <1>4 DEF Resolved
  <2>2. TakeProfit(p, price, stop) = Quantize(p.take_value, away) BY <1>4 DEF TakeProfit
  <2>. QED BY <2>1, <2>2, QuantizeInt
<1>. QED BY <1>1, <1>2, <1>3, <1>4, SpecAssumption

\* An order that is not on the wrong side has a whole quantity: the risk it is
\* sized by is not zero.
LEMMA QuantityInt ==
  ASSUME NEW equity \in Int, NEW price \in Nat \ {0}, NEW stop \in Int \cup {None},
         StopRule.model # "none" => stop \in Int,
         NEW take, ~WrongSide(price, stop, take)
  PROVE  Quantity(equity, price, stop) \in Int
<1>0. /\ Sizing.value \in Int /\ Leverage \in Int /\ QtyStep \in Int /\ QtyStep > 0
      /\ FeeBps \in Int /\ FeeBps >= 0 /\ InitialCapital \in Int
  BY SpecAssumption, RunAssumption
<1>1. ASSUME NEW a \in Int, NEW b \in Int, b > 0 PROVE FloorToStep(a, b) \in Int
  <2>1. b * QtyStep \in Int /\ b * QtyStep > 0 BY <1>0, <1>1
  <2>2. a \div (b * QtyStep) \in Int BY <2>1, DivInt
  <2>. QED BY <2>2, <1>0 DEF FloorToStep
<1>2. CASE Sizing.model = "fixed_notional"
  <2>1. FloorToStep(Sizing.value, price) \in Int BY <1>0, <1>1
  <2>. QED BY <1>2, <2>1 DEF Quantity
<1>3. CASE Sizing.model = "fixed_margin"
  <2>1. Sizing.value * Leverage \in Int BY <1>0
  <2>2. FloorToStep(Sizing.value * Leverage, price) \in Int BY <2>1, <1>1
  <2>. QED BY <1>3, <2>2 DEF Quantity
<1>4. CASE Sizing.model = "equity_fraction"
  <2>1. equity * Leverage * Sizing.value \in Int BY <1>0
  <2>2. 100 * price * (Bps + FeeBps) \in Int /\ 100 * price * (Bps + FeeBps) > 0
    BY <1>0 DEF Bps
  <2>3. FloorToStep(equity * Leverage * Sizing.value, 100 * price * (Bps + FeeBps)) \in Int
    BY <2>1, <2>2, <1>1
  <2>. QED BY <1>4, <2>3 DEF Quantity
<1>5. CASE Sizing.model = "risk_fraction"
  <2> DEFINE basis == IF Sizing.basis = "initial" THEN InitialCapital * Bps ELSE equity
  <2>1. stop \in Int BY <1>5, SpecAssumption
  <2>2. stop # price BY <2>1, RunAssumption DEF WrongSide
  <2>3. Abs(price - stop) \in Int /\ Abs(price - stop) > 0 BY <2>1, <2>2 DEF Abs
  <2>4. 100 * Bps * Abs(price - stop) \in Int /\ 100 * Bps * Abs(price - stop) > 0
    BY <2>3 DEF Bps
  <2>5. basis * Sizing.value \in Int BY <1>0 DEF Bps
  <2>6. FloorToStep(basis * Sizing.value, 100 * Bps * Abs(price - stop)) \in Int
    BY <2>4, <2>5, <1>1
  <2>. QED BY <1>5, <2>6 DEF Quantity
<1>. QED BY <1>2, <1>3, <1>4, <1>5, SpecAssumption

----------------------------------------------------------------------------
\* The kernel's state between the stages of evaluate: typed, one slot, and a
\* pending entry that has what its rules need.
Sound(st) ==
  /\ st \in KernelState
  /\ Len(st.pending_entry) + Len(st.position) <= 1
  /\ \A i \in DOMAIN st.pending_entry : Resolved(st.pending_entry[i])

\* An optional value that is there is the only element.
LEMMA SomeThe ==
  ASSUME NEW S, NEW o \in Seq(S), IsSome(o)
  PROVE  Len(o) >= 1 /\ 1 \in DOMAIN o /\ The(o) \in S
<1>1. Len(o) # 0 BY EmptySeq DEF IsSome
<1>. QED BY <1>1 DEF The

LEMMA LenNat == ASSUME NEW S, NEW o \in Seq(S) PROVE Len(o) \in Nat
  OBVIOUS

LEMMA OneOfTwo ==
  ASSUME NEW a \in Nat, NEW b \in Nat, a + b <= 1
  PROVE  (a >= 1 => b = 0 /\ a = 1) /\ (b >= 1 => a = 0 /\ b = 1)
  OBVIOUS

LEMMA NetPnlInt ==
  ASSUME NEW pos \in Position, NEW price \in Int PROVE NetPnl(pos, price) \in Int
<1>1. pos.entry_price \in Int /\ pos.qty \in Int BY DEF Position
<1>2. FeeBps + SlippageBps \in Int BY RunAssumption
<1> DEFINE delta == IF Side = "long" THEN price - pos.entry_price ELSE pos.entry_price - price
<1>3. delta \in Int BY <1>1
<1>4. delta * pos.qty * Bps \in Int BY <1>1, <1>3 DEF Bps
<1>5. (pos.entry_price + price) * pos.qty * (FeeBps + SlippageBps) \in Int BY <1>1, <1>2
<1>6. NetPnl(pos, price)
        = delta * pos.qty * Bps - (pos.entry_price + price) * pos.qty * (FeeBps + SlippageBps)
  BY DEF NetPnl
<1>. QED BY <1>4, <1>5, <1>6

\* What the parts of a sound state are.
LEMMA SoundParts ==
  ASSUME NEW st, Sound(st)
  PROVE  /\ st.equity \in Int /\ st.frames \in Seq(Frame)
         /\ st.pending_entry \in Seq(Pending) /\ st.position \in Seq(Position)
         /\ st.last_exit_index \in Nat /\ st.trade_seq \in Nat /\ st.trades \in Seq(Trade)
         /\ st.decisions \in Seq(Decision)
         /\ st.diagnostics \in Seq(Diagnostic)
         /\ IsSome(st.position) => The(st.position) \in Position /\ Len(st.position) = 1
                                     /\ st.pending_entry = <<>>
         /\ IsSome(st.pending_entry) => /\ The(st.pending_entry) \in Pending
                                        /\ Resolved(The(st.pending_entry))
                                        /\ st.position = <<>>
<1>1. st \in KernelState BY DEF Sound
<1>2. /\ st.equity \in Int /\ st.frames \in Seq(Frame)
      /\ st.pending_entry \in Seq(Pending) /\ st.position \in Seq(Position)
      /\ st.last_exit_index \in Nat /\ st.trade_seq \in Nat /\ st.trades \in Seq(Trade)
      /\ st.decisions \in Seq(Decision)
      /\ st.diagnostics \in Seq(Diagnostic)
  BY <1>1 DEF KernelState
<1>3. Len(st.pending_entry) + Len(st.position) <= 1 BY DEF Sound
<1>4. ASSUME IsSome(st.position)
      PROVE  The(st.position) \in Position /\ Len(st.position) = 1 /\ st.pending_entry = <<>>
  <2>1. Len(st.position) >= 1 /\ The(st.position) \in Position BY <1>2, <1>4, SomeThe
  <2>0. Len(st.pending_entry) \in Nat /\ Len(st.position) \in Nat BY <1>2, LenNat
  <2>2. Len(st.pending_entry) = 0 /\ Len(st.position) = 1 BY <1>3, <2>0, <2>1, OneOfTwo
  <2>. QED BY <1>2, <2>1, <2>2, EmptySeq
<1>5. ASSUME IsSome(st.pending_entry)
      PROVE  /\ The(st.pending_entry) \in Pending /\ Resolved(The(st.pending_entry))
             /\ st.position = <<>>
  <2>1. Len(st.pending_entry) >= 1 /\ 1 \in DOMAIN st.pending_entry
          /\ The(st.pending_entry) \in Pending BY <1>2, <1>5, SomeThe
  <2>0. Len(st.pending_entry) \in Nat /\ Len(st.position) \in Nat BY <1>2, LenNat
  <2>2. Len(st.position) = 0 BY <1>3, <2>0, <2>1, OneOfTwo
  <2>. QED BY <1>2, <2>1, <2>2, EmptySeq DEF Sound, The
<1>. QED BY <1>2, <1>4, <1>5

LEMMA InitialSound == Sound(InitialState)
<1>1. InitialCapital * Bps \in Int BY RunAssumption DEF Bps
<1>2. Len(<<>>) = 0 /\ \A S : <<>> \in Seq(S) OBVIOUS
<1>3. InitialState \in KernelState BY <1>1, <1>2 DEF InitialState, KernelState
<1>4. InitialState.pending_entry = <<>> /\ InitialState.position = <<>> BY DEF InitialState
<1>. QED BY <1>2, <1>3, <1>4 DEF Sound


----------------------------------------------------------------------------
\* Each stage of evaluate keeps the state sound, and so does finalize.
LEMMA ArriveSound ==
  ASSUME NEW st, Sound(st), NEW frame \in Frame
  PROVE  /\ Sound(Arrive(st, frame))
         /\ Arrive(st, frame).frames = Append(st.frames, frame)
<1>1. st \in KernelState BY DEF Sound
<1>2. Append(st.frames, frame) \in Seq(Frame) BY <1>1 DEF KernelState
<1>3. Arrive(st, frame) \in KernelState BY <1>1, <1>2 DEF KernelState, Arrive
<1>4. /\ Arrive(st, frame).frames = Append(st.frames, frame)
      /\ Arrive(st, frame).position = st.position
      /\ Arrive(st, frame).pending_entry = st.pending_entry
  BY <1>1 DEF KernelState, Arrive
<1>. QED BY <1>3, <1>4 DEF Sound

LEMMA AppendType ==
  ASSUME NEW S, NEW s \in Seq(S), NEW e \in S PROVE Append(s, e) \in Seq(S)
  OBVIOUS

LEMMA OneElement ==
  ASSUME NEW S, NEW e \in S
  PROVE  <<e>> \in Seq(S) /\ Len(<<e>>) = 1 /\ <<e>>[1] = e /\ <<e>> # <<>>
  OBVIOUS

LEMMA OpenPendingSound ==
  ASSUME NEW st, Sound(st), NEW frame \in Frame, NEW index \in Nat
  PROVE  Sound(OpenPending(st, frame, index))
<1> DEFINE pending == The(st.pending_entry)
           price == frame.open
           stop == StopLoss(pending, price)
           take == TakeProfit(pending, price, stop)
           qty == Quantity(st.equity, price, stop)
           pos == [qty |-> qty, entry_price |-> price, opened_at |-> frame.open_at,
                   stop_loss |-> stop, take_profit |-> take, bars_held |-> 1,
                   pending_signal_exit |-> FALSE]
           open == OpenPending(st, frame, index)
<1>0. st \in KernelState BY DEF Sound
<1>a. price \in Nat \ {0} /\ frame.open_at \in Nat BY DEF Frame
<1>1. CASE ~IsSome(st.pending_entry)
  <2>1. open = st BY <1>1 DEF OpenPending
  <2>. QED BY <2>1
<1>2. CASE IsSome(st.pending_entry) /\ OrderRejected(st.equity, price, stop, take)
  <2> DEFINE note == [frame_index |-> index, kind |-> "order_rejected"]
  <2>1. open = [st EXCEPT !.pending_entry = <<>>, !.diagnostics = Append(@, note)]
    BY <1>2 DEF OpenPending
  <2>2. note \in Diagnostic BY DEF Diagnostic
  <2> HIDE DEF note
  <2>3. Append(st.diagnostics, note) \in Seq(Diagnostic)
    BY <2>2, SoundParts, AppendType
  <2>4. <<>> \in Seq(Pending) /\ Len(<<>>) = 0 BY EmptySeq
  <2>5. open \in KernelState BY <1>0, <2>1, <2>3, <2>4 DEF KernelState
  <2>6. open.pending_entry = <<>> /\ open.position = st.position
    BY <1>0, <2>1 DEF KernelState
  <2>7. st.position = <<>> BY <1>2, SoundParts
  <2>. QED BY <2>4, <2>5, <2>6, <2>7 DEF Sound
<1>3. CASE IsSome(st.pending_entry) /\ ~OrderRejected(st.equity, price, stop, take)
  <2> DEFINE fill == [frame_index |-> index, kind |-> "entry_filled"]
  <2>1. open = [st EXCEPT !.pending_entry = <<>>, !.position = <<pos>>,
                          !.decisions = Append(@, fill)]
    BY <1>3 DEF OpenPending
  <2>2. fill \in Decision BY DEF Decision
  <2> HIDE DEF fill
  <2>3. Append(st.decisions, fill) \in Seq(Decision)
    BY <2>2, SoundParts, AppendType
  <2>4. pending \in Pending /\ Resolved(pending) /\ st.equity \in Int BY <1>3, SoundParts
  <2>5. stop \in Int \cup {None} /\ (StopRule.model # "none" => stop \in Int)
    BY <1>a, <2>4, StopLossType
  <2>6. take \in Int \cup {None} BY <1>a, <2>4, <2>5, TakeProfitType
  <2>7. ~WrongSide(price, stop, take) BY <1>3 DEF OrderRejected
  <2>8. qty \in Int BY <1>a, <2>4, <2>5, <2>7, QuantityInt
  <2> HIDE DEF stop, take, qty, price, pending
  <2>9. pos \in Position BY <1>a, <2>5, <2>6, <2>8 DEF Position
  <2> HIDE DEF pos
  <2>10. <<pos>> \in Seq(Position) /\ Len(<<pos>>) = 1 BY <2>9, OneElement
  <2>11. <<>> \in Seq(Pending) /\ Len(<<>>) = 0 BY EmptySeq
  <2>12. open \in KernelState BY <1>0, <2>1, <2>3, <2>10, <2>11 DEF KernelState
  <2>13. open.pending_entry = <<>> /\ open.position = <<pos>>
    BY <1>0, <2>1 DEF KernelState
  <2>. QED BY <2>10, <2>11, <2>12, <2>13 DEF Sound
<1>. QED BY <1>1, <1>2, <1>3

LEMMA CloseSound ==
  ASSUME NEW st, Sound(st), IsSome(st.position), NEW frame \in Frame, NEW index \in Nat,
         NEW kind \in ExitKinds \cup {"end_of_data"}, NEW price \in Int
  PROVE  Sound(Close(st, frame, index, kind, price))
<1> DEFINE pos == The(st.position)
           pnl == NetPnl(pos, price)
           at == IF kind \in {"time_exit", "end_of_data"} THEN CloseAt(frame) ELSE frame.open_at
           trade == [seq |-> st.trade_seq + 1, opened_at |-> pos.opened_at, closed_at |-> at,
                     entry_price |-> pos.entry_price, exit_price |-> price, exit_kind |-> kind,
                     pnl |-> pnl, equity_after |-> st.equity + pnl,
                     stop_loss |-> pos.stop_loss, take_profit |-> pos.take_profit]
           fill == [frame_index |-> index, kind |-> "exit_filled"]
           closed == Close(st, frame, index, kind, price)
<1>0. st \in KernelState BY DEF Sound
<1>1. pos \in Position /\ st.pending_entry = <<>> BY SoundParts
<1>2. pnl \in Int BY <1>1, NetPnlInt
<1>3. at \in Nat BY DEF CloseAt, Frame
<1>4. st.equity \in Int /\ st.trade_seq \in Nat BY SoundParts
<1>5. closed = [st EXCEPT !.equity = st.equity + pnl, !.trade_seq = st.trade_seq + 1,
                          !.trades = Append(st.trades, trade),
                          !.decisions = Append(st.decisions, fill), !.position = <<>>,
                          !.last_exit_index = index]
  BY DEF Close
<1> HIDE DEF pos, pnl, at, closed
<1>6. trade \in Trade
  <2>1. /\ pos.opened_at \in Nat /\ pos.entry_price \in Int
        /\ pos.stop_loss \in Int \cup {None} /\ pos.take_profit \in Int \cup {None}
    BY <1>1 DEF Position
  <2>2. st.trade_seq + 1 \in Nat \ {0} /\ st.equity + pnl \in Int BY <1>2, <1>4
  <2>. QED BY <1>2, <1>3, <2>1, <2>2 DEF Trade
<1>7. fill \in Decision BY DEF Decision
<1> HIDE DEF trade, fill
<1>8. Append(st.trades, trade) \in Seq(Trade) BY <1>6, SoundParts, AppendType
<1>9. Append(st.decisions, fill) \in Seq(Decision) BY <1>7, SoundParts, AppendType
<1>10. <<>> \in Seq(Position) /\ Len(<<>>) = 0 BY EmptySeq
<1>11. closed \in KernelState
  <2>1. st.equity + pnl \in Int /\ st.trade_seq + 1 \in Nat BY <1>2, <1>4
  <2>. QED BY <1>0, <1>5, <1>8, <1>9, <1>10, <2>1 DEF KernelState
<1>12. closed.position = <<>> /\ closed.pending_entry = <<>>
  BY <1>0, <1>1, <1>5 DEF KernelState
<1>. QED BY <1>10, <1>11, <1>12 DEF Sound, closed

\* A due exit has a price.
LEMMA ExitPriceInt ==
  ASSUME NEW pos \in Position, NEW frame \in Frame, NEW kind \in ExitKinds,
         ExitDue(kind, pos, frame)
  PROVE  ExitPrice(kind, pos, frame) \in Int
<1>1. frame.open \in Int /\ frame.close \in Int BY DEF Frame
<1>2. CASE kind = "stop_loss"
  <2>1. pos.stop_loss # None BY <1>2 DEF ExitDue, StopGapped, StopTouched
  <2>2. pos.stop_loss \in Int BY <2>1 DEF Position
  <2>. QED BY <1>1, <1>2, <2>2 DEF ExitPrice
<1>3. CASE kind = "take_profit"
  <2>1. pos.take_profit # None BY <1>3 DEF ExitDue, TakeGapped, TakeTouched
  <2>2. pos.take_profit \in Int BY <2>1 DEF Position
  <2>. QED BY <1>1, <1>3, <2>2 DEF ExitPrice
<1>4. CASE kind = "signal_exit" BY <1>1, <1>4 DEF ExitPrice
<1>5. CASE kind = "time_exit" BY <1>1, <1>5 DEF ExitPrice
<1>. QED BY <1>2, <1>3, <1>4, <1>5 DEF ExitKinds

\* The exit a bar takes is due, and is the first such in the priority.
LEMMA TakeExitCases ==
  ASSUME NEW st, NEW frame, NEW index
  PROVE  \/ /\ TakeExit(st, frame, index) = st
            /\ IsSome(st.position) =>
                 \A kind \in ExitKinds : ~ExitDue(kind, The(st.position), frame)
         \/ /\ IsSome(st.position)
            /\ \E kind \in ExitKinds :
                 /\ ExitDue(kind, The(st.position), frame)
                 /\ ExitDue(Priority[1], The(st.position), frame) => kind = Priority[1]
                 /\ TakeExit(st, frame, index)
                      = Close(st, frame, index, kind, ExitPrice(kind, The(st.position), frame))
<1> DEFINE pos == The(st.position)
           due == {i \in 1..4 : ExitDue(Priority[i], pos, frame)}
           first == CHOOSE i \in due : \A j \in due : i <= j
<1>1. CASE ~(IsSome(st.position) /\ due # {})
  <2>1. TakeExit(st, frame, index) = st BY <1>1 DEF TakeExit
  <2>2. ASSUME IsSome(st.position), NEW kind \in ExitKinds PROVE ~ExitDue(kind, pos, frame)
    <3>1. PICK i \in 1..4 : Priority[i] = kind BY SpecAssumption
    <3>2. i \notin due BY <1>1, <2>2
    <3>. QED BY <3>1, <3>2
  <2>. QED BY <2>1, <2>2
<1>2. CASE IsSome(st.position) /\ due # {}
  <2>1. \E i \in due : \A j \in due : i <= j
    <3>1. due \subseteq 1..4 OBVIOUS
    <3> HIDE DEF due
    <3>2. CASE 1 \in due BY <3>1, <3>2
    <3>3. CASE 1 \notin due /\ 2 \in due BY <3>1, <3>3
    <3>4. CASE 1 \notin due /\ 2 \notin due /\ 3 \in due BY <3>1, <3>4
    <3>5. CASE due \subseteq {4}
      <4>1. due = {4} BY <1>2, <3>5
      <4>. QED BY <4>1
    <3>. QED BY <3>1, <3>2, <3>3, <3>4, <3>5
  <2>2. first \in due /\ \A j \in due : first <= j
    <3> HIDE DEF due
    <3>. QED BY <2>1
  <2>6. ExitDue(Priority[1], pos, frame) => Priority[first] = Priority[1]
    <3>1. ASSUME ExitDue(Priority[1], pos, frame) PROVE first = 1
      <4>1. 1 \in due /\ first \in 1..4 BY <2>2, <3>1
      <4>. QED BY <2>2, <4>1
    <3>. QED BY <3>1
  <2>3. first \in 1..4 /\ ExitDue(Priority[first], pos, frame) BY <2>2
  <2>4. Priority[first] \in ExitKinds BY <2>3, SpecAssumption
  <2>5. TakeExit(st, frame, index)
          = Close(st, frame, index, Priority[first], ExitPrice(Priority[first], pos, frame))
    BY <1>2 DEF TakeExit
  <2> HIDE DEF first, due, pos
  <2>. QED BY <1>2, <2>3, <2>4, <2>5, <2>6 DEF pos
<1>. QED BY <1>1, <1>2

LEMMA TakeExitSound ==
  ASSUME NEW st, Sound(st), NEW frame \in Frame, NEW index \in Nat
  PROVE  Sound(TakeExit(st, frame, index))
<1>1. CASE TakeExit(st, frame, index) = st BY <1>1
<1>2. ASSUME IsSome(st.position), NEW kind \in ExitKinds,
             ExitDue(kind, The(st.position), frame),
             TakeExit(st, frame, index)
               = Close(st, frame, index, kind, ExitPrice(kind, The(st.position), frame))
      PROVE  Sound(TakeExit(st, frame, index))
  <2>1. The(st.position) \in Position BY <1>2, SoundParts
  <2>2. ExitPrice(kind, The(st.position), frame) \in Int BY <1>2, <2>1, ExitPriceInt
  <2>. QED BY <1>2, <2>2, CloseSound
<1>. QED BY <1>1, <1>2, TakeExitCases

\* Replacing the position by another one keeps a sound state sound.
LEMMA RepositionSound ==
  ASSUME NEW st, Sound(st), IsSome(st.position), NEW pos \in Position
  PROVE  Sound([st EXCEPT !.position = <<pos>>])
<1> DEFINE new == [st EXCEPT !.position = <<pos>>]
<1>0. st \in KernelState BY DEF Sound
<1>1. <<pos>> \in Seq(Position) /\ Len(<<pos>>) = 1 BY OneElement
<1>2. new \in KernelState BY <1>0, <1>1 DEF KernelState
<1>3. new.position = <<pos>> /\ new.pending_entry = st.pending_entry
  BY <1>0 DEF KernelState
<1>4. st.pending_entry = <<>> BY SoundParts
<1>5. Len(<<>>) = 0 OBVIOUS
<1> HIDE DEF new
<1>6. Sound(new) BY <1>1, <1>2, <1>3, <1>4, <1>5 DEF Sound
<1>. QED BY <1>6 DEF new

LEMMA CountHeldBarSound ==
  ASSUME NEW st, Sound(st), NEW held \in BOOLEAN
  PROVE  Sound(CountHeldBar(st, held))
<1>1. CASE ~(held /\ IsSome(st.position)) BY <1>1 DEF CountHeldBar
<1>2. CASE held /\ IsSome(st.position)
  <2> DEFINE pos == [The(st.position) EXCEPT !.bars_held = @ + 1]
  <2>1. The(st.position) \in Position BY <1>2, SoundParts
  <2>2. pos \in Position BY <2>1 DEF Position
  <2>4. CountHeldBar(st, held) = [st EXCEPT !.position = <<pos>>]
    BY <1>2 DEF CountHeldBar
  <2>. QED BY <1>2, <2>2, <2>4, RepositionSound
<1>. QED BY <1>1, <1>2

LEMMA HoldsBoolean == ASSUME NEW c, NEW fs, NEW i PROVE Holds(c, fs, i) \in BOOLEAN
  BY Zenon DEF Holds

LEMMA FlagSignalExitSound ==
  ASSUME NEW st, Sound(st), NEW index
  PROVE  Sound(FlagSignalExit(st, index))
<1>1. CASE ~IsSome(st.position) BY <1>1 DEF FlagSignalExit
<1>2. CASE IsSome(st.position)
  <2> DEFINE flag == Holds(SignalExit, st.frames, index)
             pos == [The(st.position) EXCEPT !.pending_signal_exit = flag]
  <2>1. The(st.position) \in Position BY <1>2, SoundParts
  <2>2. flag \in BOOLEAN BY HoldsBoolean
  <2>3. FlagSignalExit(st, index) = [st EXCEPT !.position = <<pos>>]
    BY <1>2 DEF FlagSignalExit
  <2> HIDE DEF flag
  <2>4. pos \in Position BY <2>1, <2>2 DEF Position
  <2>. QED BY <1>2, <2>3, <2>4, RepositionSound
<1>. QED BY <1>1, <1>2

\* The values an entry reads on its signal frame are the ones its rules need.
LEMMA SignalValues ==
  ASSUME NEW frame \in Frame
  PROVE  /\ StopValue(frame) \in Int \cup {None} /\ TakeValue(frame) \in Int \cup {None}
         /\ StopRule.model = "feature_expression" => StopValue(frame) \in Int
         /\ TakeRule.model = "feature_expression" => TakeValue(frame) \in Int
<1>1. frame.low \in Int /\ frame.high \in Int /\ StopRule.value \in Int /\ TakeRule.value \in Int
  BY SpecAssumption DEF Frame
<1>. QED BY <1>1 DEF StopValue, TakeValue, Sub

LEMMA SignalEntrySound ==
  ASSUME NEW st, Sound(st), NEW frame \in Frame, NEW index \in Nat \ {0}
  PROVE  Sound(SignalEntry(st, frame, index))
<1> DEFINE go == /\ ~IsSome(st.position) /\ ~IsSome(st.pending_entry)
                 /\ Eligible(st, index)
                 /\ Holds(EntryCondition, st.frames, index)
           order == [signal_index |-> index, stop_value |-> StopValue(frame),
                     take_value |-> TakeValue(frame)]
           note == [frame_index |-> index, kind |-> "entry_pending"]
           new == SignalEntry(st, frame, index)
<1>1. CASE ~go BY <1>1 DEF SignalEntry
<1>2. CASE go
  <2>0. st \in KernelState BY DEF Sound
  <2>1. new = [st EXCEPT !.pending_entry = <<order>>, !.decisions = Append(st.decisions, note)]
    BY <1>2 DEF SignalEntry
  <2>2. order \in Pending BY SignalValues DEF Pending
  <2>3. Resolved(order) BY SignalValues DEF Resolved
  <2>4. note \in Decision BY DEF Decision
  <2>5. st.position = <<>> BY <1>2 DEF IsSome
  <2> HIDE DEF order, note, go, new
  <2>6. Append(st.decisions, note) \in Seq(Decision) BY <2>4, SoundParts, AppendType
  <2>7. <<order>> \in Seq(Pending) /\ Len(<<order>>) = 1 BY <2>2, OneElement
  <2>8. new \in KernelState BY <2>0, <2>1, <2>6, <2>7 DEF KernelState
  <2>9. new.pending_entry = <<order>> /\ new.position = <<>>
    BY <2>0, <2>1, <2>5 DEF KernelState
  <2>10. Len(<<>>) = 0 /\ DOMAIN <<order>> = {1} /\ <<order>>[1] = order OBVIOUS
  <2>11. Sound(new) BY <2>3, <2>7, <2>8, <2>9, <2>10 DEF Sound
  <2>. QED BY <2>11 DEF new
<1>. QED BY <1>1, <1>2

\* One evaluated frame keeps the state sound.
LEMMA EvaluateSound ==
  ASSUME NEW st, Sound(st), NEW frame \in Frame
  PROVE  Sound(Evaluate(st, frame))
<1> DEFINE index == Len(st.frames) + 1
           arrived == Arrive(st, frame)
           opened == OpenPending(arrived, frame, index)
           counted == CountHeldBar(opened, IsSome(st.position))
           exited == TakeExit(counted, frame, index)
           flagged == FlagSignalExit(exited, index)
<1>1. index \in Nat /\ index \in Nat \ {0}
  <2>1. st.frames \in Seq(Frame) BY SoundParts
  <2>. QED BY <2>1, LenNat
<1>2. Sound(arrived) BY ArriveSound
<1>3. IsSome(st.position) \in BOOLEAN BY DEF IsSome
<1>4. Evaluate(st, frame) = IF frame.open_at < ExecutionStart THEN arrived
                            ELSE SignalEntry(flagged, frame, index)
  BY DEF Evaluate
<1> HIDE DEF index, arrived
<1>5. Sound(opened) BY <1>1, <1>2, OpenPendingSound
<1> HIDE DEF opened
<1>6. Sound(counted) BY <1>3, <1>5, CountHeldBarSound
<1> HIDE DEF counted
<1>7. Sound(exited) BY <1>1, <1>6, TakeExitSound
<1> HIDE DEF exited
<1>8. Sound(flagged) BY <1>7, FlagSignalExitSound
<1> HIDE DEF flagged
<1>9. Sound(SignalEntry(flagged, frame, index)) BY <1>1, <1>8, SignalEntrySound
<1>. QED BY <1>2, <1>4, <1>9

\* So does the end of the data: a held position has frames to close on.
LEMMA FinalizeSound ==
  ASSUME NEW st, Sound(st), IsSome(st.position) => st.frames # <<>>
  PROVE  Sound(Finalize(st))
<1> DEFINE index == Len(st.frames)
           note == [frame_index |-> index, kind |-> "no_next_bar"]
           dropped == IF IsSome(st.pending_entry)
                      THEN [st EXCEPT !.diagnostics = Append(st.diagnostics, note),
                                      !.pending_entry = <<>>]
                      ELSE st
<1>0. st \in KernelState /\ st.frames \in Seq(Frame) BY SoundParts DEF Sound
<1>1. index \in Nat BY <1>0, LenNat
<1>2. Sound(dropped) /\ dropped.position = st.position
  <2>1. CASE ~IsSome(st.pending_entry) BY <2>1
  <2>2. CASE IsSome(st.pending_entry)
    <3>1. note \in Diagnostic BY <1>1 DEF Diagnostic
    <3>2. dropped = [st EXCEPT !.diagnostics = Append(st.diagnostics, note),
                               !.pending_entry = <<>>]
      BY <2>2
    <3> HIDE DEF note, dropped
    <3>3. Append(st.diagnostics, note) \in Seq(Diagnostic) BY <3>1, SoundParts, AppendType
    <3>4. <<>> \in Seq(Pending) /\ Len(<<>>) = 0 BY EmptySeq
    <3>5. dropped \in KernelState BY <1>0, <3>2, <3>3, <3>4 DEF KernelState
    <3>6. dropped.pending_entry = <<>> /\ dropped.position = st.position
      BY <1>0, <3>2 DEF KernelState
    <3>7. st.position = <<>> BY <2>2, SoundParts
    <3>. QED BY <3>4, <3>5, <3>6, <3>7 DEF Sound
  <2>. QED BY <2>1, <2>2
<1>3. Finalize(st) = IF IsSome(dropped.position)
                     THEN Close(dropped, st.frames[index], index, "end_of_data",
                                st.frames[index].close)
                     ELSE dropped
  BY DEF Finalize
<1> HIDE DEF dropped
<1>4. CASE IsSome(dropped.position)
  <2>1. Len(st.frames) # 0 BY <1>0, <1>2, <1>4, EmptySeq
  <2>2. st.frames[index] \in Frame BY <1>0, <1>1, <2>1
  <2>3. st.frames[index].close \in Int BY <2>2 DEF Frame
  <2>. QED BY <1>1, <1>2, <1>3, <1>4, <2>2, <2>3, CloseSound
<1>. QED BY <1>2, <1>3, <1>4

----------------------------------------------------------------------------
(***************************************************************************)
(* The stages never read the logs they write: two states that differ in    *)
(* what was logged before them take the same step and log the same.        *)
(***************************************************************************)
Logs(T, D, G) == T \in Seq(Trade) /\ D \in Seq(Decision) /\ G \in Seq(Diagnostic)

\* a is b with T, D and G logged before everything b has logged.
Follows(a, b, T, D, G) ==
  /\ a.equity = b.equity /\ a.frames = b.frames /\ a.pending_entry = b.pending_entry
  /\ a.position = b.position /\ a.last_exit_index = b.last_exit_index
  /\ a.trade_seq = b.trade_seq
  /\ a.trades = T \o b.trades /\ a.decisions = D \o b.decisions
  /\ a.diagnostics = G \o b.diagnostics

LEMMA ConcatAppend ==
  ASSUME NEW S, NEW s \in Seq(S), NEW t \in Seq(S), NEW e
  PROVE  Append(s \o t, e) = s \o Append(t, e)
<1> DEFINE U == S \cup {e}
<1>1. s \in Seq(U) /\ t \in Seq(U) /\ e \in U OBVIOUS
<1> HIDE DEF U
<1>2. Append(s \o t, e) \in Seq(U) /\ s \o Append(t, e) \in Seq(U) BY <1>1
<1>3. Len(Append(s \o t, e)) = Len(s) + Len(t) + 1 /\ Len(s \o Append(t, e)) = Len(s) + Len(t) + 1
  BY <1>1
<1>4. \A i \in 1..(Len(s) + Len(t) + 1) : Append(s \o t, e)[i] = (s \o Append(t, e))[i]
  BY <1>1
<1>. QED BY <1>2, <1>3, <1>4, SeqEqual

\* A log entry of either kind is written after the same history.
LEMMA LogFollows ==
  ASSUME NEW T, NEW D, NEW G, Logs(T, D, G), NEW b, Sound(b), NEW e
  PROVE  /\ Append(T \o b.trades, e) = T \o Append(b.trades, e)
         /\ Append(D \o b.decisions, e) = D \o Append(b.decisions, e)
         /\ Append(G \o b.diagnostics, e) = G \o Append(b.diagnostics, e)
<1>1. b.trades \in Seq(Trade) /\ b.decisions \in Seq(Decision) /\ b.diagnostics \in Seq(Diagnostic)
  BY SoundParts
<1>2. T \in Seq(Trade) /\ D \in Seq(Decision) /\ G \in Seq(Diagnostic) BY DEF Logs
<1>3. ASSUME NEW S, NEW s \in Seq(S), NEW t \in Seq(S)
      PROVE  Append(s \o t, e) = s \o Append(t, e)
  BY ConcatAppend
<1>4. Append(T \o b.trades, e) = T \o Append(b.trades, e) BY <1>1, <1>2, <1>3
<1>5. Append(D \o b.decisions, e) = D \o Append(b.decisions, e) BY <1>1, <1>2, <1>3
<1>6. Append(G \o b.diagnostics, e) = G \o Append(b.diagnostics, e) BY <1>1, <1>2, <1>3
<1>. QED BY <1>4, <1>5, <1>6

LEMMA OpenPendingFollows ==
  ASSUME NEW T, NEW D, NEW G, Logs(T, D, G), NEW a, NEW b, Sound(a), Sound(b),
         Follows(a, b, T, D, G), NEW frame, NEW index
  PROVE  Follows(OpenPending(a, frame, index), OpenPending(b, frame, index), T, D, G)
<1> DEFINE price == frame.open
           stop == StopLoss(The(b.pending_entry), price)
           take == TakeProfit(The(b.pending_entry), price, stop)
           no == [frame_index |-> index, kind |-> "order_rejected"]
           yes == [frame_index |-> index, kind |-> "entry_filled"]
           pos == [qty |-> Quantity(b.equity, price, stop), entry_price |-> price,
                   opened_at |-> frame.open_at, stop_loss |-> stop, take_profit |-> take,
                   bars_held |-> 1, pending_signal_exit |-> FALSE]
<1>0. a \in KernelState /\ b \in KernelState BY DEF Sound
<1>1. a.pending_entry = b.pending_entry /\ a.equity = b.equity BY DEF Follows
<1>2. CASE ~IsSome(b.pending_entry) BY <1>1, <1>2 DEF OpenPending
<1>3. CASE IsSome(b.pending_entry) /\ OrderRejected(b.equity, price, stop, take)
  <2>1. /\ OpenPending(a, frame, index)
             = [a EXCEPT !.pending_entry = <<>>, !.diagnostics = Append(a.diagnostics, no)]
        /\ OpenPending(b, frame, index)
             = [b EXCEPT !.pending_entry = <<>>, !.diagnostics = Append(b.diagnostics, no)]
    BY <1>1, <1>3 DEF OpenPending
  <2> HIDE DEF no
  <2>2. Append(G \o b.diagnostics, no) = G \o Append(b.diagnostics, no) BY LogFollows
  <2>3. Append(a.diagnostics, no) = G \o Append(b.diagnostics, no) BY <2>2 DEF Follows
  <2>. QED BY <1>0, <2>1, <2>3 DEF Follows, KernelState
<1>4. CASE IsSome(b.pending_entry) /\ ~OrderRejected(b.equity, price, stop, take)
  <2>1. /\ OpenPending(a, frame, index)
             = [a EXCEPT !.pending_entry = <<>>, !.position = <<pos>>,
                         !.decisions = Append(a.decisions, yes)]
        /\ OpenPending(b, frame, index)
             = [b EXCEPT !.pending_entry = <<>>, !.position = <<pos>>,
                         !.decisions = Append(b.decisions, yes)]
    BY <1>1, <1>4 DEF OpenPending
  <2> HIDE DEF yes, pos
  <2>2. Append(a.decisions, yes) = D \o Append(b.decisions, yes) BY LogFollows, SMTT(20) DEF Follows
  <2>. QED BY <1>0, <2>1, <2>2, ZenonT(20) DEF Follows, KernelState
<1>. QED BY <1>2, <1>3, <1>4

LEMMA CloseFollows ==
  ASSUME NEW T, NEW D, NEW G, Logs(T, D, G), NEW a, NEW b, Sound(a), Sound(b),
         Follows(a, b, T, D, G), NEW frame, NEW index, NEW kind, NEW price
  PROVE  Follows(Close(a, frame, index, kind, price), Close(b, frame, index, kind, price),
                 T, D, G)
<1> DEFINE pos == The(b.position)
           pnl == NetPnl(pos, price)
           at == IF kind \in {"time_exit", "end_of_data"} THEN CloseAt(frame) ELSE frame.open_at
           trade == [seq |-> b.trade_seq + 1, opened_at |-> pos.opened_at, closed_at |-> at,
                     entry_price |-> pos.entry_price, exit_price |-> price, exit_kind |-> kind,
                     pnl |-> pnl, equity_after |-> b.equity + pnl,
                     stop_loss |-> pos.stop_loss, take_profit |-> pos.take_profit]
           fill == [frame_index |-> index, kind |-> "exit_filled"]
           After(st) == [st EXCEPT !.equity = b.equity + pnl, !.trade_seq = b.trade_seq + 1,
                                   !.trades = Append(st.trades, trade),
                                   !.decisions = Append(st.decisions, fill),
                                   !.position = <<>>, !.last_exit_index = index]
<1>0. a \in KernelState /\ b \in KernelState BY DEF Sound
<1>1. a.position = b.position /\ a.equity = b.equity /\ a.trade_seq = b.trade_seq
  BY DEF Follows
<1>2. /\ Close(a, frame, index, kind, price) = After(a)
      /\ Close(b, frame, index, kind, price) = After(b)
  BY <1>1 DEF Close
<1> HIDE DEF trade, fill, pnl
<1>3. /\ Append(T \o b.trades, trade) = T \o Append(b.trades, trade)
      /\ Append(D \o b.decisions, fill) = D \o Append(b.decisions, fill)
  BY LogFollows, SMTT(20)
<1>4. /\ Append(a.trades, trade) = T \o Append(b.trades, trade)
      /\ Append(a.decisions, fill) = D \o Append(b.decisions, fill)
  BY <1>3 DEF Follows
<1>5. /\ After(a).equity = After(b).equity /\ After(a).frames = After(b).frames
      /\ After(a).pending_entry = After(b).pending_entry
      /\ After(a).position = After(b).position
      /\ After(a).last_exit_index = After(b).last_exit_index
      /\ After(a).trade_seq = After(b).trade_seq
  BY <1>0 DEF Follows, KernelState
<1>6. /\ After(a).trades = Append(a.trades, trade) /\ After(b).trades = Append(b.trades, trade)
      /\ After(a).decisions = Append(a.decisions, fill)
      /\ After(b).decisions = Append(b.decisions, fill)
      /\ After(a).diagnostics = a.diagnostics /\ After(b).diagnostics = b.diagnostics
  BY <1>0 DEF KernelState
<1>7. a.diagnostics = G \o b.diagnostics BY DEF Follows
<1> HIDE DEF After
<1>8. Follows(After(a), After(b), T, D, G) BY <1>4, <1>5, <1>6, <1>7 DEF Follows
<1>. QED BY <1>2, <1>8

LEMMA TakeExitFollows ==
  ASSUME NEW T, NEW D, NEW G, Logs(T, D, G), NEW a, NEW b, Sound(a), Sound(b),
         Follows(a, b, T, D, G), NEW frame, NEW index
  PROVE  Follows(TakeExit(a, frame, index), TakeExit(b, frame, index), T, D, G)
<1> DEFINE pos == The(b.position)
           due == {i \in 1..4 : ExitDue(Priority[i], pos, frame)}
           first == CHOOSE i \in due : \A j \in due : i <= j
           price == ExitPrice(Priority[first], pos, frame)
<1>1. a.position = b.position BY DEF Follows
<1>2. CASE IsSome(b.position) /\ due # {}
  <2>1. /\ TakeExit(a, frame, index) = Close(a, frame, index, Priority[first], price)
        /\ TakeExit(b, frame, index) = Close(b, frame, index, Priority[first], price)
    BY <1>1, <1>2 DEF TakeExit
  <2> HIDE DEF price, first
  <2>. QED BY <2>1, CloseFollows
<1>3. CASE ~(IsSome(b.position) /\ due # {})
  <2>1. TakeExit(a, frame, index) = a /\ TakeExit(b, frame, index) = b
    BY <1>1, <1>3 DEF TakeExit
  <2>. QED BY <2>1
<1>. QED BY <1>2, <1>3

\* A stage that touches the open position only.
LEMMA RepositionFollows ==
  ASSUME NEW T, NEW D, NEW G, NEW a, NEW b, Sound(a), Sound(b), Follows(a, b, T, D, G), NEW pos
  PROVE  Follows([a EXCEPT !.position = <<pos>>], [b EXCEPT !.position = <<pos>>], T, D, G)
<1>0. a \in KernelState /\ b \in KernelState BY DEF Sound
<1>. QED BY <1>0 DEF Follows, KernelState

LEMMA CountHeldBarFollows ==
  ASSUME NEW T, NEW D, NEW G, NEW a, NEW b, Sound(a), Sound(b), Follows(a, b, T, D, G), NEW held
  PROVE  Follows(CountHeldBar(a, held), CountHeldBar(b, held), T, D, G)
<1> DEFINE pos == [The(b.position) EXCEPT !.bars_held = @ + 1]
<1>1. a.position = b.position BY DEF Follows
<1>2. CASE ~(held /\ IsSome(b.position)) BY <1>1, <1>2 DEF CountHeldBar
<1>3. CASE held /\ IsSome(b.position)
  <2>1. /\ CountHeldBar(a, held) = [a EXCEPT !.position = <<pos>>]
        /\ CountHeldBar(b, held) = [b EXCEPT !.position = <<pos>>]
    BY <1>1, <1>3 DEF CountHeldBar
  <2> HIDE DEF pos
  <2>. QED BY <2>1, RepositionFollows
<1>. QED BY <1>2, <1>3

LEMMA FlagSignalExitFollows ==
  ASSUME NEW T, NEW D, NEW G, NEW a, NEW b, Sound(a), Sound(b), Follows(a, b, T, D, G), NEW index
  PROVE  Follows(FlagSignalExit(a, index), FlagSignalExit(b, index), T, D, G)
<1> DEFINE flag == Holds(SignalExit, b.frames, index)
           pos == [The(b.position) EXCEPT !.pending_signal_exit = flag]
<1>1. a.position = b.position /\ a.frames = b.frames BY DEF Follows
<1>2. CASE ~IsSome(b.position) BY <1>1, <1>2 DEF FlagSignalExit
<1>3. CASE IsSome(b.position)
  <2>1. /\ FlagSignalExit(a, index) = [a EXCEPT !.position = <<pos>>]
        /\ FlagSignalExit(b, index) = [b EXCEPT !.position = <<pos>>]
    BY <1>1, <1>3 DEF FlagSignalExit
  <2> HIDE DEF pos
  <2>. QED BY <2>1, RepositionFollows
<1>. QED BY <1>2, <1>3

LEMMA SignalEntryFollows ==
  ASSUME NEW T, NEW D, NEW G, Logs(T, D, G), NEW a, NEW b, Sound(a), Sound(b),
         Follows(a, b, T, D, G), NEW frame, NEW index
  PROVE  Follows(SignalEntry(a, frame, index), SignalEntry(b, frame, index), T, D, G)
<1> DEFINE go == /\ ~IsSome(b.position) /\ ~IsSome(b.pending_entry)
                 /\ Eligible(b, index)
                 /\ Holds(EntryCondition, b.frames, index)
           order == [signal_index |-> index, stop_value |-> StopValue(frame),
                     take_value |-> TakeValue(frame)]
           note == [frame_index |-> index, kind |-> "entry_pending"]
<1>0. a \in KernelState /\ b \in KernelState BY DEF Sound
<1>1. /\ a.position = b.position /\ a.pending_entry = b.pending_entry /\ a.frames = b.frames
      /\ Eligible(a, index) = Eligible(b, index)
  BY DEF Follows, Eligible
<1>2. CASE ~go BY <1>1, <1>2 DEF SignalEntry
<1>3. CASE go
  <2>1. /\ SignalEntry(a, frame, index)
             = [a EXCEPT !.pending_entry = <<order>>, !.decisions = Append(a.decisions, note)]
        /\ SignalEntry(b, frame, index)
             = [b EXCEPT !.pending_entry = <<order>>, !.decisions = Append(b.decisions, note)]
    BY <1>1, <1>3 DEF SignalEntry
  <2> HIDE DEF order, note
  <2>2. Append(a.decisions, note) = D \o Append(b.decisions, note) BY LogFollows, SMTT(20) DEF Follows
  <2>. QED BY <1>0, <2>1, <2>2 DEF Follows, KernelState
<1>. QED BY <1>2, <1>3

\* So evaluate() from a state without its logs adds to them what it would add
\* with them: what a tick returns is what a replay appends.
LEMMA EvaluateFollows ==
  ASSUME NEW T, NEW D, NEW G, Logs(T, D, G), NEW a, NEW b, Sound(a), Sound(b),
         Follows(a, b, T, D, G), NEW frame \in Frame
  PROVE  Follows(Evaluate(a, frame), Evaluate(b, frame), T, D, G)
<1> DEFINE index == Len(b.frames) + 1
           Opened(st) == OpenPending(Arrive(st, frame), frame, index)
           Counted(st) == CountHeldBar(Opened(st), IsSome(b.position))
           Exited(st) == TakeExit(Counted(st), frame, index)
           Flagged(st) == FlagSignalExit(Exited(st), index)
<1>0. a \in KernelState /\ b \in KernelState BY DEF Sound
<1>1. index \in Nat /\ index \in Nat \ {0}
  <2>1. b.frames \in Seq(Frame) BY SoundParts
  <2>. QED BY <2>1, LenNat
<1>2. a.frames = b.frames /\ a.position = b.position BY DEF Follows
<1>3. \A st \in {a, b} :
        Evaluate(st, frame) = IF frame.open_at < ExecutionStart THEN Arrive(st, frame)
                              ELSE SignalEntry(Flagged(st), frame, index)
  BY <1>2 DEF Evaluate
<1>4. IsSome(b.position) \in BOOLEAN BY DEF IsSome
<1> HIDE DEF index
<1>5. Follows(Arrive(a, frame), Arrive(b, frame), T, D, G)
  BY <1>0 DEF Follows, Arrive, KernelState
<1>6. \A st \in {a, b} : Sound(st) OBVIOUS
<1>7. \A st \in {a, b} : Sound(Arrive(st, frame)) BY <1>6, ArriveSound
<1>8. \A st \in {a, b} : Sound(Opened(st)) BY <1>1, <1>7, OpenPendingSound
<1>9. Follows(Opened(a), Opened(b), T, D, G) BY <1>5, <1>7, OpenPendingFollows
<1> HIDE DEF Opened
<1>10. \A st \in {a, b} : Sound(Counted(st)) BY <1>4, <1>8, CountHeldBarSound
<1>11. Follows(Counted(a), Counted(b), T, D, G) BY <1>8, <1>9, CountHeldBarFollows
<1> HIDE DEF Counted
<1>12. \A st \in {a, b} : Sound(Exited(st)) BY <1>1, <1>10, TakeExitSound
<1>13. Follows(Exited(a), Exited(b), T, D, G) BY <1>10, <1>11, TakeExitFollows
<1> HIDE DEF Exited
<1>14. \A st \in {a, b} : Sound(Flagged(st)) BY <1>12, FlagSignalExitSound
<1>15. Follows(Flagged(a), Flagged(b), T, D, G) BY <1>12, <1>13, FlagSignalExitFollows
<1> HIDE DEF Flagged
<1>16. Follows(SignalEntry(Flagged(a), frame, index), SignalEntry(Flagged(b), frame, index),
               T, D, G)
  BY <1>14, <1>15, SignalEntryFollows
<1>. QED BY <1>3, <1>5, <1>16

\* Every stage leaves the bars alone but the first, which takes the new one in.
LEMMA EvaluateFrames ==
  ASSUME NEW st, Sound(st), NEW frame \in Frame
  PROVE  Evaluate(st, frame).frames = Append(st.frames, frame)
<1>1. ASSUME NEW s, Sound(s), NEW index PROVE OpenPending(s, frame, index).frames = s.frames
  <2>1. s \in KernelState BY <1>1 DEF Sound
  <2>. QED BY <2>1 DEF OpenPending, KernelState
<1>2. ASSUME NEW s, Sound(s), NEW held PROVE CountHeldBar(s, held).frames = s.frames
  <2>1. s \in KernelState BY <1>2 DEF Sound
  <2>. QED BY <2>1 DEF CountHeldBar, KernelState
<1>3. ASSUME NEW s, Sound(s), NEW index PROVE TakeExit(s, frame, index).frames = s.frames
  <2>1. s \in KernelState BY <1>3 DEF Sound
  <2>2. \A kind, price : Close(s, frame, index, kind, price).frames = s.frames
    BY <2>1 DEF Close, KernelState
  <2>. QED BY <2>2, TakeExitCases
<1>4. ASSUME NEW s, Sound(s), NEW index PROVE FlagSignalExit(s, index).frames = s.frames
  <2>1. s \in KernelState BY <1>4 DEF Sound
  <2>. QED BY <2>1 DEF FlagSignalExit, KernelState
<1>5. ASSUME NEW s, Sound(s), NEW index PROVE SignalEntry(s, frame, index).frames = s.frames
  <2>1. s \in KernelState BY <1>5 DEF Sound
  <2>. QED BY <2>1 DEF SignalEntry, KernelState
<1> DEFINE index == Len(st.frames) + 1
           arrived == Arrive(st, frame)
           opened == OpenPending(arrived, frame, index)
           counted == CountHeldBar(opened, IsSome(st.position))
           exited == TakeExit(counted, frame, index)
           flagged == FlagSignalExit(exited, index)
<1>6. index \in Nat
  <2>1. st.frames \in Seq(Frame) BY SoundParts
  <2>. QED BY <2>1, LenNat
<1>7. Evaluate(st, frame) = IF frame.open_at < ExecutionStart THEN arrived
                            ELSE SignalEntry(flagged, frame, index)
  BY DEF Evaluate
<1>8. IsSome(st.position) \in BOOLEAN BY DEF IsSome
<1> HIDE DEF index
<1>9. Sound(arrived) /\ arrived.frames = Append(st.frames, frame) BY ArriveSound
<1> HIDE DEF arrived
<1>10. Sound(opened) /\ opened.frames = arrived.frames BY <1>1, <1>6, <1>9, OpenPendingSound
<1> HIDE DEF opened
<1>11. Sound(counted) /\ counted.frames = opened.frames BY <1>2, <1>8, <1>10, CountHeldBarSound
<1> HIDE DEF counted
<1>12. Sound(exited) /\ exited.frames = counted.frames BY <1>3, <1>6, <1>11, TakeExitSound
<1> HIDE DEF exited
<1>13. Sound(flagged) /\ flagged.frames = exited.frames BY <1>4, <1>12, FlagSignalExitSound
<1> HIDE DEF flagged
<1>14. SignalEntry(flagged, frame, index).frames = flagged.frames BY <1>5, <1>13
<1>. QED BY <1>7, <1>9, <1>10, <1>11, <1>12, <1>13, <1>14
=============================================================================
