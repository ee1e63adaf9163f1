--------------------------- MODULE BasketRunProofs ---------------------------
(***************************************************************************)
(* Theorems about BasketRun, for any legs, instruments, prices and         *)
(* settings: every promise of the module about a basket.                   *)
(*                                                                         *)
(* A basket comes from a pending entry, so the entry must remember its bar: *)
(* while it is pending its signal is the last bar of the grid, a bar of    *)
(* the window that every leg has.  A bar some leg lacks keeps that true    *)
(* only because it drops the entry.  That is IInv.  On it rests RInv: a    *)
(* basket that is held is watched bar by bar, so that its flags tell of    *)
(* the last bar of all legs and no bar before it breached its stop or its  *)
(* target; what was left keeps its exit and its distance to the signals.   *)
(***************************************************************************)
EXTENDS BasketRun, SequenceTheorems, FiniteSetTheorems, WellFoundedInduction, TLAPS

\* Bar k of grid g has a price of every leg.
Complete(k, g) == k \in DOMAIN g /\ g[k] # None

\* The bar of one of the signals sig: in the window, complete, and readable.
SignalBar(k, g, a, sig) ==
  /\ k > WarmupBars /\ Complete(k, g) /\ g[k].feature # None
  /\ \E i \in DOMAIN sig : a[sig[i]] = k
FilledAfterSignal(b, g, a, sig) ==
  /\ b.opened_at \in Nat /\ SignalBar(b.opened_at, g, a, sig)
  /\ Complete(b.opened_at + 1, g) /\ b.entry = g[b.opened_at + 1].open

\* A basket has its fields, so that flags and counts are changed in place.
IsBasket(b) == {"opened_at", "entry"} \subseteq DOMAIN b

Typed ==
  /\ grid \in Seq(Shapes \cup {None})
  /\ aligned \in Seq(Nat \ {0}) /\ \A i \in DOMAIN aligned : aligned[i] \in DOMAIN grid
  /\ signals \in Seq(Nat) /\ \A i \in DOMAIN signals : signals[i] \in DOMAIN aligned
  /\ (\E T : trades \in Seq(T)) /\ (\E T : diagnostics \in Seq(T))
  /\ position = <<>> \/ (position = <<position[1]>> /\ IsBasket(position[1]))

Pending ==
  pending_entry # 0 =>
    /\ pending_entry \in DOMAIN aligned /\ aligned[pending_entry] = Len(grid)
    /\ position = <<>> /\ SignalBar(Len(grid), grid, aligned, signals)

Filled == \A b \in Baskets : FilledAfterSignal(b, grid, aligned, signals)

Counted ==
  Len(signals) = Len(trades) + Len(position) + Len(diagnostics)
                   + (IF pending_entry # 0 THEN 1 ELSE 0)

IInv == Typed /\ Pending /\ Filled /\ Counted

-----------------------------------------------------------------------------
\* What Append does to a sequence whatever its elements are.
LEMMA Appended ==
  ASSUME NEW T, NEW s \in Seq(T), NEW e
  PROVE  /\ Append(s, e) \in Seq(T \cup {e})
         /\ Len(s) \in Nat /\ DOMAIN s = 1..Len(s)
         /\ Len(Append(s, e)) = Len(s) + 1
         /\ DOMAIN Append(s, e) = 1..Len(s) + 1
         /\ \A i \in DOMAIN s : Append(s, e)[i] = s[i]
         /\ Append(s, e)[Len(s) + 1] = e
<1>1. s \in Seq(T \cup {e})
  OBVIOUS
<1> QED
  BY <1>1, AppendProperties

\* The baskets there are, one by one.
LEMMA BasketsAre ==
  ASSUME position = <<>> \/ position = <<position[1]>>
  PROVE  \A b : b \in Baskets <=> \/ position # <<>> /\ b = position[1]
                                  \/ \E i \in DOMAIN trades : b = trades[i]
  BY DEF Baskets

LEMMA Starts == ASSUME BasketAssumption, Init PROVE IInv
<1>1. \A T : <<>> \in Seq(T) /\ DOMAIN <<>> = {} /\ Len(<<>>) = 0
  BY EmptySeq
<1>2. Typed
  BY <1>1 DEF Init, Typed
<1>3. Pending /\ Counted
  BY <1>1 DEF Init, Pending, Counted
<1>4. Filled
  BY <1>1 DEF Init, Filled, Baskets
<1> QED
  BY <1>2, <1>3, <1>4 DEF IInv

-----------------------------------------------------------------------------
\* What was known of a bar stays known when the grid and the lists only grow.
Grown ==
  /\ DOMAIN grid \subseteq DOMAIN grid' /\ \A k \in DOMAIN grid : grid'[k] = grid[k]
  /\ DOMAIN aligned \subseteq DOMAIN aligned' /\ \A k \in DOMAIN aligned : aligned'[k] = aligned[k]
  /\ DOMAIN signals \subseteq DOMAIN signals' /\ \A k \in DOMAIN signals : signals'[k] = signals[k]

LEMMA SignalBarStays ==
  ASSUME Typed, Grown, NEW k, SignalBar(k, grid, aligned, signals)
  PROVE  SignalBar(k, grid', aligned', signals')
  BY DEF Typed, Grown, SignalBar, Complete

LEMMA FilledStays ==
  ASSUME Typed, Grown, NEW b, FilledAfterSignal(b, grid, aligned, signals)
  PROVE  FilledAfterSignal(b, grid', aligned', signals')
<1>1. b.opened_at \in Nat /\ SignalBar(b.opened_at, grid', aligned', signals')
  BY SignalBarStays DEF FilledAfterSignal
<1>2. Complete(b.opened_at + 1, grid') /\ b.entry = grid'[b.opened_at + 1].open
  BY DEF FilledAfterSignal, Complete, Grown
<1> QED
  BY <1>1, <1>2 DEF FilledAfterSignal

-----------------------------------------------------------------------------
LEMMA SkipKeeps == ASSUME BasketAssumption, IInv, SkipFrame PROVE IInv'
<1> USE DEF IInv
<1>1. /\ grid' = Append(grid, None) /\ grid' \in Seq(Shapes \cup {None})
      /\ DOMAIN grid \subseteq DOMAIN grid' /\ \A k \in DOMAIN grid : grid'[k] = grid[k]
  <2>1. None \in Shapes \cup {None} /\ grid \in Seq(Shapes \cup {None})
    BY DEF Typed
  <2> QED
    BY <2>1, AppendProperties DEF SkipFrame, Here
<1>2. Grown
  BY <1>1 DEF Grown, SkipFrame
<1>3. pending_entry' = 0
  BY DEF SkipFrame, EntryDropped
<1>4. \E T : diagnostics' \in Seq(T)
  <2>1. PICK T : diagnostics \in Seq(T)
    BY DEF Typed
  <2> DEFINE dropped == [bar |-> aligned[pending_entry], kind |-> "no_next_bar"]
  <2>2. diagnostics' = Append(diagnostics, dropped) \/ diagnostics' = diagnostics
    BY DEF SkipFrame
  <2> HIDE DEF dropped
  <2>3. Append(diagnostics, dropped) \in Seq(T \cup {dropped})
    BY <2>1, Appended
  <2> QED
    BY <2>1, <2>2, <2>3
<1>5. Typed'
  BY <1>1, <1>4 DEF SkipFrame, Typed
<1>6. Pending'
  BY <1>3 DEF Pending
<1>7. Filled'
  BY <1>2, FilledStays DEF Filled, Baskets, SkipFrame
<1>8. Counted'
  <2>1. /\ Len(signals) \in Nat /\ Len(trades) \in Nat
        /\ Len(position) \in Nat /\ Len(diagnostics) \in Nat
    BY LenProperties, EmptySeq DEF Typed
  <2>2. CASE pending_entry # 0
    <3>1. Len(diagnostics') = Len(diagnostics) + 1
      BY <2>2, Appended DEF SkipFrame, Typed, EntryDropped
    <3> QED
      BY <2>1, <2>2, <3>1, <1>3 DEF Counted, SkipFrame
  <2>3. CASE pending_entry = 0
    BY <2>3 DEF Counted, SkipFrame, EntryDropped
  <2> QED
    BY <2>2, <2>3
<1> QED
  BY <1>5, <1>6, <1>7, <1>8

\* A bar that every leg has joins the grid and the aligned ones.
LEMMA FrameJoins ==
  ASSUME BasketAssumption, Typed, NEW bar \in Shapes,
         grid' = Append(grid, bar), aligned' = Append(aligned, Here + 1)
  PROVE  /\ Here \in Nat
         /\ grid' \in Seq(Shapes \cup {None}) /\ aligned' \in Seq(Nat \ {0})
         /\ DOMAIN grid = 1..Here /\ DOMAIN grid' = 1..Here + 1
         /\ Len(grid') = Here + 1
         /\ grid'[Here + 1] = bar /\ \A k \in DOMAIN grid : grid'[k] = grid[k]
         /\ DOMAIN aligned = 1..Len(aligned) /\ DOMAIN aligned' = 1..Len(aligned) + 1
         /\ Len(aligned) \in Nat
         /\ aligned'[Len(aligned) + 1] = Here + 1
         /\ \A k \in DOMAIN aligned : aligned'[k] = aligned[k]
         /\ \A i \in DOMAIN aligned' : aligned'[i] \in DOMAIN grid'
<1>1. bar \in Shapes \cup {None} /\ grid \in Seq(Shapes \cup {None})
  BY DEF Typed
<1>2. /\ Here \in Nat /\ DOMAIN grid = 1..Here /\ grid' \in Seq(Shapes \cup {None})
      /\ DOMAIN grid' = 1..Here + 1 /\ Len(grid') = Here + 1
      /\ grid'[Here + 1] = bar /\ \A k \in DOMAIN grid : grid'[k] = grid[k]
  BY <1>1, AppendProperties, LenProperties DEF Here
<1>3. Here + 1 \in Nat \ {0} /\ aligned \in Seq(Nat \ {0})
  BY <1>2 DEF Typed
<1>4. /\ Len(aligned) \in Nat /\ DOMAIN aligned = 1..Len(aligned)
      /\ aligned' \in Seq(Nat \ {0})
      /\ DOMAIN aligned' = 1..Len(aligned) + 1 /\ aligned'[Len(aligned) + 1] = Here + 1
      /\ \A k \in DOMAIN aligned : aligned'[k] = aligned[k]
  BY <1>3, AppendProperties, LenProperties
<1>5. \A i \in DOMAIN aligned' : aligned'[i] \in DOMAIN grid'
  BY <1>2, <1>4 DEF Typed
<1> QED
  BY <1>2, <1>4, <1>5

LEMMA WarmupKeeps ==
  ASSUME BasketAssumption, IInv, NEW bar \in Shapes, WarmupFrame(bar) PROVE IInv'
<1> USE DEF IInv
<1>1. grid' = Append(grid, bar) /\ aligned' = Append(aligned, Here + 1)
  BY DEF WarmupFrame
<1>2. Grown
  BY <1>1, FrameJoins DEF Grown, WarmupFrame
<1>3. pending_entry = 0
  BY <1>1, FrameJoins DEF WarmupFrame, Warmup, Here, Pending, SignalBar, BasketAssumption
<1>4. Typed'
  <2>1. /\ grid' \in Seq(Shapes \cup {None}) /\ aligned' \in Seq(Nat \ {0})
        /\ \A i \in DOMAIN aligned' : aligned'[i] \in DOMAIN grid'
        /\ DOMAIN aligned \subseteq DOMAIN aligned'
    BY <1>1, <1>2, FrameJoins DEF Grown
  <2> QED
    BY <2>1 DEF Typed, WarmupFrame
<1>5. Pending' /\ Counted'
  BY <1>3 DEF Pending, Counted, WarmupFrame
<1>6. Filled'
  BY <1>2, FilledStays DEF Filled, Baskets, WarmupFrame
<1> QED
  BY <1>4, <1>5, <1>6

-----------------------------------------------------------------------------
\* A condition that is met could be read (_condition_hit_v3).
LEMMA HitsAreReadable ==
  ASSUME NEW cond, NEW features, NEW index, Hit(cond, features, index)
  PROVE  features[index] # None
  BY DEF Hit

\* A pending entry becomes a basket at this bar's opens or none at all.
LEMMA EnteredNow ==
  ASSUME NEW bar, pending_entry # 0
  PROVE  \/ Entered(bar) = <<>>
         \/ /\ Entered(bar) = <<Entered(bar)[1]>> /\ IsBasket(Entered(bar)[1])
            /\ Entered(bar)[1].opened_at = Here /\ Entered(bar)[1].entry = bar.open
  BY DEF Entered, Opened, IsBasket

\* A basket that is held only grows older.
LEMMA EnteredBefore ==
  ASSUME NEW bar, pending_entry = 0, Typed
  PROVE  \/ position = <<>> /\ Entered(bar) = <<>>
         \/ /\ position # <<>> /\ Entered(bar) = <<Entered(bar)[1]>> /\ IsBasket(Entered(bar)[1])
            /\ Entered(bar)[1].opened_at = position[1].opened_at
            /\ Entered(bar)[1].entry = position[1].entry
  BY DEF Entered, IsBasket, Typed

LEMMA FlaggedIsTheSame ==
  ASSUME NEW pos, IsBasket(pos), NEW bar, NEW features, NEW index
  PROVE  /\ IsBasket(Flagged(pos, bar, features, index))
         /\ Flagged(pos, bar, features, index).opened_at = pos.opened_at
         /\ Flagged(pos, bar, features, index).entry = pos.entry
  BY DEF Flagged, IsBasket

LEMMA ClosedIsTheSame ==
  ASSUME NEW pos, NEW kind, NEW bar, NEW at
  PROVE  /\ Closed(pos, kind, bar, at).opened_at = pos.opened_at
         /\ Closed(pos, kind, bar, at).entry = pos.entry
  BY DEF Closed

LEMMA AlignedKeeps ==
  ASSUME BasketAssumption, IInv, NEW bar \in Shapes, AlignedFrame(bar) PROVE IInv'
<1> USE DEF IInv
<1> DEFINE index == Len(aligned) + 1
           features == Features(grid', aligned')
           entered == Entered(bar)
           leaves == entered # <<>> /\ DueExits(entered[1]) # {}
           stays == entered # <<>> /\ ~leaves
           signal == /\ ~stays
                     /\ Eligible(index, last_exit_index')
                     /\ Hit(EntryCondition, features, index)
           trade == Closed(entered[1], FirstDue(entered[1]), bar, Here)
           refusal == [bar |-> Here + 1, kind |-> "leg_min_order"]
           held == Flagged(entered[1], bar, features, index)
<1>1. /\ ~Warmup
      /\ grid' = Append(grid, bar) /\ aligned' = Append(aligned, Here + 1)
      /\ diagnostics' = IF Refused(entered, bar) THEN Append(diagnostics, refusal) ELSE diagnostics
      /\ trades' = IF leaves THEN Append(trades, trade) ELSE trades
      /\ position' = IF stays THEN <<held>> ELSE <<>>
      /\ pending_entry' = IF signal THEN index ELSE 0
      /\ signals' = IF signal THEN Append(signals, index) ELSE signals
  BY DEF AlignedFrame
<1> HIDE DEF entered, features, leaves, stays, signal, trade, refusal, held
<1>2. /\ Here \in Nat
      /\ grid' \in Seq(Shapes \cup {None}) /\ aligned' \in Seq(Nat \ {0})
      /\ DOMAIN grid = 1..Here /\ DOMAIN grid' = 1..Here + 1 /\ Len(grid') = Here + 1
      /\ grid'[Here + 1] = bar /\ \A k \in DOMAIN grid : grid'[k] = grid[k]
      /\ Len(aligned) \in Nat
      /\ DOMAIN aligned = 1..Len(aligned) /\ DOMAIN aligned' = 1..Len(aligned) + 1
      /\ aligned'[Len(aligned) + 1] = Here + 1
      /\ \A k \in DOMAIN aligned : aligned'[k] = aligned[k]
      /\ \A i \in DOMAIN aligned' : aligned'[i] \in DOMAIN grid'
  BY <1>1, FrameJoins
<1>3. index \in Nat \ {0} /\ index \in DOMAIN aligned' /\ aligned'[index] = Here + 1
  BY <1>2
<1>4. /\ signals \in Seq(Nat) /\ Len(signals) \in Nat /\ DOMAIN signals = 1..Len(signals)
      /\ signals' \in Seq(Nat)
      /\ signal => /\ Len(signals') = Len(signals) + 1
                   /\ DOMAIN signals' = 1..Len(signals) + 1
                   /\ signals'[Len(signals) + 1] = index
      /\ \A k \in DOMAIN signals : k \in DOMAIN signals' /\ signals'[k] = signals[k]
  <2>1. signals \in Seq(Nat) /\ index \in Nat
    BY <1>3 DEF Typed
  <2>2. CASE signal
    BY <2>1, <2>2, <1>1, AppendProperties, LenProperties
  <2>3. CASE ~signal
    BY <2>1, <2>3, <1>1, LenProperties
  <2> QED
    BY <2>2, <2>3
<1>5. Grown
  BY <1>2, <1>4 DEF Grown
<1>6. /\ \E T : trades' \in Seq(T)
      /\ leaves => /\ Len(trades') = Len(trades) + 1 /\ DOMAIN trades' = 1..Len(trades) + 1
                   /\ trades'[Len(trades) + 1] = trade
      /\ DOMAIN trades = 1..Len(trades)
      /\ Len(trades) \in Nat /\ \A k \in DOMAIN trades : trades'[k] = trades[k]
  <2>1. PICK T : trades \in Seq(T)
    BY DEF Typed
  <2>2. CASE leaves
    <3>1. trades' = Append(trades, trade)
      BY <2>2, <1>1
    <3>2. /\ Append(trades, trade) \in Seq(T \cup {trade})
          /\ Len(trades) \in Nat /\ DOMAIN trades = 1..Len(trades)
          /\ Len(Append(trades, trade)) = Len(trades) + 1
          /\ DOMAIN Append(trades, trade) = 1..Len(trades) + 1
          /\ \A i \in DOMAIN trades : Append(trades, trade)[i] = trades[i]
          /\ Append(trades, trade)[Len(trades) + 1] = trade
      BY <2>1, Appended
    <3> QED
      BY <2>2, <3>1, <3>2
  <2>3. CASE ~leaves
    BY <2>1, <2>3, <1>1, LenProperties
  <2> QED
    BY <2>2, <2>3
<1>7. /\ \E T : diagnostics' \in Seq(T)
      /\ Len(diagnostics) \in Nat
      /\ Len(diagnostics') = Len(diagnostics) + (IF Refused(entered, bar) THEN 1 ELSE 0)
  <2>1. PICK T : diagnostics \in Seq(T)
    BY DEF Typed
  <2>2. CASE Refused(entered, bar)
    <3>1. diagnostics' = Append(diagnostics, refusal)
      BY <2>2, <1>1
    <3>2. /\ Append(diagnostics, refusal) \in Seq(T \cup {refusal}) /\ Len(diagnostics) \in Nat
          /\ Len(Append(diagnostics, refusal)) = Len(diagnostics) + 1
      BY <2>1, Appended
    <3> QED
      BY <2>2, <3>1, <3>2
  <2>3. CASE ~Refused(entered, bar)
    BY <2>1, <2>3, <1>1, LenProperties
  <2> QED
    BY <2>2, <2>3
<1>8. entered # <<>> => /\ entered = <<entered[1]>> /\ IsBasket(entered[1])
                        /\ FilledAfterSignal(entered[1], grid', aligned', signals')
  <2>1. CASE pending_entry # 0
    <3>1. SUFFICES ASSUME entered # <<>>
          PROVE  FilledAfterSignal(entered[1], grid', aligned', signals')
      BY <2>1, EnteredNow DEF entered
    <3>2. entered[1].opened_at = Here /\ entered[1].entry = bar.open
      BY <2>1, <3>1, EnteredNow DEF entered
    <3>3. SignalBar(Here, grid', aligned', signals')
      BY <2>1, <1>5, SignalBarStays DEF Pending, Here
    <3>4. Complete(Here + 1, grid') /\ bar.open = grid'[Here + 1].open
      BY <1>2 DEF Complete, BasketAssumption
    <3> QED
      BY <1>2, <3>2, <3>3, <3>4 DEF FilledAfterSignal
  <2>2. CASE pending_entry = 0
    <3>1. SUFFICES ASSUME entered # <<>>
          PROVE  FilledAfterSignal(entered[1], grid', aligned', signals')
      BY <2>2, EnteredBefore DEF entered
    <3>2. /\ position # <<>>
          /\ entered[1].opened_at = position[1].opened_at /\ entered[1].entry = position[1].entry
      BY <2>2, <3>1, EnteredBefore DEF entered
    <3>3. FilledAfterSignal(position[1], grid, aligned, signals)
      BY <3>2, BasketsAre DEF Filled, Typed
    <3>4. FilledAfterSignal(position[1], grid', aligned', signals')
      BY <3>3, <1>5, FilledStays
    <3> QED
      BY <3>2, <3>4 DEF FilledAfterSignal
  <2> QED
    BY <2>1, <2>2
<1>9. position' = <<>> \/ (position' = <<position'[1]>> /\ IsBasket(position'[1]))
  BY <1>1, <1>8, FlaggedIsTheSame DEF stays, held
<1>10. Typed'
  <2>1. \A i \in DOMAIN signals' : signals'[i] \in DOMAIN aligned'
    <3>1. \A i \in DOMAIN signals : signals[i] \in DOMAIN aligned'
      BY <1>5 DEF Typed, Grown
    <3>2. CASE signal
      BY <3>1, <3>2, <1>3, <1>4
    <3>3. CASE ~signal
      BY <3>1, <3>3, <1>1
    <3> QED
      BY <3>2, <3>3
  <2> QED
    BY <2>1, <1>2, <1>4, <1>6, <1>7, <1>9 DEF Typed
<1>11. Pending'
  <2>1. SUFFICES ASSUME pending_entry' # 0
        PROVE  /\ pending_entry' \in DOMAIN aligned' /\ aligned'[pending_entry'] = Len(grid')
               /\ position' = <<>> /\ SignalBar(Len(grid'), grid', aligned', signals')
    BY DEF Pending
  <2>2. signal /\ pending_entry' = index /\ position' = <<>>
    BY <2>1, <1>1 DEF signal
  <2>3. bar.feature # None
    <3>1. features[index] # None
      BY <2>2, HitsAreReadable DEF signal
    <3>2. features[index] = bar.feature
      BY <1>2, <1>3 DEF features, Features
    <3> QED
      BY <3>1, <3>2
  <2>4. SignalBar(Here + 1, grid', aligned', signals')
    <3>1. Here + 1 > WarmupBars
      BY <1>1, <1>2 DEF Warmup, BasketAssumption
    <3>2. Complete(Here + 1, grid') /\ grid'[Here + 1].feature # None
      BY <1>2, <2>3 DEF Complete, BasketAssumption
    <3>3. \E i \in DOMAIN signals' : aligned'[signals'[i]] = Here + 1
      <4>1. Len(signals) + 1 \in DOMAIN signals' /\ signals'[Len(signals) + 1] = index
        BY <1>4, <2>2
      <4> QED
        BY <4>1, <1>3
    <3> QED
      BY <3>1, <3>2, <3>3 DEF SignalBar
  <2> QED
    BY <2>2, <2>4, <1>2, <1>3
<1>12. Filled'
  <2>1. \A i \in DOMAIN trades : FilledAfterSignal(trades[i], grid', aligned', signals')
    BY <1>5, FilledStays DEF Filled, Baskets
  <2>2. \A i \in DOMAIN trades' : FilledAfterSignal(trades'[i], grid', aligned', signals')
    <3>1. CASE leaves
      <4>1. FilledAfterSignal(trade, grid', aligned', signals')
        BY <3>1, <1>8, ClosedIsTheSame DEF leaves, trade, FilledAfterSignal
      <4> QED
        BY <3>1, <4>1, <2>1, <1>6
    <3>2. CASE ~leaves
      BY <3>2, <2>1, <1>1
    <3> QED
      BY <3>1, <3>2
  <2>3. position' # <<>> => FilledAfterSignal(position'[1], grid', aligned', signals')
    <3>1. SUFFICES ASSUME stays, position' = <<held>>
          PROVE  FilledAfterSignal(held, grid', aligned', signals')
      BY <1>1
    <3>2. held.opened_at = entered[1].opened_at /\ held.entry = entered[1].entry
      BY <3>1, <1>8, FlaggedIsTheSame DEF stays, held
    <3> QED
      BY <3>1, <3>2, <1>8 DEF stays, FilledAfterSignal
  <2> QED
    BY <2>2, <2>3, <1>9 DEF Filled, Baskets
<1>13. Counted'
  <2> DEFINE told == IF signal THEN 1 ELSE 0
             left == IF leaves THEN 1 ELSE 0
             kept == IF stays THEN 1 ELSE 0
             refused == IF Refused(entered, bar) THEN 1 ELSE 0
             waited == IF pending_entry # 0 THEN 1 ELSE 0
             waits == IF pending_entry' # 0 THEN 1 ELSE 0
  <2>1. Len(position) = (IF position = <<>> THEN 0 ELSE 1)
    BY DEF Typed
  <2>2. Len(position') = kept
    BY <1>1
  <2>3. Len(signals') = Len(signals) + told
    BY <1>1, <1>4
  <2>4. Len(trades') = Len(trades) + left
    BY <1>1, <1>6
  <2>5. waits = told
    BY <1>1, <1>3
  <2>6. Len(position) + waited = left + kept + refused
    <3>1. CASE pending_entry # 0
      BY <3>1, <2>1 DEF Pending, Refused, leaves, stays
    <3>2. CASE pending_entry = 0
      BY <3>2, <2>1, EnteredBefore DEF Refused, leaves, stays, entered
    <3> QED
      BY <3>1, <3>2
  <2>7. /\ Len(signals) \in Nat /\ Len(trades) \in Nat /\ Len(diagnostics) \in Nat
        /\ Len(position) \in Nat
        /\ told \in Nat /\ left \in Nat /\ kept \in Nat /\ refused \in Nat /\ waited \in Nat
    BY <2>1, <1>4, <1>6, <1>7
  <2>8. Len(diagnostics') = Len(diagnostics) + refused
    BY <1>7
  <2>9. Len(signals) = Len(trades) + Len(position) + Len(diagnostics) + waited
    BY DEF Counted
  <2> HIDE DEF told, left, kept, refused, waited, waits
  <2>10. Len(signals') = Len(trades') + Len(position') + Len(diagnostics') + waits
    BY <2>2, <2>3, <2>4, <2>5, <2>6, <2>7, <2>8, <2>9, SMTT(20)
  <2> QED
    BY <2>10 DEF Counted, waits
<1> QED
  BY <1>10, <1>11, <1>12, <1>13

-----------------------------------------------------------------------------
LEMMA FinishKeeps == ASSUME BasketAssumption, IInv, Finish PROVE IInv'
<1> USE DEF IInv
<1> DEFINE end == aligned[Len(aligned)]
           trade == Closed(position[1], "end_of_data", grid[end], end - 1)
           missed == [bar |-> aligned[pending_entry], kind |-> "no_next_bar"]
<1>1. /\ diagnostics' = IF pending_entry # 0 THEN Append(diagnostics, missed) ELSE diagnostics
      /\ trades' = IF position # <<>> THEN Append(trades, trade) ELSE trades
      /\ position' = <<>> /\ pending_entry' = 0
      /\ grid' = grid /\ aligned' = aligned /\ signals' = signals
  BY DEF Finish
<1> HIDE DEF trade, missed
<1>2. Grown
  BY <1>1 DEF Grown
<1>3. /\ \E T : trades' \in Seq(T)
      /\ Len(trades) \in Nat /\ Len(trades') = Len(trades) + (IF position # <<>> THEN 1 ELSE 0)
      /\ \A i \in DOMAIN trades' : \/ i \in DOMAIN trades /\ trades'[i] = trades[i]
                                   \/ position # <<>> /\ trades'[i] = trade
  <2>1. PICK T : trades \in Seq(T)
    BY DEF Typed
  <2>2. CASE position # <<>>
    <3>1. trades' = Append(trades, trade)
      BY <2>2, <1>1
    <3>2. /\ trades' \in Seq(T \cup {trade}) /\ Len(trades) \in Nat /\ DOMAIN trades = 1..Len(trades)
          /\ Len(trades') = Len(trades) + 1 /\ DOMAIN trades' = 1..Len(trades) + 1
          /\ \A i \in DOMAIN trades : trades'[i] = trades[i]
          /\ trades'[Len(trades) + 1] = trade
      BY <2>1, <3>1, Appended
    <3> QED
      BY <2>2, <3>2
  <2>3. CASE position = <<>>
    BY <2>1, <2>3, <1>1, LenProperties
  <2> QED
    BY <2>2, <2>3
<1>4. /\ \E T : diagnostics' \in Seq(T)
      /\ Len(diagnostics) \in Nat
      /\ Len(diagnostics') = Len(diagnostics) + (IF pending_entry # 0 THEN 1 ELSE 0)
  <2>1. PICK T : diagnostics \in Seq(T)
    BY DEF Typed
  <2>2. CASE pending_entry # 0
    <3>1. diagnostics' = Append(diagnostics, missed)
      BY <2>2, <1>1
    <3> QED
      BY <2>1, <2>2, <3>1, Appended
  <2>3. CASE pending_entry = 0
    BY <2>1, <2>3, <1>1, LenProperties
  <2> QED
    BY <2>2, <2>3
<1>5. Typed'
  BY <1>1, <1>3, <1>4 DEF Typed
<1>6. Pending'
  BY <1>1 DEF Pending
<1>7. Filled'
  <2>1. \A i \in DOMAIN trades : FilledAfterSignal(trades[i], grid', aligned', signals')
    BY <1>2, FilledStays DEF Filled, Baskets
  <2>2. position # <<>> => FilledAfterSignal(trade, grid', aligned', signals')
    <3>1. SUFFICES ASSUME position # <<>> PROVE FilledAfterSignal(trade, grid', aligned', signals')
      OBVIOUS
    <3>2. FilledAfterSignal(position[1], grid', aligned', signals')
      BY <3>1, <1>2, FilledStays, BasketsAre DEF Filled, Typed
    <3> QED
      BY <3>2, ClosedIsTheSame DEF trade, FilledAfterSignal
  <2>3. \A i \in DOMAIN trades' : FilledAfterSignal(trades'[i], grid', aligned', signals')
    BY <2>1, <2>2, <1>3
  <2>4. DOMAIN <<>> = {}
    OBVIOUS
  <2> QED
    BY <2>3, <2>4, <1>1 DEF Filled, Baskets
<1>8. Counted'
  <2> DEFINE waited == IF pending_entry # 0 THEN 1 ELSE 0
  <2>1. Len(position) = (IF position = <<>> THEN 0 ELSE 1)
    BY DEF Typed
  <2>2. Len(trades') = Len(trades) + Len(position) /\ Len(position) \in Nat /\ Len(trades) \in Nat
    BY <2>1, <1>3
  <2>3. Len(diagnostics') = Len(diagnostics) + waited /\ waited \in Nat /\ Len(diagnostics) \in Nat
    BY <1>4
  <2>4. Len(signals) = Len(trades) + Len(position) + Len(diagnostics) + waited
    BY DEF Counted
  <2> HIDE DEF waited
  <2>5. Len(signals) = Len(trades') + Len(diagnostics')
    BY <2>2, <2>3, <2>4
  <2>6. Len(trades') \in Nat /\ Len(diagnostics') \in Nat
    BY <2>2, <2>3
  <2>7. Len(signals') = Len(signals) /\ Len(position') = 0 /\ pending_entry' = 0
    BY <1>1
  <2> QED
    BY <2>5, <2>6, <2>7 DEF Counted
<1> QED
  BY <1>5, <1>6, <1>7, <1>8

LEMMA StutterKeeps == ASSUME IInv, UNCHANGED vars PROVE IInv'
<1>1. Typed' /\ Pending' /\ Counted'
  BY DEF IInv, Typed, Pending, Counted, SignalBar, Complete, vars
<1>2. Filled'
  BY DEF IInv, Filled, Baskets, FilledAfterSignal, SignalBar, Complete, vars
<1> QED
  BY <1>1, <1>2 DEF IInv

-----------------------------------------------------------------------------
\* A pending entry remembers its bar, every basket was filled after its signal,
\* and signals, baskets and diagnostics tally (simulate_v3).
THEOREM BasketInvariance == ASSUME BasketAssumption PROVE Spec => []IInv
<1>1. IInv /\ [Next]_vars => IInv'
  BY SkipKeeps, WarmupKeeps, AlignedKeeps, FinishKeeps, StutterKeeps DEF Next
<1> QED
  BY <1>1, Starts, PTL DEF Spec

\* Every basket, held or left, was filled at the opens of the bar right after
\* a bar of the window whose condition could be read and was met (simulate_v3).
THEOREM BasketsFollowSignals == ASSUME BasketAssumption PROVE Spec => []FillsFollowSignals
<1>1. IInv => FillsFollowSignals
  BY DEF IInv, Filled, FillsFollowSignals, FilledAfterSignal, SignalBar, Complete
<1> QED
  BY <1>1, BasketInvariance, PTL

\* Every signal became a trade, the basket that is held, a diagnostic, or is
\* still pending (simulate_v3).
THEOREM SignalsTally == ASSUME BasketAssumption PROVE Spec => []Counted
<1>1. IInv => Counted
  BY DEF IInv
<1> QED
  BY <1>1, BasketInvariance, PTL

-----------------------------------------------------------------------------
(***************************************************************************)
(* The second inductive invariant: the rules a basket keeps while it is    *)
(* held and when it is left.  Its parts name the grid, so that a basket    *)
(* can be spoken of before and after a bar has joined.                     *)
(***************************************************************************)

\* The bars that every leg has, from the fill of b to bar n of grid g.
Bars(b, g, n) == {k \in b.opened_at + 1..n : g[k] # None}

\* The aligned bars come in their order, and are those that every leg has.
Lined(a, g) ==
  /\ \A i, j \in DOMAIN a : i < j => a[i] < a[j]
  /\ \A k \in DOMAIN g : g[k] # None => \E i \in DOMAIN a : a[i] = k
  /\ \A i \in DOMAIN a : g[a[i]] # None

Gaps(g, n) == {k \in WarmupBars + 1..n : g[k] = None}

\* The grid is laid out by bars, counted gaps and the indexes into them.
Laid ==
  /\ Lined(aligned, grid) /\ skipped_bars = Cardinality(Gaps(grid, Len(grid)))
  /\ pending_entry \in 0..Len(aligned) /\ last_exit_index \in 0..Len(aligned)
  /\ status \in {"running", "done"}
  /\ position # <<>> => position[1] \in Basket

\* The rule of LegsBalanced for one basket.
Balanced(b) ==
  LET notional(leg) == b.qty[leg] * b.entry[leg]
      step(leg) == QtyStep[leg] * b.entry[leg]
      budget == MarginPerLeg * Leverage
      affords(leg) == budget - (budget % step(leg))
  IN \A y \in Legs :
       /\ 0 < notional(y) /\ \A z \in Legs : notional(y) <= affords(z)
       /\ \E z \in Legs : affords(z) < notional(y) + step(y)

\* No bar of K but the last has breached b, and for the last the flags tell.
Unbreached(b, g, k) == ~StopBreached(b, g[k]) /\ ~TakeReached(b, g[k])
Watched(b, g, K) ==
  /\ \A k \in K \ Latest(K) : Unbreached(b, g, k)
  /\ \A k \in Latest(K) : /\ b.pending_stop = StopBreached(b, g[k])
                          /\ b.pending_take = TakeReached(b, g[k])
  /\ K = {} => ~b.pending_stop /\ ~b.pending_take

Held ==
  position # <<>> =>
    LET b == position[1]
    IN /\ Watched(b, grid, Bars(b, grid, Len(grid)))
       /\ b.bars_held = Cardinality(Bars(b, grid, Len(grid)))
       /\ TimeExitBars > 0 => b.bars_held < TimeExitBars
       /\ \A j \in DOMAIN signals : aligned[signals[j]] <= b.opened_at

ExitBar(t) == IF t.exit_kind \in {"time_exit", "end_of_data"} THEN t.closed_at ELSE t.closed_at + 1

\* A trade was left on the first bar after a breach, for the reason that comes first.
LeftAt(t, g) ==
  LET exit == ExitBar(t)
      held == Bars(t, g, exit - 1)
  IN t.exit_kind # "end_of_data" =>
       /\ Complete(exit, g)
       /\ \A k \in held \ Latest(held) : Unbreached(t, g, k)
       /\ \A k \in Latest(held) :
            /\ t.exit_kind = "stop_loss" => StopBreached(t, g[k])
            /\ t.exit_kind = "take_profit" => TakeReached(t, g[k])
            /\ StopBreached(t, g[k]) /\ Priority[1] = "stop_loss" => t.exit_kind = "stop_loss"

Left == \A i \in DOMAIN trades : LeftAt(trades[i], grid)

\* A trade's exit is one of the aligned bars, and later signals keep their distance.
Spaced(t, a, sig, last) ==
  \E e \in DOMAIN a :
    /\ a[e] = ExitBar(t) /\ e <= last
    /\ \A j \in DOMAIN sig : a[sig[j]] > t.opened_at => sig[j] - e >= CooldownBars

Cooled == \A i \in DOMAIN trades : Spaced(trades[i], aligned, signals, last_exit_index)

\* A mark lies in the trade that came of its basket, or its basket is still held.
InTrade(m, ts) ==
  /\ m.realized_count + 1 \in DOMAIN ts
  /\ ts[m.realized_count + 1].opened_at < m.ts /\ m.ts <= ts[m.realized_count + 1].closed_at
InPosition(m, p, ts, a) ==
  /\ p # <<>> /\ m.realized_count = Len(ts)
  /\ p[1].opened_at < m.ts /\ \E i \in DOMAIN a : m.ts = a[i]
Marks ==
  /\ \E T : mtm_points \in Seq(T)
  /\ \A i \in DOMAIN mtm_points :
       InTrade(mtm_points[i], trades) \/ InPosition(mtm_points[i], position, trades, aligned)

RInv ==
  /\ Laid /\ (\A b \in Baskets : Balanced(b)) /\ Held /\ Left /\ Cooled /\ Marks
  /\ status = "done" => position = <<>>

-----------------------------------------------------------------------------
\* A set of numbers that is not empty has a least one.
LEMMA LeastOf ==
  ASSUME NEW S, S \subseteq Nat, S # {}
  PROVE  \E n \in S : \A m \in S : n <= m
<1>1. IsWellFoundedOn(OpToRel(<, Nat), Nat)
  BY NatLessThanWellFounded
<1>2. PICK n \in S : \A m \in S : ~(<<m, n>> \in OpToRel(<, Nat))
  BY <1>1, WFMin
<1>3. \A m \in S : ~(m < n)
  BY <1>2 DEF OpToRel
<1> QED
  BY <1>3

LEMMA Division ==
  ASSUME NEW a \in Nat, NEW s \in Nat \ {0}
  PROVE  /\ a \div s \in Nat /\ a % s \in Nat /\ a % s < s
         /\ (a \div s) * s = a - (a % s)
<1> DEFINE q == a \div s
           r == a % s
<1>1. q \in Int /\ r \in Nat /\ r < s /\ a = s * q + r
  OBVIOUS
<1>2. q \in Nat
  OBVIOUS
<1>3. q * s = s * q
  BY <1>1
<1> HIDE DEF q, r
<1>4. q * s = a - r
  BY <1>1, <1>3
<1> QED
  BY <1>1, <1>2, <1>4 DEF q, r

\* What an amount buys at price p in steps of s, and what it costs (_floor_to_step).
LEMMA RoundedDown ==
  ASSUME NEW a \in Nat, NEW p \in Nat \ {0}, NEW s \in Nat \ {0}
  PROVE  /\ p * s \in Nat \ {0}
         /\ (a \div (p * s)) * s \in Nat
         /\ ((a \div (p * s)) * s) * p = a - (a % (s * p))
         /\ a % (s * p) \in Nat /\ a % (s * p) < s * p
<1> DEFINE u == p * s
           q == a \div u
<1>1. u \in Nat \ {0} /\ s * p = u
  OBVIOUS
<1>2. q \in Nat /\ a % u \in Nat /\ a % u < u /\ q * u = a - (a % u)
  BY <1>1, Division
<1> HIDE DEF q
<1>3. (q * s) * p = q * (p * s) /\ q * s \in Nat
  BY <1>2
<1> QED
  BY <1>1, <1>2, <1>3 DEF q

-----------------------------------------------------------------------------
\* The quantities of a basket at a bar none of whose legs is rejected (open_basket).
LEMMA QuantitiesBalance ==
  ASSUME BasketAssumption, NEW bar \in Shapes, RejectedLegs(bar) = {},
         NEW b, b.qty = Quantities(bar), b.entry = bar.open
  PROVE  Balanced(b) /\ Quantities(bar) \in [Legs -> Nat]
<1> DEFINE budget == MarginPerLeg * Leverage
           first == FirstPass(bar)
           step(leg) == QtyStep[leg] * bar.open[leg]
           notionals == {first[leg] * bar.open[leg] : leg \in {l \in Legs : first[l] > 0}}
           A == Anchor(bar)
<1>1. /\ budget \in Nat
      /\ \A leg \in Legs : /\ bar.open[leg] \in Nat \ {0} /\ QtyStep[leg] \in Nat \ {0}
                           /\ MinQty[leg] \in Nat \ {0}
  BY DEF BasketAssumption
<1>2. \A leg \in Legs : /\ first[leg] \in Nat
                        /\ first[leg] * bar.open[leg] = budget - (budget % step(leg))
  BY <1>1, RoundedDown DEF FirstPass, FloorToStep
<1>3. \A leg \in Legs : first[leg] > 0
  BY <1>2 DEF RejectedLegs
<1> HIDE DEF first, budget
<1>4. \A leg \in Legs : first[leg] * bar.open[leg] \in Nat
  BY <1>1, <1>2
<1>5. notionals = {first[leg] * bar.open[leg] : leg \in Legs}
  BY <1>3
<1>6. notionals \subseteq Nat /\ notionals # {}
  <2>1. Legs # {}
    BY FS_EmptySet DEF BasketAssumption
  <2> QED
    BY <2>1, <1>4, <1>5
<1>7. A \in notionals /\ \A m \in notionals : A <= m
  <2>1. \E n \in notionals : \A m \in notionals : n <= m
    BY <1>6, LeastOf
  <2>2. A = CHOOSE n \in notionals : \A m \in notionals : n <= m
    BY <1>6 DEF Anchor, first
  <2> QED
    BY <2>1, <2>2
<1> HIDE DEF notionals, A
<1>8. A \in Nat
  BY <1>6, <1>7
<1>9. \A leg \in Legs : A <= budget - (budget % step(leg))
  BY <1>2, <1>5, <1>7
<1>10. \E z \in Legs : A = budget - (budget % step(z))
  BY <1>2, <1>5, <1>7
<1>11. \A leg \in Legs :
         /\ Quantities(bar)[leg] \in Nat
         /\ Quantities(bar)[leg] * bar.open[leg] = A - (A % step(leg))
         /\ A % step(leg) \in Nat /\ A % step(leg) < step(leg) /\ step(leg) \in Nat
  BY <1>1, <1>8, RoundedDown DEF Quantities, FloorToStep, A
<1>12. \A leg \in Legs : Quantities(bar)[leg] > 0
  BY <1>1, <1>11 DEF RejectedLegs
<1>13. \A leg \in Legs : 0 < Quantities(bar)[leg] * bar.open[leg]
  <2>1. \A m, n \in Nat : m > 0 /\ n > 0 => 0 < m * n
    OBVIOUS
  <2> QED
    BY <2>1, <1>1, <1>11, <1>12
<1>14. Quantities(bar) \in [Legs -> Nat]
  BY <1>11 DEF Quantities
<1> DEFINE cost(leg) == b.qty[leg] * b.entry[leg]
           unit(leg) == QtyStep[leg] * b.entry[leg]
           affords(leg) == budget - (budget % unit(leg))
<1>15. \A y \in Legs : /\ cost(y) = A - (A % step(y)) /\ unit(y) = step(y)
                       /\ 0 < cost(y) /\ affords(y) = budget - (budget % step(y))
  BY <1>11, <1>13
<1>16. \A y \in Legs : /\ 0 < cost(y) /\ \A z \in Legs : cost(y) <= affords(z)
                       /\ \E z \in Legs : affords(z) < cost(y) + unit(y)
  <2>1. SUFFICES ASSUME NEW y \in Legs
        PROVE  /\ \A z \in Legs : cost(y) <= affords(z)
               /\ \E z \in Legs : affords(z) < cost(y) + unit(y)
    BY <1>15
  <2>2. cost(y) <= A /\ A < cost(y) + unit(y)
    <3> DEFINE r == A % step(y)
               s == step(y)
    <3>1. r \in Nat /\ s \in Nat /\ r < s /\ cost(y) = A - r /\ unit(y) = s
      BY <1>11, <1>15
    <3> HIDE DEF r, s, cost, unit
    <3> QED
      BY <3>1, <1>8
  <2>3. \A z \in Legs : A <= affords(z)
    BY <1>9, <1>15
  <2>4. \E z \in Legs : A = affords(z)
    BY <1>10, <1>15
  <2>5. \A z \in Legs : affords(z) \in Int /\ cost(y) \in Int
    BY <1>1, <1>11, <1>15, <1>8
  <2> HIDE DEF cost, unit, affords
  <2> QED
    BY <2>2, <2>3, <2>4, <2>5, <1>8
<1> QED
  BY <1>14, <1>16 DEF Balanced, budget

-----------------------------------------------------------------------------
\* Grid h is grid g with one more bar.
Joined(g, h, n) ==
  /\ n \in Nat /\ DOMAIN g = 1..n /\ DOMAIN h = 1..n + 1
  /\ \A k \in 1..n : h[k] = g[k]

LEMMA BarsBefore ==
  ASSUME NEW g, NEW h, NEW n \in Nat, Joined(g, h, n), NEW m \in Int, m <= n, NEW b, b.opened_at \in Nat
  PROVE  Bars(b, h, m) = Bars(b, g, m)
<1>1. \A k \in b.opened_at + 1..m : k \in 1..n
  BY DEF Joined
<1> QED
  BY <1>1 DEF Bars, Joined

LEMMA BarsGrow ==
  ASSUME NEW g, NEW h, NEW n \in Nat, Joined(g, h, n), NEW b, b.opened_at \in Nat, b.opened_at <= n,
         NEW m, m = n + 1
  PROVE  Bars(b, h, m) = IF h[m] # None THEN Bars(b, g, n) \cup {m} ELSE Bars(b, g, n)
<1>1. b.opened_at + 1..n + 1 = (b.opened_at + 1..n) \cup {n + 1}
  BY DEF Joined
<1>2. Bars(b, h, n) = Bars(b, g, n)
  <2>1. n \in Int /\ n <= n
    BY DEF Joined
  <2> QED
    BY <2>1, BarsBefore
<1>3. Bars(b, h, n + 1) = Bars(b, h, n) \cup {k \in {n + 1} : h[k] # None}
  BY <1>1 DEF Bars
<1> QED
  BY <1>2, <1>3

LEMMA BarsAreNumbered ==
  ASSUME NEW g, NEW n \in Int, NEW b, b.opened_at \in Nat
  PROVE  /\ IsFiniteSet(Bars(b, g, n)) /\ Bars(b, g, n) \subseteq Nat
         /\ \A k \in Bars(b, g, n) : b.opened_at < k /\ k <= n /\ g[k] # None
<1>1. IsFiniteSet(b.opened_at + 1..n)
  BY FS_Interval
<1>2. Bars(b, g, n) \in SUBSET (b.opened_at + 1..n)
  BY DEF Bars
<1>3. IsFiniteSet(Bars(b, g, n))
  BY <1>1, <1>2, FS_Subset
<1> QED
  BY <1>3 DEF Bars

\* A number above those of a set becomes its latest, and the set one larger.
LEMMA LatestJoins ==
  ASSUME NEW K, K \subseteq Nat, IsFiniteSet(K), NEW n \in Nat, \A k \in K : k < n
  PROVE  /\ Latest(K \cup {n}) = {n} /\ (K \cup {n}) \ Latest(K \cup {n}) = K
         /\ Cardinality(K \cup {n}) = Cardinality(K) + 1
<1>1. n \notin K
  OBVIOUS
<1>2. Latest(K \cup {n}) = {n}
  <2>1. \A k \in K : ~(n <= k)
    OBVIOUS
  <2>2. \A k \in K \cup {n} : k <= n
    OBVIOUS
  <2> QED
    BY <2>1, <2>2 DEF Latest
<1> QED
  BY <1>1, <1>2, FS_AddElement

\* What a bar says of a basket depends on its quantities and its entry alone (basket_pnl_pct).
Same(a, b) == a.qty = b.qty /\ a.entry = b.entry /\ a.opened_at = b.opened_at

LEMMA SameBars ==
  ASSUME NEW a, NEW b, Same(a, b)
  PROVE  /\ \A g, n : Bars(a, g, n) = Bars(b, g, n)
         /\ \A bar : /\ StopBreached(a, bar) = StopBreached(b, bar)
                     /\ TakeReached(a, bar) = TakeReached(b, bar)
         /\ \A g, k : Unbreached(a, g, k) = Unbreached(b, g, k)
         /\ Balanced(a) = Balanced(b)
<1>1. \A bar : ProfitAt(a, bar) = ProfitAt(b, bar)
  BY DEF ProfitAt, Same
<1>2. \A bar : /\ StopBreached(a, bar) = StopBreached(b, bar)
               /\ TakeReached(a, bar) = TakeReached(b, bar)
  BY <1>1 DEF StopBreached, TakeReached
<1>3. \A g, n : Bars(a, g, n) = Bars(b, g, n)
  BY DEF Bars, Same
<1>4. Balanced(a) = Balanced(b)
  BY DEF Balanced, Same
<1> QED
  BY <1>2, <1>3, <1>4 DEF Unbreached

-----------------------------------------------------------------------------
\* A basket that is filled now: of balanced legs, with no bar counted against it.
LEMMA FilledNow ==
  ASSUME BasketAssumption, NEW bar \in Shapes, Here \in Nat,
         pending_entry # 0, Entered(bar) # <<>>
  PROVE  /\ Entered(bar)[1] \in Basket /\ Entered(bar)[1].opened_at = Here
         /\ Entered(bar)[1].bars_held = 1 /\ Balanced(Entered(bar)[1])
         /\ ~Entered(bar)[1].pending_stop /\ ~Entered(bar)[1].pending_take
<1> DEFINE b == [qty |-> Quantities(bar), entry |-> bar.open, opened_at |-> Here, bars_held |-> 1,
                 pending_stop |-> FALSE, pending_take |-> FALSE, pending_signal_exit |-> FALSE]
<1>1. RejectedLegs(bar) = {} /\ Entered(bar) = <<b>>
  BY DEF Entered, Opened
<1>2. Balanced(b) /\ Quantities(bar) \in [Legs -> Nat]
  <2>1. b.qty = Quantities(bar) /\ b.entry = bar.open
    OBVIOUS
  <2> HIDE DEF b
  <2> QED
    BY <1>1, <2>1, QuantitiesBalance
<1>3. bar.open \in [Legs -> Nat \ {0}]
  BY DEF BasketAssumption
<1>4. b \in Basket
  BY <1>2, <1>3 DEF Basket
<1> QED
  BY <1>1, <1>2, <1>4

LEMMA OlderByOne ==
  ASSUME NEW p \in Basket, NEW b, b = [p EXCEPT !.bars_held = @ + 1]
  PROVE  /\ b \in Basket /\ Same(b, p) /\ b.bars_held = p.bars_held + 1
         /\ b.pending_stop = p.pending_stop /\ b.pending_take = p.pending_take
<1>1. p.bars_held + 1 \in Nat \ {0}
  BY DEF Basket
<1>2. b = [p EXCEPT !.bars_held = p.bars_held + 1]
  OBVIOUS
<1>3. b \in Basket
  BY <1>1, <1>2 DEF Basket
<1>4. b.bars_held = p.bars_held + 1
  BY <1>2 DEF Basket
<1>5. Same(b, p) /\ b.pending_stop = p.pending_stop /\ b.pending_take = p.pending_take
  BY <1>2 DEF Basket, Same
<1> QED
  BY <1>3, <1>4, <1>5

\* A basket that is held on: one bar older, and else as it was.
LEMMA HeldOn ==
  ASSUME NEW bar, pending_entry = 0, position # <<>>, position[1] \in Basket
  PROVE  /\ Entered(bar) = <<Entered(bar)[1]>> /\ Entered(bar)[1] \in Basket
         /\ Same(Entered(bar)[1], position[1])
         /\ Entered(bar)[1].bars_held = position[1].bars_held + 1
         /\ Entered(bar)[1].pending_stop = position[1].pending_stop
         /\ Entered(bar)[1].pending_take = position[1].pending_take
<1> DEFINE b == [position[1] EXCEPT !.bars_held = @ + 1]
<1>1. Entered(bar) = <<b>>
  BY DEF Entered
<1>2. /\ b \in Basket /\ Same(b, position[1]) /\ b.bars_held = position[1].bars_held + 1
      /\ b.pending_stop = position[1].pending_stop /\ b.pending_take = position[1].pending_take
  BY OlderByOne
<1> HIDE DEF b
<1> QED
  BY <1>1, <1>2

LEMMA GridJoins ==
  ASSUME BasketAssumption, Typed, NEW x \in Shapes \cup {None}, grid' = Append(grid, x)
  PROVE  /\ Here \in Nat /\ Len(grid) = Here /\ Joined(grid, grid', Here)
         /\ grid'[Here + 1] = x /\ Len(grid') = Here + 1
<1>1. grid \in Seq(Shapes \cup {None})
  BY DEF Typed
<1> QED
  BY <1>1, AppendProperties, LenProperties DEF Here, Joined

\* A basket that was watched up to bar n is so still when a bar has joined.
LEMMA StillWatched ==
  ASSUME NEW g, NEW h, NEW n \in Nat, Joined(g, h, n), h[n + 1] # None,
         NEW b, b.opened_at \in Nat, b.opened_at <= n, Watched(b, g, Bars(b, g, n)),
         NEW e, Same(e, b), e.pending_stop = b.pending_stop, e.pending_take = b.pending_take
  PROVE  /\ Watched(e, h, Bars(e, h, n))
         /\ Cardinality(Bars(e, h, n + 1)) = Cardinality(Bars(b, g, n)) + 1
<1> DEFINE K == Bars(b, g, n)
           m == n + 1
<1>1. Bars(b, h, n) = K
  <2>1. n \in Int /\ n <= n
    OBVIOUS
  <2> QED
    BY <2>1, BarsBefore
<1>2. Bars(b, h, m) = K \cup {m}
  <2>1. h[m] # None /\ m = n + 1
    OBVIOUS
  <2> HIDE DEF m
  <2> QED
    BY <2>1, BarsGrow
<1>3. IsFiniteSet(K) /\ K \subseteq Nat /\ \A k \in K : k < m /\ k \in 1..n
  <2>1. n \in Int
    OBVIOUS
  <2>2. /\ IsFiniteSet(K) /\ K \subseteq Nat
        /\ \A k \in K : b.opened_at < k /\ k <= n /\ g[k] # None
    BY <2>1, BarsAreNumbered
  <2> HIDE DEF K
  <2> QED
    BY <2>2
<1>4. m \in Nat
  OBVIOUS
<1>5. Bars(e, h, n) = K /\ Bars(e, h, m) = K \cup {m}
  BY <1>1, <1>2, SameBars
<1>6. Watched(b, g, K)
  OBVIOUS
<1> HIDE DEF K, m
<1>7. Cardinality(K \cup {m}) = Cardinality(K) + 1
  BY <1>3, <1>4, LatestJoins
<1>8. \A k \in K : h[k] = g[k]
  BY <1>3 DEF Joined
<1>9. \A k \in K : /\ Unbreached(b, g, k) = Unbreached(e, h, k)
                   /\ StopBreached(b, g[k]) = StopBreached(e, h[k])
                   /\ TakeReached(b, g[k]) = TakeReached(e, h[k])
  <2>1. \A x : /\ StopBreached(b, x) = StopBreached(e, x)
               /\ TakeReached(b, x) = TakeReached(e, x)
    BY SameBars
  <2> QED
    BY <1>8, <2>1 DEF Unbreached
<1>10. Watched(e, h, K)
  <2>1. Latest(K) \subseteq K
    BY DEF Latest
  <2> QED
    BY <1>6, <1>9, <2>1 DEF Watched
<1> QED
  BY <1>5, <1>7, <1>10 DEF K, m

\* Whichever way it came, the basket of a bar is watched up to the bar before.
LEMMA EnteredIsWatched ==
  ASSUME BasketAssumption, IInv, RInv, NEW bar \in Shapes, grid' = Append(grid, bar),
         Entered(bar) # <<>>
  PROVE  /\ Entered(bar)[1] \in Basket
         /\ Entered(bar)[1].opened_at \in Nat /\ Entered(bar)[1].opened_at <= Here
         /\ Balanced(Entered(bar)[1])
         /\ Watched(Entered(bar)[1], grid', Bars(Entered(bar)[1], grid', Here))
         /\ Entered(bar)[1].bars_held = Cardinality(Bars(Entered(bar)[1], grid', Here + 1))
         /\ \A j \in DOMAIN signals : aligned[signals[j]] <= Entered(bar)[1].opened_at
<1> DEFINE e == Entered(bar)[1]
<1>1. /\ Here \in Nat /\ Len(grid) = Here /\ Joined(grid, grid', Here)
      /\ grid'[Here + 1] = bar /\ bar # None /\ DOMAIN grid = 1..Here
  BY GridJoins DEF IInv, BasketAssumption, Joined
<1>2. CASE pending_entry # 0
  <2>1. /\ e \in Basket /\ e.opened_at = Here /\ e.bars_held = 1 /\ Balanced(e)
        /\ ~e.pending_stop /\ ~e.pending_take
    BY <1>1, <1>2, FilledNow
  <2> HIDE DEF e
  <2>2. Bars(e, grid', Here) = {} /\ Bars(e, grid', Here + 1) = {Here + 1}
    BY <1>1, <2>1 DEF Bars
  <2>3. Cardinality({Here + 1}) = 1
    BY FS_Singleton
  <2>4. Watched(e, grid', {})
    BY <2>1 DEF Watched, Latest
  <2>5. \A j \in DOMAIN signals : aligned[signals[j]] <= e.opened_at
    BY <1>1, <2>1 DEF IInv, Typed
  <2>6. Watched(e, grid', Bars(e, grid', Here)) /\ e.bars_held = Cardinality(Bars(e, grid', Here + 1))
    BY <2>1, <2>2, <2>3, <2>4
  <2> QED
    BY <1>1, <2>1, <2>5, <2>6 DEF e
<1>3. CASE pending_entry = 0
  <2> DEFINE b == position[1]
             K == Bars(b, grid, Here)
  <2>1. position # <<>>
    BY <1>3 DEF Entered
  <2>2. /\ b \in Basket /\ e \in Basket /\ Same(e, b)
        /\ e.bars_held = b.bars_held + 1
        /\ e.pending_stop = b.pending_stop /\ e.pending_take = b.pending_take
    BY <1>3, <2>1, HeldOn DEF RInv, Laid
  <2>3. FilledAfterSignal(b, grid, aligned, signals) /\ b \in Baskets
    BY <2>1, BasketsAre DEF IInv, Filled, Typed
  <2>4. b.opened_at \in Nat /\ b.opened_at + 1 \in 1..Here
    BY <2>3, <1>1 DEF FilledAfterSignal, Complete
  <2>5. /\ Watched(b, grid, K) /\ b.bars_held = Cardinality(K)
        /\ \A j \in DOMAIN signals : aligned[signals[j]] <= b.opened_at
    BY <2>1, <1>1 DEF RInv, Held
  <2>6. Balanced(e) /\ e.opened_at = b.opened_at
    BY <2>2, <2>3, SameBars DEF RInv, Same
  <2>7. b.opened_at <= Here /\ grid'[Here + 1] # None
    BY <1>1, <2>4
  <2> DEFINE h == grid'
             n == Here
  <2>8. /\ n \in Nat /\ Joined(grid, h, n) /\ h[n + 1] # None
        /\ b.opened_at \in Nat /\ b.opened_at <= n /\ Watched(b, grid, Bars(b, grid, n))
        /\ Same(e, b) /\ e.pending_stop = b.pending_stop /\ e.pending_take = b.pending_take
    BY <1>1, <2>2, <2>4, <2>5, <2>7
  <2> HIDE DEF e, b, h, n
  <2>9. /\ Watched(e, h, Bars(e, h, n))
        /\ Cardinality(Bars(e, h, n + 1)) = Cardinality(Bars(b, grid, n)) + 1
    BY <2>8, StillWatched
  <2>12. e.opened_at \in Nat /\ e.opened_at <= Here
    BY <1>1, <2>4, <2>6
  <2>13. \A j \in DOMAIN signals : aligned[signals[j]] <= e.opened_at
    BY <2>5, <2>6
  <2>14. e.bars_held = Cardinality(Bars(e, grid', Here + 1))
    BY <2>2, <2>5, <2>9 DEF h, n
  <2>15. Watched(e, grid', Bars(e, grid', Here))
    BY <2>9 DEF h, n
  <2> QED
    BY <2>2, <2>6, <2>12, <2>13, <2>14, <2>15 DEF e
<1> QED
  BY <1>2, <1>3

-----------------------------------------------------------------------------
Kinds == {"stop_loss", "take_profit", "time_exit", "signal_exit"}

\* The exit that is taken is due, and comes before all that are due.
LEMMA FirstDueIs ==
  ASSUME BasketAssumption, NEW e, DueExits(e) # {}
  PROVE  /\ FirstDue(e) \in Kinds /\ ExitDue(FirstDue(e), e)
         /\ ExitDue(Priority[1], e) => FirstDue(e) = Priority[1]
<1> DEFINE D == DueExits(e)
           first == CHOOSE i \in D : \A j \in D : i <= j
<1>1. D \subseteq 1..4
  BY DEF DueExits
<1>2. \E i \in D : \A j \in D : i <= j
  <2>1. D \subseteq Nat /\ D # {}
    BY <1>1
  <2> HIDE DEF D
  <2> QED
    BY <2>1, LeastOf
<1>3. first \in D /\ \A j \in D : first <= j
  <2> HIDE DEF D
  <2> QED
    BY <1>2
<1>4. FirstDue(e) = Priority[first]
  BY DEF FirstDue
<1> HIDE DEF first
<1>5. first \in 1..4 /\ ExitDue(Priority[first], e)
  BY <1>1, <1>3 DEF DueExits
<1>6. ExitDue(Priority[1], e) => first = 1
  <2>1. ExitDue(Priority[1], e) => 1 \in D
    BY DEF DueExits
  <2> HIDE DEF D
  <2> QED
    BY <2>1, <1>3, <1>5
<1>7. Priority[first] \in Kinds
  BY <1>5 DEF BasketAssumption, Kinds
<1> QED
  BY <1>4, <1>5, <1>6, <1>7

LEMMA NothingDue ==
  ASSUME BasketAssumption, NEW e, DueExits(e) = {}
  PROVE  /\ ~e.pending_stop /\ ~e.pending_take
         /\ TimeExitBars > 0 => ~(e.bars_held >= TimeExitBars)
<1>1. \A i \in 1..4 : ~ExitDue(Priority[i], e)
  BY DEF DueExits
<1>2. \A kind \in Kinds : \E i \in 1..4 : Priority[i] = kind
  BY DEF BasketAssumption, Kinds
<1>3. \A kind \in Kinds : ~ExitDue(kind, e)
  BY <1>1, <1>2
<1>4. ~ExitDue("stop_loss", e) /\ ~ExitDue("take_profit", e) /\ ~ExitDue("time_exit", e)
  BY <1>3 DEF Kinds
<1> QED
  BY <1>4 DEF ExitDue

\* A basket that leaves now does so on the first bar after a breach (close_basket).
LEMMA LeavesNow ==
  ASSUME BasketAssumption, NEW e, DueExits(e) # {}, NEW n \in Nat, NEW h, Complete(n + 1, h),
         Watched(e, h, Bars(e, h, n)), NEW bar, NEW t, t = Closed(e, FirstDue(e), bar, n)
  PROVE  /\ ExitBar(t) = n + 1 /\ LeftAt(t, h) /\ Same(t, e)
         /\ t.closed_at \in {n, n + 1} /\ t.exit_kind \in Kinds
<1>1. /\ t.exit_kind = FirstDue(e) /\ t.qty = e.qty /\ t.entry = e.entry
      /\ t.opened_at = e.opened_at
      /\ t.closed_at = IF FirstDue(e) \in {"time_exit", "end_of_data"} THEN n + 1 ELSE n
  BY DEF Closed
<1>2. /\ t.exit_kind \in Kinds /\ ExitDue(t.exit_kind, e)
      /\ ExitDue(Priority[1], e) => t.exit_kind = Priority[1]
  BY <1>1, FirstDueIs
<1>3. Same(t, e)
  BY <1>1 DEF Same
<1>4. ExitBar(t) = n + 1 /\ t.closed_at \in {n, n + 1}
  BY <1>1 DEF ExitBar
<1> DEFINE K == Bars(e, h, n)
<1>5. Bars(t, h, ExitBar(t) - 1) = K
  <2>1. ExitBar(t) - 1 = n
    BY <1>4
  <2> QED
    BY <2>1, <1>3, SameBars
<1>6. \A x : /\ StopBreached(t, x) = StopBreached(e, x) /\ TakeReached(t, x) = TakeReached(e, x)
  BY <1>3, SameBars
<1>7. Watched(e, h, K)
  OBVIOUS
<1> HIDE DEF K
<1>8. \A k \in K \ Latest(K) : Unbreached(t, h, k)
  BY <1>6, <1>7 DEF Watched, Unbreached
<1>9. \A k \in Latest(K) :
        /\ e.pending_stop = StopBreached(t, h[k]) /\ e.pending_take = TakeReached(t, h[k])
  BY <1>6, <1>7 DEF Watched
<1>10. /\ t.exit_kind = "stop_loss" => e.pending_stop
       /\ t.exit_kind = "take_profit" => e.pending_take
       /\ e.pending_stop /\ Priority[1] = "stop_loss" => t.exit_kind = "stop_loss"
  BY <1>2 DEF ExitDue
<1>11. \A k \in Latest(K) :
         /\ t.exit_kind = "stop_loss" => StopBreached(t, h[k])
         /\ t.exit_kind = "take_profit" => TakeReached(t, h[k])
         /\ StopBreached(t, h[k]) /\ Priority[1] = "stop_loss" => t.exit_kind = "stop_loss"
  BY <1>9, <1>10
<1>12. LeftAt(t, h)
  BY <1>4, <1>5, <1>8, <1>11 DEF LeftAt
<1> QED
  BY <1>2, <1>3, <1>4, <1>12

\* A basket that stays has seen no breach so far, and its flags tell of this bar.
LEMMA StaysWatched ==
  ASSUME BasketAssumption, NEW n \in Nat, NEW e \in Basket, e.opened_at <= n, DueExits(e) = {},
         NEW h, h[n + 1] # None, Watched(e, h, Bars(e, h, n)),
         NEW f, NEW i, NEW b, b = Flagged(e, h[n + 1], f, i)
  PROVE  /\ b \in Basket /\ Same(b, e) /\ b.bars_held = e.bars_held
         /\ Watched(b, h, Bars(b, h, n + 1))
         /\ TimeExitBars > 0 => b.bars_held < TimeExitBars
<1> DEFINE bar == h[n + 1]
           m == n + 1
           K == Bars(e, h, n)
<1>1. StopBreached(e, bar) \in BOOLEAN /\ TakeReached(e, bar) \in BOOLEAN
      /\ Hit(SignalExit, f, i) \in BOOLEAN
  BY DEF StopBreached, TakeReached, Hit
<1>2. /\ b \in Basket /\ Same(b, e) /\ b.bars_held = e.bars_held
      /\ b.pending_stop = StopBreached(e, bar) /\ b.pending_take = TakeReached(e, bar)
  <2> HIDE DEF bar
  <2>1. b = Flagged(e, bar, f, i)
    BY DEF bar
  <2> QED
    BY <1>1, <2>1 DEF Flagged, Basket, Same
<1>3. ~e.pending_stop /\ ~e.pending_take /\ (TimeExitBars > 0 => e.bars_held < TimeExitBars)
  BY NothingDue DEF Basket, BasketAssumption
<1>4. IsFiniteSet(K) /\ K \subseteq Nat /\ \A k \in K : k < m
  <2>1. n \in Int /\ e.opened_at \in Nat
    BY DEF Basket
  <2>2. /\ IsFiniteSet(K) /\ K \subseteq Nat
        /\ \A k \in K : e.opened_at < k /\ k <= n /\ h[k] # None
    BY <2>1, BarsAreNumbered
  <2> HIDE DEF K
  <2> QED
    BY <2>2
<1>5. Bars(e, h, m) = K \cup {m}
  <2>1. e.opened_at + 1..m = (e.opened_at + 1..n) \cup {m}
    BY DEF Basket
  <2> QED
    BY <2>1 DEF Bars
<1>6. Bars(b, h, m) = K \cup {m}
  BY <1>2, <1>5, SameBars
<1>7. \A x : StopBreached(b, x) = StopBreached(e, x) /\ TakeReached(b, x) = TakeReached(e, x)
  BY <1>2, SameBars
<1>8. Watched(e, h, K) /\ m \in Nat /\ bar = h[m]
  OBVIOUS
<1> HIDE DEF K, m, bar
<1>9. Latest(K \cup {m}) = {m} /\ (K \cup {m}) \ Latest(K \cup {m}) = K
  BY <1>4, <1>8, LatestJoins
<1>10. \A k \in K : Unbreached(b, h, k)
  BY <1>3, <1>7, <1>8 DEF Watched, Unbreached
<1>11. Watched(b, h, K \cup {m})
  BY <1>2, <1>7, <1>8, <1>9, <1>10 DEF Watched
<1> QED
  BY <1>2, <1>3, <1>6, <1>11 DEF m

-----------------------------------------------------------------------------
LEMMA LinedJoins ==
  ASSUME NEW g, NEW h, NEW n, Joined(g, h, n), h[n + 1] # None,
         NEW a, NEW b, NEW m, Joined(a, b, m), b[m + 1] = n + 1,
         \A i \in DOMAIN a : a[i] \in DOMAIN g, Lined(a, g)
  PROVE  Lined(b, h)
<1>1. /\ n \in Nat /\ DOMAIN g = 1..n /\ DOMAIN h = 1..n + 1 /\ \A k \in 1..n : h[k] = g[k]
      /\ m \in Nat /\ DOMAIN a = 1..m /\ DOMAIN b = 1..m + 1 /\ \A i \in 1..m : b[i] = a[i]
  BY DEF Joined
<1>2. \A i \in 1..m : a[i] \in 1..n
  BY <1>1
<1>3. ASSUME NEW i \in DOMAIN b, NEW j \in DOMAIN b, i < j PROVE b[i] < b[j]
  <2>1. i \in 1..m /\ b[i] = a[i] /\ a[i] \in 1..n
    BY <1>1, <1>2, <1>3
  <2>2. CASE j = m + 1
    BY <1>1, <2>1, <2>2
  <2>3. CASE j \in 1..m
    BY <1>1, <1>3, <2>1, <2>3 DEF Lined
  <2> QED
    BY <1>1, <2>2, <2>3
<1>4. ASSUME NEW k \in DOMAIN h, h[k] # None PROVE \E i \in DOMAIN b : b[i] = k
  <2>1. CASE k = n + 1
    BY <1>1, <2>1
  <2>2. CASE k \in 1..n
    <3>1. \E i \in 1..m : a[i] = k
      BY <1>1, <1>4, <2>2 DEF Lined
    <3> QED
      BY <1>1, <3>1
  <2> QED
    BY <1>1, <2>1, <2>2
<1>5. ASSUME NEW i \in DOMAIN b PROVE h[b[i]] # None
  <2>1. CASE i = m + 1
    BY <2>1
  <2>2. CASE i \in 1..m
    BY <1>1, <1>2, <2>2 DEF Lined
  <2> QED
    BY <1>1, <2>1, <2>2
<1> QED
  BY <1>3, <1>4, <1>5 DEF Lined

LEMMA LinedSkips ==
  ASSUME NEW g, NEW h, NEW n, Joined(g, h, n), h[n + 1] = None,
         NEW a, \A i \in DOMAIN a : a[i] \in DOMAIN g, Lined(a, g)
  PROVE  Lined(a, h)
<1>1. n \in Nat /\ DOMAIN g = 1..n /\ DOMAIN h = 1..n + 1 /\ \A k \in 1..n : h[k] = g[k]
  BY DEF Joined
<1>2. ASSUME NEW k \in DOMAIN h, h[k] # None PROVE \E i \in DOMAIN a : a[i] = k
  <2>1. k \in 1..n /\ g[k] # None
    BY <1>1, <1>2
  <2> QED
    BY <1>1, <2>1 DEF Lined
<1>3. \A i \in DOMAIN a : h[a[i]] # None
  BY <1>1 DEF Lined
<1> QED
  BY <1>2, <1>3 DEF Lined

LEMMA GapsGrow ==
  ASSUME BasketAssumption, NEW g, NEW h, NEW n, Joined(g, h, n)
  PROVE  /\ Cardinality(Gaps(g, n)) \in Nat
         /\ h[n + 1] # None \/ n < WarmupBars =>
              Cardinality(Gaps(h, n + 1)) = Cardinality(Gaps(g, n))
         /\ h[n + 1] = None /\ ~(n < WarmupBars) =>
              Cardinality(Gaps(h, n + 1)) = Cardinality(Gaps(g, n)) + 1
<1> DEFINE G == Gaps(g, n)
           m == n + 1
<1>1. /\ n \in Nat /\ m \in Nat /\ m = n + 1 /\ WarmupBars \in Nat /\ \A k \in 1..n : h[k] = g[k]
  BY DEF Joined, BasketAssumption
<1>2. IsFiniteSet(G) /\ m \notin G
  <2>1. IsFiniteSet(WarmupBars + 1..n)
    BY <1>1, FS_Interval
  <2>2. G \in SUBSET (WarmupBars + 1..n)
    BY DEF Gaps
  <2>3. IsFiniteSet(G)
    BY <2>1, <2>2, FS_Subset
  <2> QED
    BY <1>1, <2>2, <2>3
<1>3. \A k : k \in Gaps(h, m) <=> k \in G \/ (k = m /\ m > WarmupBars /\ h[m] = None)
  <2>1. \A k : k \in WarmupBars + 1..m <=> k \in WarmupBars + 1..n \/ (k = m /\ m > WarmupBars)
    BY <1>1
  <2>2. \A k \in WarmupBars + 1..n : h[k] = g[k]
    BY <1>1
  <2> QED
    BY <2>1, <2>2 DEF Gaps
<1> HIDE DEF G, m
<1>4. Cardinality(G) \in Nat /\ Cardinality(G \cup {m}) = Cardinality(G) + 1
  BY <1>2, FS_CardinalityType, FS_AddElement
<1>5. CASE h[m] # None \/ n < WarmupBars
  <2>1. Gaps(h, m) = G
    BY <1>1, <1>3, <1>5
  <2> QED
    BY <1>1, <1>4, <1>5, <2>1 DEF G, m
<1>6. CASE h[m] = None /\ ~(n < WarmupBars)
  <2>1. m > WarmupBars
    BY <1>1, <1>6
  <2>2. Gaps(h, m) = G \cup {m}
    BY <1>3, <1>6, <2>1
  <2> QED
    BY <1>1, <1>4, <1>6, <2>2 DEF G, m
<1> QED
  BY <1>1, <1>5, <1>6

-----------------------------------------------------------------------------
\* What was left stays left, and its distance to the signals is kept, as the lists grow.
LEMMA LeftStays ==
  ASSUME NEW g, NEW h, NEW n, Joined(g, h, n), NEW t, t.opened_at \in Nat, LeftAt(t, g)
  PROVE  LeftAt(t, h)
<1>1. n \in Nat /\ DOMAIN g = 1..n /\ DOMAIN h = 1..n + 1 /\ \A k \in 1..n : h[k] = g[k]
  BY DEF Joined
<1>2. CASE t.exit_kind = "end_of_data"
  BY <1>2 DEF LeftAt
<1>3. CASE t.exit_kind # "end_of_data"
  <2> DEFINE exit == ExitBar(t)
             K == Bars(t, g, exit - 1)
  <2>1. exit \in 1..n /\ g[exit] # None
    BY <1>1, <1>3 DEF LeftAt, Complete
  <2>2. exit - 1 \in Int /\ exit - 1 <= n
    BY <1>1, <2>1
  <2>3. Bars(t, h, exit - 1) = K
    <3> DEFINE m == exit - 1
    <3>1. m \in Int /\ m <= n
      BY <2>2
    <3> HIDE DEF m
    <3>2. Bars(t, h, m) = Bars(t, g, m)
      BY <1>1, <3>1, BarsBefore
    <3> QED
      BY <3>2 DEF m
  <2>4. \A k \in K : h[k] = g[k]
    <3>1. \A k \in t.opened_at + 1..exit - 1 : k \in 1..n
      BY <1>1, <2>2
    <3> QED
      BY <1>1, <3>1 DEF Bars
  <2>5. Complete(exit, h)
    BY <1>1, <2>1 DEF Complete
  <2>6. Latest(K) \subseteq K
    BY DEF Latest
  <2>7. /\ \A k \in K \ Latest(K) : Unbreached(t, g, k)
        /\ \A k \in Latest(K) :
             /\ t.exit_kind = "stop_loss" => StopBreached(t, g[k])
             /\ t.exit_kind = "take_profit" => TakeReached(t, g[k])
             /\ StopBreached(t, g[k]) /\ Priority[1] = "stop_loss" => t.exit_kind = "stop_loss"
    BY <1>3 DEF LeftAt
  <2> HIDE DEF K, exit
  <2>8. /\ \A k \in K \ Latest(K) : Unbreached(t, h, k)
        /\ \A k \in Latest(K) :
             /\ t.exit_kind = "stop_loss" => StopBreached(t, h[k])
             /\ t.exit_kind = "take_profit" => TakeReached(t, h[k])
             /\ StopBreached(t, h[k]) /\ Priority[1] = "stop_loss" => t.exit_kind = "stop_loss"
    BY <2>4, <2>6, <2>7 DEF Unbreached
  <2> QED
    BY <2>3, <2>5, <2>8 DEF LeftAt, exit
<1> QED
  BY <1>2, <1>3

LEMMA SpacedStays ==
  ASSUME BasketAssumption, NEW t, NEW a, NEW b, NEW sig, NEW new, NEW last, NEW later \in Nat,
         DOMAIN a \subseteq DOMAIN b, DOMAIN a \subseteq Nat, \A i \in DOMAIN a : b[i] = a[i],
         last \in Nat, last <= later,
         \A j \in DOMAIN sig : sig[j] \in DOMAIN a,
         \A j \in DOMAIN new : new[j] \in Nat
                               /\ \/ j \in DOMAIN sig /\ new[j] = sig[j]
                                  \/ new[j] - later >= CooldownBars,
         Spaced(t, a, sig, last)
  PROVE  Spaced(t, b, new, later)
<1>1. PICK e \in DOMAIN a :
        /\ a[e] = ExitBar(t) /\ e <= last
        /\ \A j \in DOMAIN sig : a[sig[j]] > t.opened_at => sig[j] - e >= CooldownBars
  BY DEF Spaced
<1>2. e \in DOMAIN b /\ b[e] = ExitBar(t) /\ e \in Nat /\ e <= later
  BY <1>1
<1>3. ASSUME NEW j \in DOMAIN new, b[new[j]] > t.opened_at PROVE new[j] - e >= CooldownBars
  <2>1. CASE j \in DOMAIN sig /\ new[j] = sig[j]
    BY <1>1, <1>3, <2>1
  <2>2. CASE new[j] - later >= CooldownBars
    <3>1. new[j] \in Nat /\ CooldownBars \in Nat
      BY DEF BasketAssumption
    <3> QED
      BY <1>2, <2>2, <3>1
  <2> QED
    BY <2>1, <2>2
<1> QED
  BY <1>2, <1>3 DEF Spaced

-----------------------------------------------------------------------------
\* The baskets there are after a bar are those that were left, and the one it leaves or keeps.
LEMMA AlignedRules ==
  ASSUME BasketAssumption, IInv, RInv, IInv', NEW bar \in Shapes, AlignedFrame(bar)
  PROVE  RInv'
<1> DEFINE index == Len(aligned) + 1
           features == Features(grid', aligned')
           e == Entered(bar)[1]
           there == Entered(bar) # <<>>
           leaves == there /\ DueExits(e) # {}
           stays == there /\ ~leaves
           signal == /\ ~stays
                     /\ Eligible(index, last_exit_index')
                     /\ Hit(EntryCondition, features, index)
           trade == Closed(e, FirstDue(e), bar, Here)
           held == Flagged(e, bar, features, index)
           mark == [ts |-> Here + 1, realized_count |-> Len(trades),
                    unrealized |-> MarkToMarket(e, bar)]
<1>1. /\ grid' = Append(grid, bar) /\ aligned' = Append(aligned, Here + 1)
      /\ trades' = IF leaves THEN Append(trades, trade) ELSE trades
      /\ last_exit_index' = IF leaves THEN index ELSE last_exit_index
      /\ position' = IF stays THEN <<held>> ELSE <<>>
      /\ mtm_points' = IF stays THEN Append(mtm_points, mark) ELSE mtm_points
      /\ pending_entry' = IF signal THEN index ELSE 0
      /\ signals' = IF signal THEN Append(signals, index) ELSE signals
      /\ skipped_bars' = skipped_bars /\ status' = status /\ status = "running"
  BY DEF AlignedFrame
<1> HIDE DEF features, e, there, leaves, stays, signal, trade, held, mark
<1>2. Typed /\ Typed'
  BY DEF IInv
<1>3. /\ Here \in Nat /\ Len(grid) = Here /\ Joined(grid, grid', Here)
      /\ grid'[Here + 1] = bar /\ bar # None /\ Len(grid') = Here + 1
  BY <1>1, <1>2, GridJoins DEF BasketAssumption
<1> DEFINE m == Len(aligned)
<1>4. /\ m \in Nat /\ Joined(aligned, aligned', m) /\ aligned'[index] = Here + 1
      /\ DOMAIN aligned = 1..m /\ DOMAIN aligned' = 1..m + 1 /\ Len(aligned') = index
      /\ \A i \in DOMAIN aligned : aligned'[i] = aligned[i] /\ aligned[i] \in 1..Here
  <2>1. aligned \in Seq(Nat \ {0}) /\ Here + 1 \in Nat \ {0}
    BY <1>2, <1>3 DEF Typed
  <2>2. Len(aligned') = index
    BY <2>1, <1>1, AppendProperties
  <2>3. DOMAIN grid = 1..Here
    BY <1>3 DEF Joined
  <2> QED
    BY <1>1, <1>2, <2>2, <2>3, FrameJoins DEF Joined, Typed
<1>5. there => /\ e \in Basket /\ e.opened_at \in Nat /\ e.opened_at <= Here /\ Balanced(e)
               /\ Watched(e, grid', Bars(e, grid', Here))
               /\ e.bars_held = Cardinality(Bars(e, grid', Here + 1))
               /\ \A j \in DOMAIN signals : aligned[signals[j]] <= e.opened_at
  BY <1>1, EnteredIsWatched DEF e, there
<1>6. leaves => /\ ExitBar(trade) = Here + 1 /\ LeftAt(trade, grid') /\ Same(trade, e)
                /\ trade.closed_at \in {Here, Here + 1} /\ trade.exit_kind \in Kinds
  <2>1. Complete(Here + 1, grid')
    BY <1>3 DEF Complete, Joined
  <2>2. leaves => there /\ DueExits(e) # {}
    BY DEF leaves
  <2> DEFINE n == Here
             h == grid'
  <2>3. leaves => /\ n \in Nat /\ Complete(n + 1, h) /\ Watched(e, h, Bars(e, h, n))
                  /\ DueExits(e) # {} /\ trade = Closed(e, FirstDue(e), bar, n)
    BY <1>3, <1>5, <2>1, <2>2 DEF trade
  <2> HIDE DEF n, h
  <2>4. leaves => /\ ExitBar(trade) = n + 1 /\ LeftAt(trade, h) /\ Same(trade, e)
                  /\ trade.closed_at \in {n, n + 1} /\ trade.exit_kind \in Kinds
    BY <2>3, LeavesNow
  <2> QED
    BY <2>4 DEF n, h
<1>7. stays => /\ held \in Basket /\ Same(held, e) /\ held.bars_held = e.bars_held
               /\ Watched(held, grid', Bars(held, grid', Here + 1))
               /\ TimeExitBars > 0 => held.bars_held < TimeExitBars
  <2>1. stays => there /\ DueExits(e) = {}
    BY DEF stays, leaves
  <2> DEFINE n == Here
             h == grid'
  <2>2. stays => /\ n \in Nat /\ e \in Basket /\ e.opened_at <= n /\ DueExits(e) = {}
                 /\ h[n + 1] # None /\ Watched(e, h, Bars(e, h, n))
                 /\ held = Flagged(e, h[n + 1], features, index)
    BY <1>3, <1>5, <2>1 DEF held
  <2> HIDE DEF n, h, index
  <2>3. stays => /\ held \in Basket /\ Same(held, e) /\ held.bars_held = e.bars_held
                 /\ Watched(held, h, Bars(held, h, n + 1))
                 /\ TimeExitBars > 0 => held.bars_held < TimeExitBars
    BY <2>2, StaysWatched
  <2> QED
    BY <2>3 DEF n, h
<1>8. /\ trades \in Seq({trades[i] : i \in DOMAIN trades}) /\ Len(trades) \in Nat
      /\ DOMAIN trades = 1..Len(trades)
      /\ leaves => /\ Len(trades') = Len(trades) + 1 /\ DOMAIN trades' = 1..Len(trades) + 1
                   /\ trades'[Len(trades) + 1] = trade
      /\ \A k \in DOMAIN trades : k \in DOMAIN trades' /\ trades'[k] = trades[k]
      /\ ~leaves => trades' = trades
  <2>1. PICK T : trades \in Seq(T)
    BY <1>2 DEF Typed
  <2>2. /\ trades \in Seq({trades[i] : i \in DOMAIN trades}) /\ Len(trades) \in Nat
        /\ DOMAIN trades = 1..Len(trades)
    BY <2>1, LenProperties
  <2>3. /\ Len(Append(trades, trade)) = Len(trades) + 1
        /\ DOMAIN Append(trades, trade) = 1..Len(trades) + 1
        /\ \A i \in DOMAIN trades : Append(trades, trade)[i] = trades[i]
        /\ Append(trades, trade)[Len(trades) + 1] = trade
    BY <2>1, Appended
  <2>4. CASE leaves
    BY <1>1, <2>2, <2>3, <2>4
  <2>5. CASE ~leaves
    BY <1>1, <2>2, <2>5
  <2> QED
    BY <2>4, <2>5
<1>9. \A i \in DOMAIN trades' : i \in DOMAIN trades \/ (leaves /\ trades'[i] = trade)
  BY <1>8
<1>10. /\ last_exit_index \in 0..m /\ last_exit_index' \in 0..index
       /\ last_exit_index <= last_exit_index'
  BY <1>1, <1>4 DEF RInv, Laid
<1>11. /\ \A j \in DOMAIN signals : signals[j] \in DOMAIN aligned
       /\ \A j \in DOMAIN signals' :
            /\ signals'[j] \in Nat
            /\ \/ j \in DOMAIN signals /\ signals'[j] = signals[j]
               \/ signal /\ signals'[j] = index
  <2>1. signals \in Seq(Nat) /\ index \in Nat /\ \A j \in DOMAIN signals : signals[j] \in DOMAIN aligned
    BY <1>2, <1>4 DEF Typed
  <2> HIDE DEF index
  <2>2. CASE signal
    BY <1>1, <2>1, <2>2, AppendProperties, LenProperties
  <2>3. CASE ~signal
    BY <1>1, <2>1, <2>3, LenProperties, ElementOfSeq
  <2> QED
    BY <2>2, <2>3
<1>12. Laid'
  <2> DEFINE n == Here
             g == grid
             h == grid'
             b == aligned'
  <2>1. /\ Joined(g, h, n) /\ h[n + 1] # None /\ Joined(aligned, b, m) /\ b[m + 1] = n + 1
        /\ (\A i \in DOMAIN aligned : aligned[i] \in DOMAIN g) /\ Lined(aligned, g)
        /\ skipped_bars = Cardinality(Gaps(g, n))
    BY <1>3, <1>4 DEF Joined, RInv, Laid
  <2> HIDE DEF n, g, h, b, m
  <2>2. Lined(b, h)
    BY <2>1, LinedJoins
  <2>3. Cardinality(Gaps(h, n + 1)) = skipped_bars
    BY <2>1, GapsGrow
  <2>4. Lined(aligned', grid') /\ skipped_bars' = Cardinality(Gaps(grid', Len(grid')))
    BY <1>1, <1>3, <2>2, <2>3 DEF b, h, n
  <2>5. pending_entry' \in 0..Len(aligned') /\ last_exit_index' \in 0..Len(aligned')
    BY <1>1, <1>4, <1>10 DEF m
  <2>6. position' # <<>> => position'[1] \in Basket
    BY <1>1, <1>7
  <2> QED
    BY <1>1, <2>4, <2>5, <2>6 DEF RInv, Laid
<1>13. (\A b \in Baskets : Balanced(b))'
  <2>1. \A i \in DOMAIN trades : Balanced(trades[i])
    BY DEF RInv, Baskets
  <2>2. leaves => Balanced(trade)
    BY <1>5, <1>6, SameBars DEF leaves
  <2>3. stays => Balanced(held)
    BY <1>5, <1>7, SameBars DEF stays
  <2>4. \A i \in DOMAIN trades' : Balanced(trades'[i])
    BY <1>8, <1>9, <2>1, <2>2
  <2>5. \A i \in DOMAIN position' : Balanced(position'[i])
    BY <1>1, <2>3
  <2> QED
    BY <2>4, <2>5 DEF Baskets
<1>14. Held'
  <2>1. SUFFICES ASSUME stays
        PROVE  /\ Watched(held, grid', Bars(held, grid', Here + 1))
               /\ held.bars_held = Cardinality(Bars(held, grid', Here + 1))
               /\ TimeExitBars > 0 => held.bars_held < TimeExitBars
               /\ \A j \in DOMAIN signals' : aligned'[signals'[j]] <= held.opened_at
    BY <1>1, <1>3 DEF Held
  <2>2. held.bars_held = Cardinality(Bars(held, grid', Here + 1))
    BY <1>5, <1>7, <2>1, SameBars DEF stays
  <2>3. signals' = signals
    BY <1>1, <2>1 DEF signal
  <2>4. held.opened_at = e.opened_at
    BY <1>7, <2>1 DEF Same
  <2>5. \A j \in DOMAIN signals' : aligned'[signals'[j]] <= held.opened_at
    BY <1>4, <1>5, <1>11, <2>1, <2>3, <2>4 DEF stays
  <2> QED
    BY <1>7, <2>1, <2>2, <2>5
<1>15. \A i \in DOMAIN trades : trades[i].opened_at \in Nat
  BY DEF IInv, Filled, Baskets, FilledAfterSignal
<1>16. Left'
  <2>1. ASSUME NEW i \in DOMAIN trades PROVE LeftAt(trades[i], grid')
    <3> DEFINE t == trades[i]
               h == grid'
               n == Here
    <3>1. Joined(grid, h, n) /\ t.opened_at \in Nat /\ LeftAt(t, grid)
      BY <1>3, <1>15 DEF RInv, Left
    <3> HIDE DEF t, h, n
    <3>2. LeftAt(t, h)
      BY <3>1, LeftStays
    <3> QED
      BY <3>2 DEF t, h
  <2>2. \A i \in DOMAIN trades' : LeftAt(trades'[i], grid')
    BY <1>6, <1>8, <1>9, <2>1
  <2> QED
    BY <2>2 DEF Left
<1>17. signal => index - last_exit_index' >= CooldownBars \/ last_exit_index' = 0
  BY DEF signal, Eligible
<1>18. Cooled'
  <2>1. ASSUME NEW i \in DOMAIN trades
        PROVE  Spaced(trades[i], aligned', signals', last_exit_index')
    <3> DEFINE t == trades[i]
               b == aligned'
               new == signals'
               later == last_exit_index'
               last == last_exit_index
    <3>1. Spaced(t, aligned, signals, last)
      BY DEF RInv, Cooled
    <3>2. later > 0
      BY <3>1, <1>4, <1>10 DEF Spaced
    <3>3. /\ DOMAIN aligned \subseteq DOMAIN b /\ DOMAIN aligned \subseteq Nat
          /\ \A k \in DOMAIN aligned : b[k] = aligned[k]
      BY <1>4
    <3>4. last \in Nat /\ later \in Nat /\ last <= later
      BY <1>4, <1>10
    <3>5. \A j \in DOMAIN new : new[j] \in Nat
                                /\ \/ j \in DOMAIN signals /\ new[j] = signals[j]
                                   \/ new[j] - later >= CooldownBars
      BY <1>11, <1>17, <3>2
    <3>6. \A j \in DOMAIN signals : signals[j] \in DOMAIN aligned
      BY <1>11
    <3> HIDE DEF t, b, new, later, last
    <3>7. Spaced(t, b, new, later)
      BY <3>1, <3>3, <3>4, <3>5, <3>6, SpacedStays
    <3> QED
      BY <3>7 DEF t, b, new, later
  <2>2. leaves => Spaced(trade, aligned', signals', last_exit_index')
    <3>1. SUFFICES ASSUME leaves PROVE Spaced(trade, aligned', signals', last_exit_index')
      OBVIOUS
    <3>2. index \in DOMAIN aligned' /\ aligned'[index] = ExitBar(trade) /\ index <= last_exit_index'
      BY <1>1, <1>4, <1>6, <3>1
    <3>3. trade.opened_at = e.opened_at
      BY <1>6, <3>1 DEF Same
    <3>4. ASSUME NEW j \in DOMAIN signals', aligned'[signals'[j]] > trade.opened_at
          PROVE  signals'[j] - index >= CooldownBars
      <4>1. CASE j \in DOMAIN signals /\ signals'[j] = signals[j]
        <5>1. aligned'[signals'[j]] <= e.opened_at /\ aligned'[signals'[j]] \in 1..Here
          BY <1>4, <1>5, <1>11, <3>1, <4>1 DEF leaves
        <5> QED
          BY <1>3, <1>5, <3>1, <3>3, <3>4, <5>1 DEF leaves
      <4>2. CASE signal /\ signals'[j] = index
        BY <1>1, <1>4, <1>17, <3>1, <4>2
      <4> QED
        BY <1>11, <4>1, <4>2
    <3> HIDE DEF index
    <3> QED
      BY <3>2, <3>4 DEF Spaced
  <2>3. \A i \in DOMAIN trades' : Spaced(trades'[i], aligned', signals', last_exit_index')
    BY <1>8, <1>9, <2>1, <2>2
  <2> QED
    BY <2>3 DEF Cooled
<1>19. Marks'
  <2>1. /\ \E T : mtm_points' \in Seq(T)
        /\ \A i \in DOMAIN mtm_points' :
             \/ i \in DOMAIN mtm_points /\ mtm_points'[i] = mtm_points[i]
             \/ stays /\ mtm_points'[i] = mark
    <3>1. PICK T : mtm_points \in Seq(T)
      BY DEF RInv, Marks
    <3>2. /\ Append(mtm_points, mark) \in Seq(T \cup {mark})
          /\ Len(mtm_points) \in Nat /\ DOMAIN mtm_points = 1..Len(mtm_points)
          /\ DOMAIN Append(mtm_points, mark) = 1..Len(mtm_points) + 1
          /\ \A i \in DOMAIN mtm_points : Append(mtm_points, mark)[i] = mtm_points[i]
          /\ Append(mtm_points, mark)[Len(mtm_points) + 1] = mark
      BY <3>1, Appended
    <3>3. CASE stays
      BY <1>1, <3>2, <3>3
    <3>4. CASE ~stays
      BY <1>1, <3>1, <3>4
    <3> QED
      BY <3>3, <3>4
  <2>2. ASSUME NEW x, InTrade(x, trades) PROVE InTrade(x, trades')
    BY <1>8, <2>2 DEF InTrade
  <2>3. ASSUME NEW x, InPosition(x, position, trades, aligned)
        PROVE  InTrade(x, trades') \/ InPosition(x, position', trades', aligned')
    <3>1. pending_entry = 0 /\ position # <<>>
      BY <2>3 DEF InPosition, IInv, Pending
    <3>2. there /\ Same(e, position[1])
      <4>1. Entered(bar) = <<Entered(bar)[1]>> /\ Same(Entered(bar)[1], position[1])
        BY <3>1, HeldOn DEF RInv, Laid
      <4> QED
        BY <4>1 DEF there, e
    <3>3. x.realized_count = Len(trades) /\ e.opened_at < x.ts /\ x.ts \in 1..Here
          /\ \E i \in DOMAIN aligned' : x.ts = aligned'[i]
      BY <2>3, <3>2, <1>4 DEF InPosition, Same
    <3>4. CASE leaves
      <4>1. /\ x.realized_count + 1 \in DOMAIN trades'
            /\ trades'[x.realized_count + 1] = trade
        BY <1>8, <3>3, <3>4
      <4>2. trade.opened_at = e.opened_at /\ x.ts <= trade.closed_at
        BY <1>3, <1>6, <3>3, <3>4 DEF Same
      <4> QED
        BY <3>3, <4>1, <4>2 DEF InTrade
    <3>5. CASE ~leaves
      <4>1. stays /\ position' = <<held>> /\ trades' = trades
        BY <1>1, <1>8, <3>2, <3>5 DEF stays
      <4>2. held.opened_at = e.opened_at
        BY <1>7, <4>1 DEF Same
      <4> QED
        BY <3>3, <4>1, <4>2 DEF InPosition
    <3> QED
      BY <3>4, <3>5
  <2>4. stays => InPosition(mark, position', trades', aligned')
    <3>1. SUFFICES ASSUME stays PROVE InPosition(mark, position', trades', aligned')
      OBVIOUS
    <3>2. position' = <<held>> /\ trades' = trades /\ held.opened_at = e.opened_at
      BY <1>1, <1>7, <1>8, <3>1 DEF stays, Same
    <3>3. mark.ts = Here + 1 /\ mark.realized_count = Len(trades)
      BY DEF mark
    <3>4. held.opened_at < mark.ts
      BY <1>3, <1>5, <3>1, <3>2, <3>3 DEF stays
    <3>5. \E i \in DOMAIN aligned' : mark.ts = aligned'[i]
      BY <1>4, <3>3
    <3> QED
      BY <3>2, <3>3, <3>4, <3>5 DEF InPosition
  <2>5. \A i \in DOMAIN mtm_points' :
          \/ InTrade(mtm_points'[i], trades')
          \/ InPosition(mtm_points'[i], position', trades', aligned')
    BY <2>1, <2>2, <2>3, <2>4 DEF RInv, Marks
  <2> QED
    BY <2>1, <2>5 DEF Marks
<1>20. status' = "done" => position' = <<>>
  BY <1>1
<1> QED
  BY <1>12, <1>13, <1>14, <1>16, <1>18, <1>19, <1>20 DEF RInv

-----------------------------------------------------------------------------
LEMMA RulesStart == ASSUME BasketAssumption, Init PROVE RInv
<1>1. /\ \A T : <<>> \in Seq(T)
      /\ DOMAIN <<>> = {} /\ Len(<<>>) = 0
  BY EmptySeq
<1>2. Baskets = {}
  BY <1>1 DEF Baskets, Init
<1>3. Gaps(<<>>, 0) = {}
  BY DEF Gaps, BasketAssumption
<1>4. Laid
  BY <1>1, <1>3, FS_EmptySet DEF Init, Laid, Lined
<1>5. Held /\ Left /\ Cooled /\ Marks
  BY <1>1 DEF Init, Held, Left, Cooled, Marks
<1> QED
  BY <1>2, <1>4, <1>5 DEF RInv, Init

\* A bar that some leg lacks, or that comes before the window, moves no basket: what
\* the lists say stays true of the longer grid.
LEMMA QuietRules ==
  ASSUME BasketAssumption, IInv, RInv, NEW x \in Shapes \cup {None}, grid' = Append(grid, x),
         position' = position, trades' = trades, signals' = signals, mtm_points' = mtm_points,
         last_exit_index' = last_exit_index, status' = status,
         x # None => position = <<>>,
         DOMAIN aligned \subseteq DOMAIN aligned', \A i \in DOMAIN aligned : aligned'[i] = aligned[i]
  PROVE  (\A b \in Baskets : Balanced(b))' /\ Held' /\ Left' /\ Cooled' /\ Marks'
<1>1. /\ Here \in Nat /\ Len(grid) = Here /\ Joined(grid, grid', Here)
      /\ grid'[Here + 1] = x /\ Len(grid') = Here + 1
  BY GridJoins DEF IInv
<1>2. /\ \A j \in DOMAIN signals : signals[j] \in DOMAIN aligned /\ signals[j] \in Nat
      /\ DOMAIN aligned \subseteq Nat
  BY LenProperties, ElementOfSeq, SMTT(20) DEF IInv, Typed
<1>3. Baskets' = Baskets
  BY DEF Baskets
<1>4. (\A b \in Baskets : Balanced(b))'
  BY <1>3 DEF RInv
<1>5. Held'
  <2>1. SUFFICES ASSUME position # <<>>
        PROVE  /\ Watched(position[1], grid', Bars(position[1], grid', Here + 1))
               /\ position[1].bars_held = Cardinality(Bars(position[1], grid', Here + 1))
               /\ TimeExitBars > 0 => position[1].bars_held < TimeExitBars
               /\ \A j \in DOMAIN signals' : aligned'[signals'[j]] <= position[1].opened_at
    BY <1>1 DEF Held
  <2> DEFINE b == position[1]
             h == grid'
             n == Here
             m == Here + 1
             K == Bars(b, grid, n)
  <2>2. /\ Watched(b, grid, K) /\ b.bars_held = Cardinality(K)
        /\ TimeExitBars > 0 => b.bars_held < TimeExitBars
        /\ \A j \in DOMAIN signals : aligned[signals[j]] <= b.opened_at
    BY <1>1, <2>1 DEF RInv, Held
  <2>3. b \in Baskets
    BY <2>1, BasketsAre DEF IInv, Typed
  <2>4. b.opened_at \in Nat /\ b.opened_at + 1 \in 1..n
    BY <1>1, <2>3 DEF IInv, Filled, FilledAfterSignal, Complete, Joined
  <2>5. n \in Nat /\ Joined(grid, h, n) /\ m = n + 1 /\ h[m] = None /\ b.opened_at <= n
    BY <1>1, <2>1, <2>4
  <2> HIDE DEF b, h, n, m
  <2>6. Bars(b, h, m) = K
    BY <2>4, <2>5, BarsGrow
  <2>7. \A k \in K : h[k] = grid[k]
    <3>1. \A k \in b.opened_at + 1..n : k \in 1..n
      BY <2>4, <2>5
    <3> QED
      BY <2>5, <3>1 DEF Joined, Bars
  <2>8. Watched(b, h, K)
    <3>1. Latest(K) \subseteq K
      BY DEF Latest
    <3> HIDE DEF K
    <3> QED
      BY <2>2, <2>7, <3>1 DEF Watched, Unbreached
  <2>9. \A j \in DOMAIN signals' : aligned'[signals'[j]] <= b.opened_at
    BY <1>2, <2>2
  <2>10. Watched(b, h, Bars(b, h, m)) /\ b.bars_held = Cardinality(Bars(b, h, m))
    BY <2>2, <2>6, <2>8
  <2> QED
    BY <2>2, <2>9, <2>10 DEF b, h, m
<1>6. Left'
  <2>1. ASSUME NEW i \in DOMAIN trades PROVE LeftAt(trades[i], grid')
    <3> DEFINE t == trades[i]
               h == grid'
               n == Here
    <3>1. n \in Nat /\ Joined(grid, h, n) /\ t.opened_at \in Nat /\ LeftAt(t, grid)
      BY <1>1 DEF RInv, Left, IInv, Filled, Baskets, FilledAfterSignal
    <3> HIDE DEF t, h, n
    <3>2. LeftAt(t, h)
      BY <3>1, LeftStays
    <3> QED
      BY <3>2 DEF t, h
  <2> QED
    BY <2>1 DEF Left
<1>7. Cooled'
  <2>1. ASSUME NEW i \in DOMAIN trades
        PROVE  Spaced(trades[i], aligned', signals, last_exit_index)
    BY <1>2, <2>1 DEF RInv, Cooled, Spaced
  <2> QED
    BY <2>1 DEF Cooled
<1>8. Marks'
  <2>1. ASSUME NEW y, InPosition(y, position, trades, aligned)
        PROVE  InPosition(y, position, trades, aligned')
    BY <2>1 DEF InPosition
  <2> QED
    BY <2>1 DEF RInv, Marks
<1> QED
  BY <1>4, <1>5, <1>6, <1>7, <1>8

LEMMA SkipRules == ASSUME BasketAssumption, IInv, RInv, SkipFrame PROVE RInv'
<1>1. /\ grid' = Append(grid, None)
      /\ skipped_bars' = (IF Here < WarmupBars THEN skipped_bars ELSE skipped_bars + 1)
      /\ pending_entry' \in {0, pending_entry}
      /\ aligned' = aligned /\ position' = position /\ last_exit_index' = last_exit_index
      /\ trades' = trades /\ mtm_points' = mtm_points /\ status' = status /\ signals' = signals
      /\ status = "running"
  BY DEF SkipFrame, Warmup
<1>2. /\ Here \in Nat /\ Len(grid) = Here /\ Joined(grid, grid', Here)
      /\ grid'[Here + 1] = None /\ Len(grid') = Here + 1 /\ DOMAIN grid = 1..Here
  BY <1>1, GridJoins DEF IInv, Joined
<1>3. (\A b \in Baskets : Balanced(b))' /\ Held' /\ Left' /\ Cooled' /\ Marks'
  BY <1>1, QuietRules
<1>4. Laid'
  <2> DEFINE n == Here
             h == grid'
             m == n + 1
  <2>1. /\ Joined(grid, h, n) /\ h[n + 1] = None /\ Lined(aligned, grid)
        /\ (\A i \in DOMAIN aligned : aligned[i] \in DOMAIN grid)
        /\ skipped_bars = Cardinality(Gaps(grid, n))
    BY <1>2 DEF RInv, Laid, IInv, Typed
  <2> HIDE DEF n, h
  <2>2. Lined(aligned, h)
    BY <2>1, LinedSkips
  <2>3. Cardinality(Gaps(h, n + 1)) = IF n < WarmupBars THEN skipped_bars ELSE skipped_bars + 1
    BY <2>1, GapsGrow
  <2>4. Lined(aligned', grid') /\ skipped_bars' = Cardinality(Gaps(grid', Len(grid')))
    BY <1>1, <1>2, <2>2, <2>3 DEF h, n
  <2>5. pending_entry' \in 0..Len(aligned')
    <3>1. aligned \in Seq(Nat \ {0})
      BY DEF IInv, Typed
    <3>2. Len(aligned) \in Nat
      BY <3>1, LenProperties
    <3> QED
      BY <1>1, <3>2 DEF RInv, Laid
  <2> QED
    BY <1>1, <2>4, <2>5 DEF RInv, Laid
<1> QED
  BY <1>1, <1>3, <1>4 DEF RInv

LEMMA WarmupRules ==
  ASSUME BasketAssumption, IInv, RInv, NEW bar \in Shapes, WarmupFrame(bar) PROVE RInv'
<1>1. /\ grid' = Append(grid, bar) /\ aligned' = Append(aligned, Here + 1)
      /\ Here < WarmupBars /\ skipped_bars' = skipped_bars /\ pending_entry' = pending_entry
      /\ position' = position /\ last_exit_index' = last_exit_index
      /\ trades' = trades /\ mtm_points' = mtm_points /\ status' = status /\ signals' = signals
      /\ status = "running"
  BY DEF WarmupFrame, Warmup
<1>2. /\ Here \in Nat /\ Len(grid) = Here /\ Joined(grid, grid', Here)
      /\ grid'[Here + 1] = bar /\ bar # None /\ Len(grid') = Here + 1 /\ DOMAIN grid = 1..Here
  BY <1>1, GridJoins DEF IInv, Joined, BasketAssumption
<1> DEFINE m == Len(aligned)
<1>3. /\ m \in Nat /\ Joined(aligned, aligned', m) /\ aligned'[m + 1] = Here + 1
      /\ Len(aligned') = m + 1 /\ DOMAIN aligned \subseteq DOMAIN aligned'
      /\ \A i \in DOMAIN aligned : aligned'[i] = aligned[i]
  <2>1. aligned \in Seq(Nat \ {0}) /\ Here + 1 \in Nat \ {0}
    BY <1>2 DEF IInv, Typed
  <2> QED
    BY <1>1, <2>1, AppendProperties, LenProperties DEF Joined
<1>4. position = <<>>
  <2>1. SUFFICES ASSUME position # <<>> PROVE FALSE
    OBVIOUS
  <2>2. FilledAfterSignal(position[1], grid, aligned, signals)
    BY <2>1, BasketsAre DEF IInv, Typed, Filled
  <2> QED
    BY <1>1, <1>2, <2>2 DEF FilledAfterSignal, SignalBar, Complete, BasketAssumption
<1>5. (\A b \in Baskets : Balanced(b))' /\ Held' /\ Left' /\ Cooled' /\ Marks'
  BY <1>1, <1>3, <1>4, QuietRules
<1>6. Laid'
  <2> DEFINE n == Here
             h == grid'
             b == aligned'
  <2>1. /\ Joined(grid, h, n) /\ h[n + 1] # None /\ Lined(aligned, grid)
        /\ Joined(aligned, b, m) /\ b[m + 1] = n + 1 /\ n < WarmupBars
        /\ (\A i \in DOMAIN aligned : aligned[i] \in DOMAIN grid)
        /\ skipped_bars = Cardinality(Gaps(grid, n))
    BY <1>1, <1>2, <1>3 DEF RInv, Laid, IInv, Typed
  <2> HIDE DEF n, h, b, m
  <2>2. Lined(b, h)
    BY <2>1, LinedJoins
  <2>3. Cardinality(Gaps(h, n + 1)) = skipped_bars
    BY <2>1, GapsGrow
  <2>4. Lined(aligned', grid') /\ skipped_bars' = Cardinality(Gaps(grid', Len(grid')))
    BY <1>1, <1>2, <2>2, <2>3 DEF b, h, n
  <2>5. pending_entry' \in 0..Len(aligned') /\ last_exit_index' \in 0..Len(aligned')
    BY <1>1, <1>3 DEF RInv, Laid, m
  <2> QED
    BY <1>1, <1>4, <2>4, <2>5 DEF RInv, Laid
<1> QED
  BY <1>1, <1>4, <1>5, <1>6 DEF RInv

\* At the end of the grid the basket that is held leaves at the last bar of all legs.
LEMMA FinishRules == ASSUME BasketAssumption, IInv, RInv, IInv', Finish PROVE RInv'
<1> DEFINE m == Len(aligned)
           last == aligned[m]
           b == position[1]
           trade == Closed(b, "end_of_data", grid[last], last - 1)
<1>1. /\ grid' = grid /\ aligned' = aligned /\ signals' = signals /\ mtm_points' = mtm_points
      /\ skipped_bars' = skipped_bars /\ pending_entry' = 0 /\ position' = <<>> /\ status' = "done"
      /\ position # <<>> => trades' = Append(trades, trade) /\ last_exit_index' = m
      /\ position = <<>> => trades' = trades /\ last_exit_index' = last_exit_index
  BY DEF Finish
<1>2. /\ aligned \in Seq(Nat \ {0}) /\ m \in Nat /\ DOMAIN aligned = 1..m
      /\ \A i \in DOMAIN aligned : aligned[i] \in Nat \ {0}
      /\ \A j \in DOMAIN signals : signals[j] \in 1..m
  <2>1. aligned \in Seq(Nat \ {0}) /\ signals \in Seq(1..Len(aligned))
    BY DEF IInv, Typed
  <2>2. m \in Nat /\ DOMAIN aligned = 1..m
    BY <2>1, LenProperties
  <2>3. \A i \in DOMAIN aligned : aligned[i] \in Nat \ {0}
    BY <2>1, ElementOfSeq, LenProperties
  <2>4. \A j \in DOMAIN signals : signals[j] \in 1..m
    BY <2>1, ElementOfSeq, LenProperties
  <2> QED
    BY <2>1, <2>2, <2>3, <2>4
<1>3. position # <<>> => /\ FilledAfterSignal(b, grid, aligned, signals) /\ Balanced(b)
                         /\ b.opened_at \in Nat
                         /\ \A j \in DOMAIN signals : aligned[signals[j]] <= b.opened_at
  <2>1. position # <<>> => b \in Baskets
    BY BasketsAre DEF IInv, Typed
  <2> QED
    BY <2>1 DEF IInv, Filled, FilledAfterSignal, RInv, Held
<1>4. position # <<>> => m \in 1..m
  BY <1>2, <1>3 DEF FilledAfterSignal, SignalBar
<1>5. \A i \in 1..m : aligned[i] <= last
  <2>1. ASSUME NEW i \in 1..m PROVE aligned[i] <= last
    <3>1. m \in 1..m
      BY <1>2, <2>1
    <3>2. CASE i = m
      BY <1>2, <3>1, <3>2
    <3>3. CASE i < m
      BY <1>2, <3>1, <3>3 DEF RInv, Laid, Lined
    <3>4. i = m \/ i < m
      <4>1. i \in 1..m /\ m \in Nat
        BY <1>2
      <4> HIDE DEF m
      <4> QED
        BY <4>1
    <3> QED
      BY <3>2, <3>3, <3>4
  <2> QED
    BY <2>1
<1>6. position # <<>> => last \in Nat \ {0}
  BY <1>2, <1>4
<1>7. /\ trade.exit_kind = "end_of_data" /\ Same(trade, b)
      /\ trade.closed_at = (last - 1) + 1
  BY DEF Closed, Same
<1>8. position # <<>> => trade.closed_at = last /\ ExitBar(trade) = last
  BY <1>6, <1>7 DEF ExitBar
<1> HIDE DEF b, trade, m, last
<1>9. /\ Len(trades) \in Nat /\ DOMAIN trades = 1..Len(trades)
      /\ position # <<>> => /\ Len(trades) + 1 \in DOMAIN trades'
                            /\ trades'[Len(trades) + 1] = trade
      /\ \A i \in DOMAIN trades : i \in DOMAIN trades' /\ trades'[i] = trades[i]
      /\ \A i \in DOMAIN trades' : \/ i \in DOMAIN trades /\ trades'[i] = trades[i]
                                   \/ position # <<>> /\ trades'[i] = trade
  <2>1. PICK T : trades \in Seq(T)
    BY DEF IInv, Typed
  <2>2. /\ Len(trades) \in Nat /\ DOMAIN trades = 1..Len(trades)
        /\ DOMAIN Append(trades, trade) = 1..Len(trades) + 1
        /\ \A i \in DOMAIN trades : Append(trades, trade)[i] = trades[i]
        /\ Append(trades, trade)[Len(trades) + 1] = trade
    BY <2>1, Appended
  <2>3. CASE position # <<>>
    BY <1>1, <2>2, <2>3
  <2>4. CASE position = <<>>
    BY <1>1, <2>2, <2>4
  <2> QED
    BY <2>3, <2>4
<1>10. last_exit_index \in 0..m /\ last_exit_index' \in 0..m /\ last_exit_index <= last_exit_index'
  BY <1>1, <1>2 DEF RInv, Laid, m
<1>11. Laid'
  BY <1>1, <1>10 DEF RInv, Laid, m
<1>12. (\A x \in Baskets : Balanced(x))'
  <2>1. \A i \in DOMAIN trades : Balanced(trades[i])
    BY DEF RInv, Baskets
  <2>2. position # <<>> => Balanced(trade)
    BY <1>3, <1>7, SameBars
  <2>3. \A i \in DOMAIN trades' : Balanced(trades'[i])
    BY <1>9, <2>1, <2>2
  <2>4. DOMAIN <<>> = {}
    OBVIOUS
  <2> QED
    BY <1>1, <2>3, <2>4 DEF Baskets
<1>13. Held'
  BY <1>1 DEF Held
<1>14. Left'
  <2>1. \A i \in DOMAIN trades : LeftAt(trades[i], grid)
    BY DEF RInv, Left
  <2>2. LeftAt(trade, grid)
    BY <1>7 DEF LeftAt
  <2>3. \A i \in DOMAIN trades' : LeftAt(trades'[i], grid')
    BY <1>1, <1>9, <2>1, <2>2
  <2> QED
    BY <2>3 DEF Left
<1>15. Cooled'
  <2>1. \A i \in DOMAIN trades : Spaced(trades[i], aligned, signals, last_exit_index')
    <3>1. ASSUME NEW i \in DOMAIN trades
          PROVE  Spaced(trades[i], aligned, signals, last_exit_index')
      <4>1. Spaced(trades[i], aligned, signals, last_exit_index)
        BY DEF RInv, Cooled
      <4>2. \A e \in DOMAIN aligned : e <= last_exit_index => e <= last_exit_index'
        BY <1>2, <1>10
      <4> QED
        BY <4>1, <4>2 DEF Spaced
    <3> QED
      BY <3>1
  <2>2. position # <<>> => Spaced(trade, aligned, signals, last_exit_index')
    <3>1. SUFFICES ASSUME position # <<>>
          PROVE  Spaced(trade, aligned, signals, last_exit_index')
      OBVIOUS
    <3>2. m \in DOMAIN aligned /\ aligned[m] = ExitBar(trade) /\ m <= last_exit_index'
      BY <1>1, <1>2, <1>4, <1>8, <3>1 DEF last
    <3>3. \A j \in DOMAIN signals : ~(aligned[signals[j]] > trade.opened_at)
      <4>1. trade.opened_at = b.opened_at
        BY <1>7 DEF Same
      <4>2. \A j \in DOMAIN signals : aligned[signals[j]] \in Nat
        BY <1>2
      <4> QED
        BY <1>3, <3>1, <4>1, <4>2
    <3> QED
      BY <3>2, <3>3 DEF Spaced
  <2>3. \A i \in DOMAIN trades' : Spaced(trades'[i], aligned', signals', last_exit_index')
    BY <1>1, <1>9, <2>1, <2>2
  <2> QED
    BY <2>3 DEF Cooled
<1>16. Marks'
  <2>1. ASSUME NEW x, InTrade(x, trades) PROVE InTrade(x, trades')
    BY <1>9, <2>1 DEF InTrade
  <2>2. ASSUME NEW x, InPosition(x, position, trades, aligned) PROVE InTrade(x, trades')
    <3>1. position # <<>> /\ x.realized_count = Len(trades) /\ b.opened_at < x.ts
          /\ \E i \in 1..m : x.ts = aligned[i]
      BY <1>2, <2>2 DEF InPosition, b
    <3>2. trade.opened_at < x.ts /\ x.ts <= trade.closed_at
      BY <1>5, <1>7, <1>8, <3>1 DEF Same
    <3>3. x.realized_count + 1 \in DOMAIN trades' /\ trades'[x.realized_count + 1] = trade
      BY <1>9, <3>1
    <3> QED
      BY <3>2, <3>3 DEF InTrade
  <2>3. \A i \in DOMAIN mtm_points' : InTrade(mtm_points'[i], trades')
    BY <1>1, <2>1, <2>2 DEF RInv, Marks
  <2> QED
    BY <1>1, <2>3 DEF RInv, Marks
<1> QED
  BY <1>1, <1>11, <1>12, <1>13, <1>14, <1>15, <1>16 DEF RInv

LEMMA StutterRules == ASSUME RInv, UNCHANGED vars PROVE RInv'
<1>1. /\ grid' = grid /\ aligned' = aligned /\ pending_entry' = pending_entry
      /\ position' = position /\ last_exit_index' = last_exit_index /\ trades' = trades
      /\ skipped_bars' = skipped_bars /\ mtm_points' = mtm_points /\ status' = status
      /\ signals' = signals
  BY DEF vars
<1>2. Baskets' = Baskets
  BY <1>1 DEF Baskets
<1>3. Laid' /\ Held' /\ Left' /\ Cooled' /\ Marks'
  BY <1>1 DEF RInv, Laid, Held, Left, Cooled, Marks
<1> QED
  BY <1>1, <1>2, <1>3 DEF RInv

\* While a run lasts a basket is watched bar by bar, keeps its weights and leaves at the
\* first bar after a breach; signals keep their distance from the exits, and every mark
\* lies in its trade (simulate_v3).
THEOREM RulesInvariance == ASSUME BasketAssumption PROVE Spec => []RInv
<1>1. Init => IInv /\ RInv
  BY Starts, RulesStart
<1>2. IInv /\ RInv /\ [Next]_vars => IInv' /\ RInv'
  <2>1. SUFFICES ASSUME IInv, RInv, [Next]_vars PROVE IInv' /\ RInv'
    OBVIOUS
  <2>2. ASSUME NEW bar \in Shapes, WarmupFrame(bar) PROVE IInv' /\ RInv'
    BY <2>1, <2>2, WarmupKeeps, WarmupRules
  <2>3. ASSUME NEW bar \in Shapes, AlignedFrame(bar) PROVE IInv' /\ RInv'
    BY <2>1, <2>3, AlignedKeeps, AlignedRules
  <2>4. CASE SkipFrame
    BY <2>1, <2>4, SkipKeeps, SkipRules
  <2>5. CASE Finish
    BY <2>1, <2>5, FinishKeeps, FinishRules
  <2>6. CASE UNCHANGED vars
    BY <2>1, <2>6, StutterKeeps, StutterRules
  <2> QED
    BY <2>1, <2>2, <2>3, <2>4, <2>5, <2>6 DEF Next
<1> QED
  BY <1>1, <1>2, PTL DEF Spec

-----------------------------------------------------------------------------
LEMMA TypesFollow == ASSUME BasketAssumption, IInv, RInv PROVE TypeOK
<1>1. /\ grid \in Seq(Shapes \cup {None}) /\ aligned \in Seq(Nat \ {0})
      /\ pending_entry \in 0..Len(aligned) /\ last_exit_index \in 0..Len(aligned)
      /\ status \in {"running", "done"}
      /\ skipped_bars = Cardinality({k \in WarmupBars + 1..Len(grid) : grid[k] = None})
  BY DEF IInv, Typed, RInv, Laid, Gaps
<1>2. {aligned[i] : i \in DOMAIN aligned} = {k \in DOMAIN grid : grid[k] # None}
  BY DEF IInv, Typed, RInv, Laid, Lined
<1>3. position \in Seq(Basket) /\ Len(position) = (IF position = <<>> THEN 0 ELSE 1)
  <2>1. CASE position = <<>>
    BY <2>1
  <2>2. CASE position # <<>>
    <3> DEFINE b == position[1]
    <3>1. position = <<b>> /\ b \in Basket
      BY <2>2 DEF IInv, Typed, RInv, Laid
    <3> HIDE DEF b
    <3> QED
      BY <2>2, <3>1
  <2> QED
    BY <2>1, <2>2
<1>4. Len(position) + (IF pending_entry # 0 THEN 1 ELSE 0) <= 1
  BY <1>3 DEF IInv, Pending
<1> QED
  BY <1>1, <1>2, <1>3, <1>4 DEF TypeOK

LEMMA LeftFollows == ASSUME BasketAssumption, IInv, RInv PROVE LeftAtTheFirstBreach
<1>1. ASSUME NEW i \in DOMAIN position
      PROVE  LET held == HeldUntil(position[i], Len(grid))
             IN /\ \A k \in held \ Latest(held) :
                     ~StopBreached(position[i], grid[k]) /\ ~TakeReached(position[i], grid[k])
                /\ TimeExitBars > 0 => Cardinality(held) < TimeExitBars
  <2>1. i = 1 /\ position # <<>>
    BY <1>1 DEF IInv, Typed
  <2> DEFINE b == position[1]
             K == Bars(b, grid, Len(grid))
  <2>2. HeldUntil(b, Len(grid)) = K
    BY DEF HeldUntil, Bars
  <2>3. /\ Watched(b, grid, K) /\ b.bars_held = Cardinality(K)
        /\ TimeExitBars > 0 => b.bars_held < TimeExitBars
    BY <2>1 DEF RInv, Held
  <2> HIDE DEF b, K
  <2>4. \A k \in K \ Latest(K) : ~StopBreached(b, grid[k]) /\ ~TakeReached(b, grid[k])
    BY <2>3 DEF Watched, Unbreached
  <2> QED
    BY <2>1, <2>2, <2>3, <2>4 DEF b
<1>2. ASSUME NEW i \in DOMAIN trades
      PROVE  LET t == trades[i]
                 exit == IF t.exit_kind = "time_exit" THEN t.closed_at ELSE t.closed_at + 1
                 held == HeldUntil(t, exit - 1)
             IN t.exit_kind # "end_of_data" =>
                  /\ grid[exit] # None
                  /\ \A k \in held \ Latest(held) :
                       ~StopBreached(t, grid[k]) /\ ~TakeReached(t, grid[k])
                  /\ \A k \in Latest(held) :
                       /\ t.exit_kind = "stop_loss" => StopBreached(t, grid[k])
                       /\ t.exit_kind = "take_profit" => TakeReached(t, grid[k])
                       /\ StopBreached(t, grid[k]) /\ Priority[1] = "stop_loss"
                            => t.exit_kind = "stop_loss"
  <2> DEFINE t == trades[i]
             exit == IF t.exit_kind = "time_exit" THEN t.closed_at ELSE t.closed_at + 1
             K == HeldUntil(t, exit - 1)
  <2>1. LeftAt(t, grid)
    BY DEF RInv, Left
  <2>2. t.exit_kind # "end_of_data" => ExitBar(t) = exit
    BY DEF ExitBar
  <2>3. K = Bars(t, grid, exit - 1)
    BY DEF HeldUntil, Bars
  <2> HIDE DEF t, exit, K
  <2>4. t.exit_kind # "end_of_data" =>
          /\ grid[exit] # None
          /\ \A k \in K \ Latest(K) : ~StopBreached(t, grid[k]) /\ ~TakeReached(t, grid[k])
          /\ \A k \in Latest(K) :
               /\ t.exit_kind = "stop_loss" => StopBreached(t, grid[k])
               /\ t.exit_kind = "take_profit" => TakeReached(t, grid[k])
               /\ StopBreached(t, grid[k]) /\ Priority[1] = "stop_loss" => t.exit_kind = "stop_loss"
    BY <2>1, <2>2, <2>3 DEF LeftAt, Complete, Unbreached
  <2> QED
    BY <2>4 DEF t, exit, K
<1> QED
  BY <1>1, <1>2 DEF LeftAtTheFirstBreach

LEMMA CooldownFollows == ASSUME BasketAssumption, IInv, RInv PROVE CooldownServed
<1>1. SUFFICES ASSUME NEW i \in DOMAIN trades, NEW j \in DOMAIN signals
      PROVE  LET t == trades[i]
                 exit == CHOOSE e \in DOMAIN aligned :
                           aligned[e] = IF t.exit_kind \in {"time_exit", "end_of_data"}
                                        THEN t.closed_at ELSE t.closed_at + 1
             IN aligned[signals[j]] > t.opened_at => signals[j] - exit >= CooldownBars
  BY DEF CooldownServed
<1> DEFINE t == trades[i]
           bar == IF t.exit_kind \in {"time_exit", "end_of_data"}
                  THEN t.closed_at ELSE t.closed_at + 1
<1>2. ExitBar(t) = bar
  BY DEF ExitBar
<1>3. Spaced(t, aligned, signals, last_exit_index)
  BY DEF RInv, Cooled
<1> HIDE DEF t, bar
<1>4. PICK e \in DOMAIN aligned :
        /\ aligned[e] = bar
        /\ aligned[signals[j]] > t.opened_at => signals[j] - e >= CooldownBars
  BY <1>2, <1>3 DEF Spaced
<1>5. \A d \in DOMAIN aligned : aligned[d] = bar => d = e
  <2>1. aligned \in Seq(Nat \ {0}) /\ DOMAIN aligned \subseteq Nat
    <3>1. aligned \in Seq(Nat \ {0})
      BY DEF IInv, Typed
    <3> QED
      BY <3>1, LenProperties
  <2>2. \A d \in DOMAIN aligned : aligned[d] \in Nat
    BY <2>1, ElementOfSeq, LenProperties
  <2>3. \A d \in DOMAIN aligned : ~(d < e) \/ aligned[d] < aligned[e]
    BY DEF RInv, Laid, Lined
  <2>4. \A d \in DOMAIN aligned : ~(e < d) \/ aligned[e] < aligned[d]
    BY DEF RInv, Laid, Lined
  <2> QED
    BY <1>4, <2>1, <2>2, <2>3, <2>4
<1>6. (CHOOSE d \in DOMAIN aligned : aligned[d] = bar) = e
  BY <1>4, <1>5
<1> QED
  BY <1>4, <1>6 DEF t, bar

\* The promises of a basket hold together: it fills at the very next bar, no signal is
\* lost, the cooldown counts bars of all legs, no leg outweighs another, stops and targets
\* are cashed at the first bar after them, and every mark lies in its trade (simulate_v3).
THEOREM BasketsKeepTheRules == ASSUME BasketAssumption PROVE Spec => []BasketsKeepTheirRules
<1>1. IInv /\ RInv => BasketsKeepTheirRules
  <2>1. SUFFICES ASSUME IInv, RInv PROVE BasketsKeepTheirRules
    OBVIOUS
  <2>2. FillsFollowSignals
    BY <2>1 DEF IInv, Filled, FillsFollowSignals, FilledAfterSignal, SignalBar, Complete
  <2>3. SignalsAccounted
    BY <2>1, TypesFollow DEF SignalsAccounted, IInv, Counted
  <2>4. LegsBalanced
    BY <2>1 DEF LegsBalanced, RInv, Balanced
  <2>5. MarksBelongToTrades
    BY <2>1 DEF MarksBelongToTrades, RInv, Marks, InTrade, InPosition
  <2> QED
    BY <2>1, <2>2, <2>3, <2>4, <2>5, LeftFollows, CooldownFollows DEF BasketsKeepTheirRules
<1> QED
  BY <1>1, BasketInvariance, RulesInvariance, PTL
=============================================================================
