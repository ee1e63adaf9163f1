-------------------------- MODULE CycleReplayProofs --------------------------
(***************************************************************************)
(* Theorems about CycleReplay, for any strategy, candles, quotas and       *)
(* settings: types, that no signal is lost, that stops follow the closed   *)
(* bars, that every step is one of SignalBook, that the quotas count the   *)
(* entries, that the account sums up the returns, and so that an entry is  *)
(* published exactly when the whole history allows it.                     *)
(***************************************************************************)
EXTENDS CycleReplay, SequenceTheorems, FiniteSetTheorems, WellFoundedInduction,
        TLAPS

-----------------------------------------------------------------------------
\* Multiples of a number are as far apart as it is large.
LEMMA Multiples ==
  ASSUME NEW p \in Int, NEW q \in Int, NEW d \in Nat \ {0}
  PROVE  /\ p * d \in Int /\ q * d \in Int
         /\ p < q => p * d + d <= q * d
<1>1. SUFFICES ASSUME p < q
               PROVE  p * d + d <= q * d
  OBVIOUS
<1> DEFINE k == q - (p + 1)
<1>2. k \in Nat /\ q = p + 1 + k
  BY <1>1
<1> HIDE DEF k
<1>3. q * d = p * d + d + k * d /\ k * d \in Nat /\ p * d \in Int
  BY <1>2
<1> QED
  BY <1>3

LEMMA DivBounds ==
  ASSUME NEW a \in Int, NEW d \in Nat \ {0}
  PROVE  /\ a \div d \in Int
         /\ (a \div d) * d <= a /\ a < (a \div d) * d + d
         /\ a % d = 0 => a = (a \div d) * d
<1> DEFINE q == a \div d
           r == a % d
<1>1. q \in Int /\ r \in Nat /\ r < d /\ a = d * q + r
  OBVIOUS
<1>2. q * d = d * q /\ q * d \in Int
  BY <1>1
<1> HIDE DEF q, r
<1>3. /\ q \in Int /\ q * d <= a /\ a < q * d + d
      /\ r = 0 => a = q * d
  BY <1>1, <1>2
<1> QED
  BY <1>3 DEF q, r

LEMMA DivUnique ==
  ASSUME NEW a \in Int, NEW d \in Nat \ {0}, NEW q \in Int, q * d <= a, a < q * d + d
  PROVE  a \div d = q
<1> DEFINE p == a \div d
<1>1. p \in Int /\ p * d <= a /\ a < p * d + d
  BY DivBounds
<1> HIDE DEF p
<1>2. ~(p < q)
  BY <1>1, Multiples
<1>3. ~(q < p)
  BY <1>1, Multiples
<1> QED
  BY <1>1, <1>2, <1>3 DEF p

LEMMA DivMonotone ==
  ASSUME NEW a \in Int, NEW b \in Int, NEW d \in Nat \ {0}, a <= b
  PROVE  a \div d <= b \div d
<1> DEFINE p == a \div d
           q == b \div d
<1>1. /\ p \in Int /\ p * d <= a /\ a < p * d + d
      /\ q \in Int /\ q * d <= b /\ b < q * d + d
  BY DivBounds
<1> HIDE DEF p, q
<1>2. ~(q < p)
  BY <1>1, Multiples
<1> QED
  BY <1>1, <1>2 DEF p, q

-----------------------------------------------------------------------------
\* A price that lies on a tick.
OnTick(x) == \E k \in Int : x = k * PriceTick

\* The set prices are integers on the tick (align_initial_prices).
LEMMA SetPrices ==
  /\ EntryPrice \in Int /\ OnTick(EntryPrice)
  /\ InitialStop \in Int /\ OnTick(InitialStop)
  /\ Target \in Int
  /\ EntryPrice \in Nat \ {0}
<1>1. ASSUME NEW x \in Nat, x % PriceTick = 0
      PROVE  OnTick(x)
  <2>1. PriceTick \in Nat \ {0}
    BY SignalAssumption DEF SignalAssumption
  <2>2. x \div PriceTick \in Int /\ x = (x \div PriceTick) * PriceTick
    BY <1>1, <2>1, DivBounds
  <2> QED
    BY <2>2 DEF OnTick
<1> QED
  BY <1>1, SignalAssumption DEF SignalAssumption

LEMMA Tightened ==
  ASSUME NEW a \in Int, NEW b \in Int
  PROVE  /\ Tighten(a, b) \in Int /\ Tighten(a, b) \in {a, b}
         /\ Tighten(a, b) = Tighten(b, a)
         /\ Tighten(a, b) = a <=> (IF Side = "long" THEN b <= a ELSE a <= b)
  BY DEF Tighten

LEMMA Rounded ==
  ASSUME NEW n \in Int, NEW m \in Int
  PROVE  /\ RoundToTick(n, 100) \in Int /\ OnTick(RoundToTick(n, 100))
         /\ (IF Side = "long" THEN n <= m ELSE m <= n) =>
              Tighten(RoundToTick(m, 100), RoundToTick(n, 100)) = RoundToTick(m, 100)
<1> DEFINE d == 100 * PriceTick
<1>1. PriceTick \in Nat \ {0} /\ d \in Nat \ {0}
  BY SignalAssumption DEF SignalAssumption
<1>2. /\ n \div d \in Int /\ (-n) \div d \in Int /\ m \div d \in Int /\ (-m) \div d \in Int
      /\ n <= m => n \div d <= m \div d /\ (-m) \div d <= (-n) \div d
      /\ m <= n => m \div d <= n \div d /\ (-n) \div d <= (-m) \div d
  BY <1>1, DivBounds, DivMonotone
<1> HIDE DEF d
<1>3. \A x, y \in Int : x <= y => x * PriceTick <= y * PriceTick
  <2> SUFFICES ASSUME NEW x \in Int, NEW y \in Int, x <= y
               PROVE  x * PriceTick <= y * PriceTick
    OBVIOUS
  <2>1. CASE x = y
    BY <2>1, <1>1
  <2>2. CASE x < y
    BY <2>2, <1>1, Multiples
  <2> QED
    BY <2>1, <2>2
<1>4. CASE Side = "long"
  <2> DEFINE p == -((-n) \div d)
             q == -((-m) \div d)
  <2>1. p \in Int /\ q \in Int /\ (n <= m => p <= q)
    BY <1>2
  <2>2. RoundToTick(n, 100) = p * PriceTick /\ RoundToTick(m, 100) = q * PriceTick
    BY <1>1, <1>2, <1>4 DEF RoundToTick, d
  <2> HIDE DEF p, q
  <2>3. p * PriceTick \in Int /\ q * PriceTick \in Int
    BY <2>1, <1>1
  <2>4. OnTick(RoundToTick(n, 100))
    BY <2>1, <2>2 DEF OnTick
  <2>5. n <= m => p * PriceTick <= q * PriceTick
    BY <1>3, <2>1
  <2> DEFINE u == p * PriceTick
             v == q * PriceTick
  <2> HIDE DEF u, v
  <2>6. u \in Int /\ v \in Int /\ (n <= m => u <= v)
    BY <2>3, <2>5 DEF u, v
  <2>7. RoundToTick(n, 100) = u /\ RoundToTick(m, 100) = v
    BY <2>2 DEF u, v
  <2>8. (n <= m) => Tighten(v, u) = v
    BY <2>6, <1>4 DEF Tighten
  <2> QED
    BY <2>4, <2>6, <2>7, <2>8, <1>4
<1>5. CASE Side # "long"
  <2> DEFINE p == n \div d
             q == m \div d
  <2>1. p \in Int /\ q \in Int /\ (m <= n => q <= p)
    BY <1>2
  <2>2. RoundToTick(n, 100) = p * PriceTick /\ RoundToTick(m, 100) = q * PriceTick
    BY <1>1, <1>2, <1>5 DEF RoundToTick, d
  <2> HIDE DEF p, q
  <2>3. p * PriceTick \in Int /\ q * PriceTick \in Int
    BY <2>1, <1>1
  <2>4. OnTick(RoundToTick(n, 100))
    BY <2>1, <2>2 DEF OnTick
  <2>5. m <= n => p * PriceTick >= q * PriceTick
    BY <1>3, <2>1
  <2> DEFINE u == p * PriceTick
             v == q * PriceTick
  <2> HIDE DEF u, v
  <2>6. u \in Int /\ v \in Int /\ (m <= n => u >= v)
    BY <2>3, <2>5 DEF u, v
  <2>7. RoundToTick(n, 100) = u /\ RoundToTick(m, 100) = v
    BY <2>2 DEF u, v
  <2>8. (m <= n) => Tighten(v, u) = v
    BY <2>6, <1>5 DEF Tighten
  <2> QED
    BY <2>4, <2>6, <2>7, <2>8, <1>5
<1> QED
  BY <1>4, <1>5

\* A price on the tick rounds to itself.
LEMMA RoundedOnTick ==
  ASSUME NEW e \in Int, OnTick(e)
  PROVE  RoundToTick(100 * e, 100) = e
<1> DEFINE d == 100 * PriceTick
<1>1. PriceTick \in Nat \ {0} /\ d \in Nat \ {0}
  BY SignalAssumption DEF SignalAssumption
<1>2. PICK k \in Int : e = k * PriceTick
  BY DEF OnTick
<1>3. 100 * e = k * d /\ -(100 * e) = (-k) * d
  BY <1>1, <1>2
<1>4. /\ -k \in Int /\ k * d \in Int /\ (-k) * d \in Int
      /\ (100 * e) \div d = k /\ (-(100 * e)) \div d = -k
  <2>1. -k \in Int /\ k * d \in Int /\ (-k) * d \in Int
    BY <1>1
  <2>2. 100 * e \in Int /\ -(100 * e) \in Int
    OBVIOUS
  <2> HIDE DEF d
  <2> QED
    BY <1>1, <1>3, <2>1, <2>2, DivUnique
<1>5. -(-k) = k
  OBVIOUS
<1> HIDE DEF d
<1>6. CASE Side = "long"
  <2>1. RoundToTick(100 * e, 100) = -((-(100 * e)) \div d) * PriceTick
    BY <1>6 DEF RoundToTick, d
  <2> QED
    BY <2>1, <1>1, <1>2, <1>4, <1>5
<1>7. CASE Side # "long"
  BY <1>7, <1>2, <1>4 DEF RoundToTick, d
<1> QED
  BY <1>6, <1>7

LEMMA RoundedTightest ==
  ASSUME NEW a \in Int, NEW b \in Int
  PROVE  RoundToTick(Tighten(a, b), 100) = Tighten(RoundToTick(a, 100), RoundToTick(b, 100))
<1> DEFINE u == RoundToTick(a, 100)
           v == RoundToTick(b, 100)
<1>1. /\ u \in Int /\ v \in Int
      /\ (IF Side = "long" THEN a <= b ELSE b <= a) => Tighten(v, u) = v
      /\ (IF Side = "long" THEN b <= a ELSE a <= b) => Tighten(u, v) = u
  BY Rounded
<1>2. CASE IF Side = "long" THEN b <= a ELSE a <= b
  <2>1. Tighten(a, b) = a
    BY <1>2 DEF Tighten
  <2> QED
    BY <1>1, <1>2, <2>1
<1>3. CASE ~(IF Side = "long" THEN b <= a ELSE a <= b)
  <2>1. IF Side = "long" THEN a <= b ELSE b <= a
    BY <1>3
  <2>2. Tighten(a, b) = b
    BY <1>3 DEF Tighten
  <2> HIDE DEF u, v
  <2>3. Tighten(u, v) = Tighten(v, u)
    BY <1>1, Tightened
  <2> QED
    BY <1>1, <2>1, <2>2, <2>3 DEF u, v
<1> QED
  BY <1>2, <1>3

-----------------------------------------------------------------------------
(***************************************************************************)
(* The stop of an open trade.  Under is "at least as tight as": an order   *)
(* of prices that Tighten takes the upper one of.                          *)
(***************************************************************************)
Under(b, a) == IF Side = "long" THEN b <= a ELSE a <= b

LEMMA UnderOrder ==
  ASSUME NEW a \in Int, NEW b \in Int, NEW c \in Int
  PROVE  /\ Tighten(a, b) = a <=> Under(b, a)
         /\ Tighten(a, b) \in {a, b} /\ Under(a, Tighten(a, b)) /\ Under(b, Tighten(a, b))
         /\ Under(a, a)
         /\ Under(a, b) /\ Under(b, a) => a = b
         /\ Under(a, b) /\ Under(b, c) => Under(a, c)
  BY DEF Tighten, Under

LEMMA UnderTransitive ==
  ASSUME NEW a \in Int, NEW b \in Int, NEW c \in Int, Under(a, b), Under(b, c)
  PROVE  Under(a, c)
  BY DEF Under

LEMMA UnderTighten ==
  ASSUME NEW a \in Int, NEW b \in Int
  PROVE  Tighten(a, b) \in Int /\ Under(a, Tighten(a, b)) /\ Under(b, Tighten(a, b))
  BY DEF Under, Tighten

LEMMA TrailOrder ==
  ASSUME NEW a \in Int, NEW b \in Int, Under(b, a)
  PROVE  /\ Trail(a) \in Int /\ RoundToTick(Trail(a), 100) \in Int
         /\ Under(RoundToTick(Trail(b), 100), RoundToTick(Trail(a), 100))
<1>1. 100 - TrailingPct \in Nat \ {0} /\ 100 + TrailingPct \in Nat \ {0}
  BY SignalAssumption DEF SignalAssumption
<1>2. \A x, y \in Int : \A d \in Nat \ {0} : x <= y => x * d <= y * d
  <2> SUFFICES ASSUME NEW x \in Int, NEW y \in Int, NEW d \in Nat \ {0}, x <= y
               PROVE  x * d <= y * d
    OBVIOUS
  <2>1. CASE x = y
    BY <2>1
  <2>2. CASE x < y
    BY <2>2, Multiples
  <2> QED
    BY <2>1, <2>2
<1>3. Trail(a) \in Int /\ Trail(b) \in Int /\ Under(Trail(b), Trail(a))
  BY <1>1, <1>2 DEF Trail, Under
<1>4. /\ RoundToTick(Trail(a), 100) \in Int /\ RoundToTick(Trail(b), 100) \in Int
      /\ Tighten(RoundToTick(Trail(a), 100), RoundToTick(Trail(b), 100))
           = RoundToTick(Trail(a), 100)
  BY <1>3, Rounded DEF Under
<1> QED
  BY <1>3, <1>4, UnderOrder

\* What MovedStop makes of a stop: the tightest of it, the trailing level of the new
\* extreme, and the entry price once breakeven is on.
MovedTo(state, extreme, on) ==
  LET trailed == IF TrailingPct = 0 THEN state.effective_stop
                 ELSE Tighten(state.effective_stop, RoundToTick(Trail(extreme), 100))
  IN IF on THEN Tighten(trailed, EntryPrice) ELSE trailed

LEMMA Moved ==
  ASSUME NEW state \in StopState, OnTick(state.effective_stop), NEW bar \in Bar
  PROVE  LET m == MovedStop(state, bar)
         IN /\ m \in StopState /\ OnTick(m.effective_stop)
            /\ m.entry_at = state.entry_at /\ m.last_bar_close = bar.close_at
            /\ m.extreme = Tighten(state.extreme, Extreme(bar))
            /\ m.breakeven_active
                  = (state.breakeven_active \/ (Breakeven /\ ReachedOneR(bar.close)))
            /\ m.effective_stop = MovedTo(state, m.extreme, m.breakeven_active)
<1> DEFINE m == MovedStop(state, bar)
           e == state.effective_stop
           x == Tighten(state.extreme, Extreme(bar))
           on == state.breakeven_active \/ (Breakeven /\ ReachedOneR(bar.close))
           trailed == IF TrailingPct = 0 THEN 100 * e ELSE Tighten(100 * e, Trail(x))
           candidate == IF on THEN Tighten(trailed, 100 * EntryPrice) ELSE trailed
           stop == IF candidate = 100 * e THEN e ELSE Tighten(e, RoundToTick(candidate, 100))
<1>1. /\ e \in Int /\ state.extreme \in Int /\ state.breakeven_active \in BOOLEAN
      /\ Extreme(bar) \in Int /\ bar.close_at \in Int
      /\ state.last_bar_close \in Int \cup {None} /\ state.entry_at \in Int
  BY DEF StopState, Bar, Extreme
<1>2. x \in Int /\ on \in BOOLEAN
  BY <1>1, UnderOrder, SignalAssumption DEF ReachedOneR, SignalAssumption
<1>3. m = [state EXCEPT !.effective_stop = stop, !.extreme = x,
                        !.breakeven_active = on, !.last_bar_close = bar.close_at]
  BY DEF MovedStop
<1> HIDE DEF x, on
<1>4. Trail(x) \in Int /\ EntryPrice \in Int /\ OnTick(EntryPrice) /\ 100 * e \in Int
      /\ 100 * EntryPrice \in Int
  BY <1>1, <1>2, SetPrices, TrailOrder, UnderOrder
<1>5. /\ RoundToTick(100 * e, 100) = e /\ RoundToTick(100 * EntryPrice, 100) = EntryPrice
  BY <1>1, <1>4, RoundedOnTick
<1>6. /\ trailed \in Int
      /\ RoundToTick(trailed, 100) = IF TrailingPct = 0 THEN e
                                     ELSE Tighten(e, RoundToTick(Trail(x), 100))
  <2>1. Tighten(100 * e, Trail(x)) \in Int
    BY <1>4, Tightened
  <2>2. RoundToTick(Tighten(100 * e, Trail(x)), 100) = Tighten(e, RoundToTick(Trail(x), 100))
    BY <1>4, <1>5, RoundedTightest
  <2> QED
    BY <1>4, <1>5, <2>1, <2>2
<1> HIDE DEF trailed
<1>7. /\ candidate \in Int
      /\ RoundToTick(candidate, 100) = IF on THEN Tighten(RoundToTick(trailed, 100), EntryPrice)
                                       ELSE RoundToTick(trailed, 100)
  <2>1. Tighten(trailed, 100 * EntryPrice) \in Int
    BY <1>4, <1>6, Tightened
  <2>2. RoundToTick(Tighten(trailed, 100 * EntryPrice), 100) =
          Tighten(RoundToTick(trailed, 100), EntryPrice)
    BY <1>4, <1>5, <1>6, RoundedTightest
  <2> QED
    BY <1>6, <2>1, <2>2
<1>8. RoundToTick(candidate, 100) = MovedTo(state, x, on)
  BY <1>6, <1>7 DEF MovedTo
<1> HIDE DEF candidate
<1>9. RoundToTick(candidate, 100) \in Int /\ OnTick(RoundToTick(candidate, 100))
  BY <1>7, Rounded
<1>10. Under(e, RoundToTick(candidate, 100))
  <2>1. Under(e, RoundToTick(trailed, 100)) /\ RoundToTick(trailed, 100) \in Int
    <3>1. RoundToTick(Trail(x), 100) \in Int
      BY <1>4, Rounded
    <3>2. CASE TrailingPct = 0
      <4>1. RoundToTick(trailed, 100) = e
        BY <1>6, <3>2
      <4> QED
        BY <1>1, <4>1, UnderOrder
    <3>3. CASE TrailingPct # 0
      <4>1. RoundToTick(trailed, 100) = Tighten(e, RoundToTick(Trail(x), 100))
        BY <1>6, <3>3
      <4> DEFINE r == RoundToTick(Trail(x), 100)
      <4> HIDE DEF e, r
      <4>2. e \in Int /\ r \in Int
        BY <1>1, <3>1 DEF e, r
      <4>3. Tighten(e, r) \in Int /\ Under(e, Tighten(e, r))
        BY <4>2, UnderTighten
      <4> QED
        BY <4>1, <4>3 DEF r
    <3> QED
      BY <3>2, <3>3
  <2>2. Under(RoundToTick(trailed, 100), RoundToTick(candidate, 100))
    BY <1>4, <1>7, <2>1, UnderOrder
  <2> QED
    BY <1>1, <1>9, <2>1, <2>2, UnderTransitive
<1>11. stop = RoundToTick(candidate, 100)
  <2>1. CASE candidate = 100 * e
    BY <2>1, <1>5
  <2>2. CASE candidate # 100 * e
    <3>1. Tighten(RoundToTick(candidate, 100), e) = RoundToTick(candidate, 100)
      BY <1>1, <1>9, <1>10, UnderOrder
    <3>2. Tighten(e, RoundToTick(candidate, 100)) = Tighten(RoundToTick(candidate, 100), e)
      BY <1>1, <1>9, Tightened
    <3> QED
      BY <2>2, <3>1, <3>2
  <2> QED
    BY <2>1, <2>2
<1> HIDE DEF stop
<1>12. stop \in Int /\ OnTick(stop) /\ stop = MovedTo(state, x, on)
  BY <1>8, <1>9, <1>11
<1>13. /\ m \in StopState
       /\ m.entry_at = state.entry_at /\ m.last_bar_close = bar.close_at
       /\ m.extreme = x /\ m.breakeven_active = on /\ m.effective_stop = stop
  BY <1>1, <1>2, <1>3, <1>12 DEF StopState
<1> HIDE DEF m
<1>14. /\ m \in StopState /\ OnTick(m.effective_stop)
       /\ m.entry_at = state.entry_at /\ m.last_bar_close = bar.close_at
       /\ m.extreme = x /\ m.breakeven_active = on
       /\ m.effective_stop = MovedTo(state, m.extreme, m.breakeven_active)
  BY <1>12, <1>13
<1> QED
  BY <1>14 DEF m, x, on


-----------------------------------------------------------------------------
(***************************************************************************)
(* What the strategy bars after a fill make of its stop, as a predicate of *)
(* those bars alone.                                                       *)
(***************************************************************************)
IsTightest(level, levels) == level \in levels /\ \A other \in levels : Under(other, level)

LEMMA TheTightest ==
  ASSUME NEW levels, levels \subseteq Int, NEW level, IsTightest(level, levels)
  PROVE  Tightest(levels) = level
<1>1. level \in levels /\ \A other \in levels : Tighten(level, other) = level
  BY UnderOrder DEF IsTightest
<1>2. ASSUME NEW l \in levels, \A other \in levels : Tighten(l, other) = l
      PROVE  l = level
  <2>1. Tighten(l, level) = l /\ Tighten(level, l) = level
    BY <1>1, <1>2
  <2> QED
    BY <1>1, <1>2, <2>1, Tightened
<1> QED
  BY <1>1, <1>2 DEF Tightest

\* The bars of a series that opened after a fill.
After(series, hit) == {i \in DOMAIN series : series[i].open_at > hit}

LevelsOf(series, counted) ==
  {InitialStop}
  \cup (IF TrailingPct = 0 \/ counted = {} THEN {}
        ELSE {RoundToTick(Trail(EntryPrice), 100)}
             \cup {RoundToTick(Trail(Extreme(series[i])), 100) : i \in counted})
  \cup {EntryPrice : i \in {j \in counted : Breakeven /\ ReachedOneR(series[j].close)}}

Extremes(series, hit) == {EntryPrice} \cup {Extreme(series[i]) : i \in After(series, hit)}

Confirmed(series, hit) == \E i \in After(series, hit) : Breakeven /\ ReachedOneR(series[i].close)

\* A stop state that has seen the bars of a series that opened after the fill.
HasSeen(state, series, hit) ==
  /\ state \in StopState /\ OnTick(state.effective_stop) /\ state.entry_at = hit
  /\ IsTightest(state.extreme, Extremes(series, hit))
  /\ state.breakeven_active <=> Confirmed(series, hit)
  /\ IsTightest(state.effective_stop, LevelsOf(series, After(series, hit)))

LEMMA ExtremeOf == ASSUME NEW bar \in Bar PROVE Extreme(bar) \in Int
  BY DEF Extreme, Bar

LEMMA LevelsAre ==
  ASSUME NEW series \in Seq(Bar), NEW C, C \subseteq DOMAIN series
  PROVE  LevelsOf(series, C) \subseteq Int
<1>1. \A i \in DOMAIN series : Extreme(series[i]) \in Int
  <2> SUFFICES ASSUME NEW i \in DOMAIN series
               PROVE  Extreme(series[i]) \in Int
    OBVIOUS
  <2>1. series[i] \in Bar
    BY ElementOfSeq, LenProperties
  <2> QED
    BY <2>1, ExtremeOf
<1>2. \A x \in Int : RoundToTick(Trail(x), 100) \in Int
  BY TrailOrder, UnderOrder
<1> QED
  BY <1>1, <1>2, SetPrices DEF LevelsOf

\* One bar more, whether it counts or not.
LEMMA OneMoreBar ==
  ASSUME NEW series \in Seq(Bar), NEW bar \in Bar, NEW hit \in Int
  PROVE  LET more == Append(series, bar)
             n == Len(series) + 1
         IN /\ more \in Seq(Bar) /\ more[n] = bar /\ n \notin DOMAIN series /\ n \in DOMAIN more
            /\ \A i \in DOMAIN series : more[i] = series[i]
            /\ DOMAIN more = DOMAIN series \cup {n}
            /\ After(more, hit) = IF bar.open_at > hit THEN After(series, hit) \cup {n}
                                  ELSE After(series, hit)
<1> DEFINE more == Append(series, bar)
           n == Len(series) + 1
<1>1. /\ more \in Seq(Bar) /\ Len(more) = n /\ more[n] = bar /\ Len(series) \in Nat
      /\ DOMAIN series = 1..Len(series) /\ DOMAIN more = 1..n
      /\ \A i \in DOMAIN series : more[i] = series[i]
  BY AppendProperties, LenProperties
<1>2. n \notin DOMAIN series /\ DOMAIN more = DOMAIN series \cup {n}
  BY <1>1
<1> HIDE DEF more, n
<1>3. After(more, hit) = IF bar.open_at > hit THEN After(series, hit) \cup {n}
                         ELSE After(series, hit)
  BY <1>1, <1>2 DEF After
<1>4. /\ more \in Seq(Bar) /\ more[n] = bar /\ n \notin DOMAIN series /\ n \in DOMAIN more
      /\ \A i \in DOMAIN series : more[i] = series[i]
      /\ DOMAIN more = DOMAIN series \cup {n}
  BY <1>1, <1>2
<1> QED
  BY <1>3, <1>4 DEF more, n

\* A bar that opened before the fill candle closed leaves everything as it was.
LEMMA EarlierBar ==
  ASSUME NEW series \in Seq(Bar), NEW bar \in Bar, NEW hit \in Int, NEW state,
         HasSeen(state, series, hit), ~(bar.open_at > hit)
  PROVE  HasSeen(state, Append(series, bar), hit)
<1> DEFINE more == Append(series, bar)
           C == After(series, hit)
<1>1. /\ \A i \in DOMAIN series : more[i] = series[i]
      /\ After(more, hit) = C /\ C \subseteq DOMAIN series
  BY OneMoreBar DEF After
<1> HIDE DEF more, C
<1>2. \A i \in C : more[i] = series[i]
  BY <1>1
<1>3. /\ {Extreme(more[i]) : i \in C} = {Extreme(series[i]) : i \in C}
      /\ {RoundToTick(Trail(Extreme(more[i])), 100) : i \in C}
           = {RoundToTick(Trail(Extreme(series[i])), 100) : i \in C}
      /\ {j \in C : Breakeven /\ ReachedOneR(more[j].close)}
           = {j \in C : Breakeven /\ ReachedOneR(series[j].close)}
  BY <1>2
<1>4. Extremes(more, hit) = Extremes(series, hit)
  BY <1>1, <1>3 DEF Extremes, C
<1>5. Confirmed(more, hit) <=> Confirmed(series, hit)
  BY <1>1, <1>2 DEF Confirmed, C
<1>6. LevelsOf(more, After(more, hit)) = LevelsOf(series, C)
  BY <1>1, <1>3 DEF LevelsOf
<1> QED
  BY <1>4, <1>5, <1>6 DEF HasSeen, more, C

\* A later bar moves the stop to the tightest level of the bars so far.
LEMMA LaterBar ==
  ASSUME NEW series \in Seq(Bar), NEW bar \in Bar, NEW hit \in Int, NEW state,
         HasSeen(state, series, hit), bar.open_at > hit
  PROVE  LET moved == MovedStop(state, bar)
         IN /\ HasSeen(moved, Append(series, bar), hit)
            /\ moved.last_bar_close = bar.close_at
            /\ Under(state.effective_stop, moved.effective_stop)
<1> DEFINE more == Append(series, bar)
           n == Len(series) + 1
           C == After(series, hit)
           D == After(more, hit)
           moved == MovedStop(state, bar)
           e == state.effective_stop
           x == moved.extreme
           on == moved.breakeven_active
           stop == moved.effective_stop
           rounded == RoundToTick(Trail(x), 100)
<1>1. /\ more \in Seq(Bar) /\ more[n] = bar /\ n \notin DOMAIN series
      /\ \A i \in DOMAIN series : more[i] = series[i]
      /\ DOMAIN more = DOMAIN series \cup {n}
      /\ D = C \cup {n} /\ C \subseteq DOMAIN series
  BY OneMoreBar DEF After
<1>2. /\ state \in StopState /\ OnTick(e) /\ state.entry_at = hit
      /\ IsTightest(state.extreme, Extremes(series, hit))
      /\ state.breakeven_active <=> Confirmed(series, hit)
      /\ IsTightest(e, LevelsOf(series, C))
  BY DEF HasSeen
<1>3. /\ moved \in StopState /\ OnTick(stop)
      /\ moved.entry_at = state.entry_at /\ moved.last_bar_close = bar.close_at
      /\ x = Tighten(state.extreme, Extreme(bar))
      /\ on = (state.breakeven_active \/ (Breakeven /\ ReachedOneR(bar.close)))
      /\ stop = MovedTo(state, x, on)
  BY <1>2, Moved
<1>4. /\ e \in Int /\ state.extreme \in Int /\ Extreme(bar) \in Int /\ x \in Int /\ stop \in Int
      /\ on \in BOOLEAN
  BY <1>2, <1>3 DEF StopState, Bar, Extreme
<1> HIDE DEF more, n, C, D, moved, e, x, on, stop
<1>5. rounded \in Int
  BY <1>4, TrailOrder, UnderOrder
<1>6. \A i \in C : more[i] = series[i]
  BY <1>1
<1>7. Extremes(more, hit) = Extremes(series, hit) \cup {Extreme(bar)}
  <2>1. Extremes(more, hit) = {EntryPrice} \cup {Extreme(more[i]) : i \in D}
    BY DEF Extremes, D
  <2>2. {Extreme(more[i]) : i \in D} = {Extreme(series[i]) : i \in C} \cup {Extreme(bar)}
    BY <1>1, <1>6
  <2> QED
    BY <2>1, <2>2 DEF Extremes, C
<1>8. IsTightest(x, Extremes(more, hit))
  <2>1. x \in Extremes(more, hit)
    BY <1>2, <1>3, <1>4, <1>7, Tightened DEF IsTightest
  <2>2. Under(Extreme(bar), x) /\ Under(state.extreme, x)
    BY <1>3, <1>4, UnderTighten
  <2>3. ASSUME NEW z \in Extremes(series, hit)
        PROVE  Under(z, x)
    <3>1. z \in Int
      <4>1. \A i \in C : Extreme(series[i]) \in Int
        <5> SUFFICES ASSUME NEW i \in C
                     PROVE  Extreme(series[i]) \in Int
          OBVIOUS
        <5>1. series[i] \in Bar
          BY <1>1, ElementOfSeq, LenProperties
        <5> QED
          BY <5>1, ExtremeOf
      <4> QED
        BY <4>1, SetPrices DEF Extremes, C
    <3>2. Under(z, state.extreme)
      BY <1>2 DEF IsTightest
    <3> QED
      BY <1>4, <2>2, <3>1, <3>2, UnderTransitive
  <2> QED
    BY <1>7, <2>1, <2>2, <2>3 DEF IsTightest
<1>9. on <=> Confirmed(more, hit)
  <2>1. Confirmed(more, hit) <=> \E i \in D : Breakeven /\ ReachedOneR(more[i].close)
    BY DEF Confirmed, D
  <2>2. (\E i \in D : Breakeven /\ ReachedOneR(more[i].close))
          <=> \/ \E i \in C : Breakeven /\ ReachedOneR(series[i].close)
              \/ Breakeven /\ ReachedOneR(bar.close)
    BY <1>1, <1>6
  <2>3. Confirmed(series, hit) <=> \E i \in C : Breakeven /\ ReachedOneR(series[i].close)
    BY DEF Confirmed, C
  <2> QED
    BY <1>2, <1>3, <2>1, <2>2, <2>3
<1>10. /\ stop = e \/ (on /\ stop = EntryPrice) \/ (TrailingPct # 0 /\ stop = rounded)
       /\ Under(e, stop)
       /\ TrailingPct # 0 => Under(rounded, stop)
       /\ on => Under(EntryPrice, stop)
  <2> DEFINE trailed == IF TrailingPct = 0 THEN e ELSE Tighten(e, rounded)
  <2>1. stop = IF on THEN Tighten(trailed, EntryPrice) ELSE trailed
    BY <1>3 DEF MovedTo, e, x
  <2>2. EntryPrice \in Int
    BY SetPrices
  <2> HIDE DEF rounded
  <2>3. /\ trailed \in Int /\ Under(e, trailed)
        /\ trailed = e \/ (TrailingPct # 0 /\ trailed = rounded)
        /\ TrailingPct # 0 => Under(rounded, trailed)
    <3>1. CASE TrailingPct = 0
      BY <1>4, <3>1, UnderOrder
    <3>2. CASE TrailingPct # 0
      <4>1. trailed = Tighten(e, rounded)
        BY <3>2
      <4>2. Tighten(e, rounded) \in {e, rounded}
        BY <1>4, <1>5, Tightened
      <4> QED
        BY <1>4, <1>5, <3>2, <4>1, <4>2, UnderTighten
    <3> QED
      BY <3>1, <3>2
  <2> HIDE DEF trailed
  <2>4. CASE ~on
    BY <1>4, <2>1, <2>3, <2>4
  <2>5. CASE on
    <3>1. stop = Tighten(trailed, EntryPrice)
      BY <2>1, <2>5
    <3>2. Under(trailed, stop) /\ Under(EntryPrice, stop) /\ stop \in {trailed, EntryPrice}
      BY <2>2, <2>3, <3>1, UnderTighten, Tightened
    <3>3. Under(e, stop)
      BY <1>4, <2>3, <3>2, UnderTransitive
    <3>4. TrailingPct # 0 => Under(rounded, stop)
      BY <1>4, <1>5, <2>3, <3>2, UnderTransitive
    <3> QED
      BY <2>3, <2>5, <3>2, <3>3, <3>4
  <2> QED
    BY <2>4, <2>5
<1>11. LevelsOf(more, D) = LevelsOf(series, C)
         \cup (IF TrailingPct = 0 THEN {}
               ELSE {RoundToTick(Trail(EntryPrice), 100), RoundToTick(Trail(Extreme(bar)), 100)})
         \cup (IF Breakeven /\ ReachedOneR(bar.close) THEN {EntryPrice} ELSE {})
  <2> DEFINE L(z) == RoundToTick(Trail(z), 100)
             P(z) == Breakeven /\ ReachedOneR(z.close)
  <2> HIDE DEF L, P
  <2>1. /\ LevelsOf(more, D) = {InitialStop}
             \cup (IF TrailingPct = 0 \/ D = {} THEN {}
                   ELSE {L(EntryPrice)} \cup {L(Extreme(more[i])) : i \in D})
             \cup {EntryPrice : i \in {j \in D : P(more[j])}}
        /\ LevelsOf(series, C) = {InitialStop}
             \cup (IF TrailingPct = 0 \/ C = {} THEN {}
                   ELSE {L(EntryPrice)} \cup {L(Extreme(series[i])) : i \in C})
             \cup {EntryPrice : i \in {j \in C : P(series[j])}}
    BY DEF LevelsOf, L, P
  <2>2. /\ D # {}
        /\ {L(Extreme(more[i])) : i \in D}
             = {L(Extreme(series[i])) : i \in C} \cup {L(Extreme(bar))}
    BY <1>1, <1>6
  <2>3. {EntryPrice : i \in {j \in D : P(more[j])}}
          = {EntryPrice : i \in {j \in C : P(series[j])}} \cup (IF P(bar) THEN {EntryPrice} ELSE {})
    BY <1>1, <1>6
  <2>4. LevelsOf(more, D) = LevelsOf(series, C)
          \cup (IF TrailingPct = 0 THEN {} ELSE {L(EntryPrice), L(Extreme(bar))})
          \cup (IF P(bar) THEN {EntryPrice} ELSE {})
    <3>1. CASE TrailingPct = 0
      BY <2>1, <2>3, <3>1
    <3>2. CASE TrailingPct # 0 /\ C = {}
      BY <2>1, <2>2, <2>3, <3>2, SMTT(20)
    <3>3. CASE TrailingPct # 0 /\ C # {}
      BY <2>1, <2>2, <2>3, <3>3
    <3> QED
      BY <3>1, <3>2, <3>3
  <2> QED
    BY <2>4 DEF L, P
<1>12. stop \in LevelsOf(more, D)
  <2>1. e \in LevelsOf(more, D)
    BY <1>2, <1>11 DEF IsTightest
  <2>2. on => EntryPrice \in LevelsOf(more, D)
    <3>1. ASSUME on PROVE \E i \in D : Breakeven /\ ReachedOneR(more[i].close)
      BY <1>9, <3>1 DEF Confirmed, D
    <3> QED
      BY <3>1 DEF LevelsOf
  <2>3. TrailingPct # 0 => rounded \in LevelsOf(more, D)
    <3>1. x = EntryPrice \/ \E i \in D : x = Extreme(more[i])
      BY <1>8 DEF IsTightest, Extremes, D
    <3>2. D # {}
      BY <1>1
    <3> QED
      BY <3>1, <3>2 DEF LevelsOf
  <2> HIDE DEF rounded
  <2> QED
    BY <1>10, <2>1, <2>2, <2>3
<1>13. ASSUME NEW o \in LevelsOf(more, D)
       PROVE  Under(o, stop)
  <2>1. CASE o \in LevelsOf(series, C)
    <3>1. o \in Int /\ Under(o, e)
      BY <1>1, <1>2, <2>1, LevelsAre DEF IsTightest
    <3> QED
      BY <1>4, <1>10, <3>1, UnderTransitive
  <2>2. CASE TrailingPct # 0 /\ o \in {RoundToTick(Trail(EntryPrice), 100),
                                        RoundToTick(Trail(Extreme(bar)), 100)}
    <3>1. PICK z \in {EntryPrice, Extreme(bar)} : o = RoundToTick(Trail(z), 100)
      BY <2>2
    <3>2. z \in Int /\ Under(z, x)
      BY <1>4, <1>7, <1>8, SetPrices DEF IsTightest, Extremes
    <3>3. o \in Int /\ Under(o, rounded)
      BY <1>4, <3>1, <3>2, TrailOrder, UnderOrder
    <3> QED
      BY <1>4, <1>5, <1>10, <2>2, <3>3, UnderTransitive
  <2>3. CASE Breakeven /\ ReachedOneR(bar.close) /\ o = EntryPrice
    BY <1>3, <1>10, <2>3
  <2> QED
    BY <1>11, <2>1, <2>2, <2>3
<1>14. HasSeen(moved, more, hit)
  BY <1>2, <1>3, <1>8, <1>9, <1>12, <1>13 DEF HasSeen, IsTightest, D, x, on, stop
<1> QED
  BY <1>3, <1>10, <1>14 DEF moved, more, e, stop

\* A signal that has just been filled has seen no bar.
LEMMA FilledNow ==
  ASSUME NEW series \in Seq(Bar), NEW hit \in Int, After(series, hit) = {},
         NEW sig, sig.stop_loss = InitialStop, sig.entry_hit_at = hit
  PROVE  HasSeen(InitialStopState(sig), series, hit)
<1> DEFINE state == InitialStopState(sig)
<1>1. /\ state \in StopState /\ state.entry_at = hit /\ state.effective_stop = InitialStop
      /\ state.extreme = EntryPrice /\ state.breakeven_active = FALSE
  BY SetPrices DEF InitialStopState, StopState
<1> HIDE DEF state
<1>2. /\ Extremes(series, hit) = {EntryPrice} /\ ~Confirmed(series, hit)
      /\ LevelsOf(series, After(series, hit)) = {InitialStop}
  BY DEF Extremes, Confirmed, LevelsOf
<1>3. Under(EntryPrice, EntryPrice) /\ Under(InitialStop, InitialStop)
  BY SetPrices, UnderOrder
<1> QED
  BY <1>1, <1>2, <1>3, SetPrices DEF HasSeen, IsTightest, state

-----------------------------------------------------------------------------
(***************************************************************************)
(* The inductive invariant, in named parts.                                *)
(***************************************************************************)
\* The instant by which every strategy bar so far has closed.
ClosedBy(now, due) ==
  IF due \in {"candle", "bar"} THEN now - 3 ELSE IF now % 2 = 0 THEN now - 1 ELSE now - 2

\* Candles come at even instants; bars are whole and behind the clock.
Timeline ==
  /\ phase \in {"candle", "bar"} => clock % 2 = 0 /\ clock >= 2
  /\ \A i \in DOMAIN building : building[i].open_time <= clock - 2
  /\ IF phase = "bar"
     THEN /\ BarCandles > 0 /\ Len(building) > 0
          /\ building[Len(building)].open_time = clock - 2
     ELSE BarCandles > 0 => Len(building) < BarCandles
  /\ \A i \in DOMAIN bars : /\ bars[i].open_at <= bars[i].close_at
                            /\ bars[i].close_at <= ClosedBy(clock, phase)
  /\ BarCandles = 0 => bars = <<>>

Waiting(sig) ==
  /\ sig.status = "published" /\ sig.lifecycle_status = "awaiting_entry"
  /\ sig.entry_hit_at = None /\ sig.stop_loss = InitialStop

Summary(sig, kept) == IF kept = <<>> THEN InitialStopState(sig) ELSE kept[1]

\* An open trade carries the stop its bars give.
Open(sig, kept, series, by, now) ==
  /\ sig.status = "active"
  /\ sig.entry_hit_at \in Int /\ sig.created_at < sig.entry_hit_at /\ sig.entry_hit_at < now
  /\ HasSeen(Summary(sig, kept), series, sig.entry_hit_at)
  /\ Summary(sig, kept).effective_stop = sig.stop_loss
  /\ Summary(sig, kept).last_bar_close # None => Summary(sig, kept).last_bar_close <= by

Live ==
  active # <<>> => \/ Waiting(active[1]) /\ stopState = <<>>
                   \/ Open(active[1], stopState, bars, ClosedBy(clock, phase), clock)

\* The bars that count for a signal until an instant.
CountedOf(series, hit, until) ==
  {i \in DOMAIN series : series[i].open_at > hit /\ series[i].close_at < until}

\* A signal that ended did so after its fill, and at the stop its bars gave if at a stop.
Done(sig, series, now) ==
  /\ sig.status = "closed" /\ sig.closed_at \in Int /\ sig.closed_at <= now
  /\ sig.entry_hit_at # None => /\ sig.created_at < sig.entry_hit_at
                                /\ sig.entry_hit_at <= sig.closed_at
  /\ sig.lifecycle_status \in {"tp_full", "stopped_out", "expired_unfilled", "strategy_exited"}
  /\ sig.lifecycle_status # "expired_unfilled" => sig.entry_hit_at # None /\ sig.close_price \in Int
  /\ sig.lifecycle_status = "stopped_out" =>
       IsTightest(sig.close_price,
                  LevelsOf(series, CountedOf(series, sig.entry_hit_at, sig.closed_at - 1)))

Ended == \A i \in DOMAIN closures : Done(closures[i], bars, clock)

\* One signal for each publication, each waiting for the previous one to close.
InOrder ==
  /\ Len(closures) + Len(active) = Len(published)
  /\ \A i \in DOMAIN published : published[i] <= clock
  /\ \A i \in DOMAIN closures : /\ closures[i].created_at = published[i]
                                /\ i < Len(published) => closures[i].closed_at <= published[i + 1]
  /\ active # <<>> => active[1].created_at = published[Len(published)]

IInv == TypeOK /\ Timeline /\ Live /\ Ended /\ InOrder

-----------------------------------------------------------------------------
(***************************************************************************)
(* Types of the pure steps.                                                *)
(***************************************************************************)
LEMMA NewSignalIs ==
  ASSUME NEW at \in Nat
  PROVE  NewSignal(at) \in Signal /\ Waiting(NewSignal(at)) /\ NewSignal(at).created_at = at
  BY SetPrices DEF NewSignal, Signal, Waiting

LEMMA ClosedIs ==
  ASSUME NEW sig \in Signal, NEW at \in Int, NEW price \in Int \cup {None},
         NEW why \in {"tp_full", "stopped_out", "expired_unfilled", "strategy_exited"}
  PROVE  LET c == Closed(sig, why, at, price)
         IN /\ c \in Signal /\ c.status = "closed" /\ c.lifecycle_status = why /\ c.closed_at = at
            /\ c.close_price = price /\ c.created_at = sig.created_at
            /\ c.entry_hit_at = sig.entry_hit_at /\ c.stop_loss = sig.stop_loss
  BY DEF Closed, Signal

LEMMA EnteredIs ==
  ASSUME NEW sig \in Signal, NEW candle \in Candle
  PROVE  LET c == Entered(sig, candle)
         IN /\ c \in Signal /\ c.status = "active" /\ c.lifecycle_status = "entered"
            /\ c.entry_hit_at = candle.open_time + 1 /\ c.created_at = sig.created_at
            /\ c.stop_loss = sig.stop_loss
<1> DEFINE at == candle.open_time + 1
<1>1. at \in Int
  BY DEF Candle
<1>2. Entered(sig, candle) = [sig EXCEPT !.status = "active", !.lifecycle_status = "entered",
                                         !.entry_hit_at = at]
  BY DEF Entered, CloseTime
<1> HIDE DEF at
<1>3. /\ Entered(sig, candle) \in Signal
      /\ Entered(sig, candle).status = "active" /\ Entered(sig, candle).lifecycle_status = "entered"
      /\ Entered(sig, candle).entry_hit_at = at /\ Entered(sig, candle).created_at = sig.created_at
      /\ Entered(sig, candle).stop_loss = sig.stop_loss
  BY <1>1, <1>2 DEF Signal
<1> QED
  BY <1>3 DEF at

LEMMA SignalFields ==
  ASSUME NEW sig \in Signal
  PROVE  /\ sig.created_at \in Nat /\ sig.stop_loss \in Int
         /\ sig.entry_hit_at \in Int \cup {None} /\ sig.closed_at \in Int \cup {None}
         /\ sig.close_price \in Int \cup {None} /\ sig.status \in {"published", "active", "closed"}
  BY DEF Signal

LEMMA NoneIsNoNumber == None \notin Int
  BY SignalAssumption DEF SignalAssumption

LEMMA SettledRisk ==
  ASSUME NEW state \in RiskState, NEW price \in Int, NEW funding \in Int,
         state.equity <= state.peak_equity
  PROVE  LET ret == NetReturn(price, funding)
             next == SettleRisk(state, ret)
         IN ret \in Int /\ next \in RiskState /\ next.equity <= next.peak_equity
<1> DEFINE ret == NetReturn(price, funding)
           equity == Larger(0, state.equity * (Scale + ret))
           peak == Larger(state.peak_equity * Scale, equity)
           losses == CASE ret < 0 -> state.consecutive_losses + 1
                       [] ret > 0 -> 0
                       [] OTHER   -> state.consecutive_losses
           paused == state.entries_paused \/ 5 * (peak - equity) >= peak \/ losses >= 5
<1>1. /\ EntryPrice \in Nat \ {0} /\ CostDen \in Nat \ {0} /\ CostNum \in Nat
      /\ Leverage \in Nat \ {0}
  BY SetPrices, SignalAssumption DEF SignalAssumption
<1>2. ret \in Int
  BY <1>1 DEF NetReturn
<1>3. Scale \in Nat \ {0}
  BY <1>1 DEF Scale
<1>4. /\ state.equity \in Nat /\ state.peak_equity \in Nat \ {0}
      /\ state.consecutive_losses \in Nat /\ state.entries_paused \in BOOLEAN
  BY DEF RiskState
<1> HIDE DEF ret
<1>5. state.equity * (Scale + ret) \in Int /\ state.peak_equity * Scale \in Nat \ {0}
  <2>1. \A a, b \in Nat \ {0} : a * b \in Nat \ {0}
    OBVIOUS
  <2> QED
    BY <1>2, <1>3, <1>4, <2>1
<1>6. equity \in Nat /\ peak \in Nat \ {0} /\ equity <= peak
  BY <1>5 DEF Larger
<1>7. losses \in Nat
  BY <1>2, <1>4
<1>8. SettleRisk(state, ret) = [equity |-> equity, peak_equity |-> peak,
                                consecutive_losses |-> losses, entries_paused |-> paused]
  BY DEF SettleRisk
<1> HIDE DEF equity, peak, losses
<1>9. paused \in BOOLEAN
  BY <1>4
<1> HIDE DEF paused
<1>10. SettleRisk(state, ret) \in RiskState
       /\ SettleRisk(state, ret).equity <= SettleRisk(state, ret).peak_equity
  BY <1>6, <1>7, <1>8, <1>9 DEF RiskState
<1> QED
  BY <1>2, <1>10 DEF ret

-----------------------------------------------------------------------------
(***************************************************************************)
(* The detector: what one closed candle makes of a live signal.            *)
(***************************************************************************)
\* A candle that closed at the last instant leaves the signal, fills it, or ends it; a
\* stopped trade leaves at the stop its bars gave.
LEMMA Advanced ==
  ASSUME NEW sig \in Signal, NEW candle \in Candle, NEW kept, NEW series \in Seq(Bar),
         NEW now \in Nat, candle.open_time = now - 2,
         \A i \in DOMAIN series : series[i].close_at <= now - 3,
         Waiting(sig) \/ Open(sig, kept, series, now - 3, now)
  PROVE  LET r == Advance(sig, candle)
         IN /\ r \in Signal /\ r.created_at = sig.created_at
            /\ \/ r = sig
               \/ Waiting(sig) /\ r = Entered(sig, candle) /\ sig.created_at < now - 1
               \/ /\ Done(r, series, now) /\ r.status = "closed"
                  /\ \/ Waiting(sig) /\ r.lifecycle_status = "expired_unfilled"
                     \/ Waiting(sig) /\ r.lifecycle_status = "tp_full" /\ r.close_price = Target
                     \/ /\ ~Waiting(sig) /\ r.lifecycle_status # "expired_unfilled"
                        /\ r.close_price \in {Target, sig.stop_loss}
<1> DEFINE r == Advance(sig, candle)
           tp == Favourable(candle, Target)
           sl == Adverse(candle, sig.stop_loss)
           entry == Adverse(candle, EntryPrice)
           at == now - 1
           till == sig.created_at + Lifetime
<1>1. /\ CloseTime(candle) = at /\ at \in Int /\ candle.open_time \in Nat
      /\ sig.created_at \in Nat /\ sig.stop_loss \in Int /\ till \in Int
      /\ Target \in Int /\ None \notin Int
  BY SignalFields, SetPrices, NoneIsNoNumber, SignalAssumption, SMTT(20)
     DEF CloseTime, Candle, SignalAssumption
<1>2. OpenedAfter(sig, candle) <=> sig.created_at < at
  BY <1>1 DEF OpenedAfter
<1>3. Expired(sig, candle) => till <= at /\ sig.status = "published"
  BY <1>1 DEF Expired
<1>4. CASE Waiting(sig)
  <2>1. sig.status = "published" /\ sig.entry_hit_at = None
    BY <1>4 DEF Waiting
  <2> DEFINE gone(when, price) == Closed(sig, "expired_unfilled", when, price)
             full == Closed(Entered(sig, candle), "tp_full", at, Target)
  <2>2. \/ r = sig
        \/ r = Entered(sig, candle) /\ sig.created_at < at
        \/ r = full /\ sig.created_at < at
        \/ \E when \in Int, price \in Int \cup {None} : when <= at /\ r = gone(when, price)
    <3>1. CASE Expired(sig, candle)
      <4>1. r = gone(till, None)
        BY <2>1, <3>1 DEF Advance
      <4> QED
        BY <1>1, <1>3, <3>1, <4>1
    <3>2. CASE ~Expired(sig, candle) /\ ~OpenedAfter(sig, candle)
      BY <2>1, <3>2 DEF Advance
    <3>3. CASE ~Expired(sig, candle) /\ OpenedAfter(sig, candle)
      <4>1. r = CASE entry /\ tp         -> full
                  [] entry /\ ~tp /\ sl  -> gone(at, sig.stop_loss)
                  [] entry /\ ~tp /\ ~sl -> Entered(sig, candle)
                  [] ~entry /\ tp        -> gone(at, Target)
                  [] OTHER               -> sig
        BY <1>1, <2>1, <3>3 DEF Advance
      <4> HIDE DEF r, tp, sl, entry, full, gone
      <4>2. r \in {full, gone(at, sig.stop_loss), Entered(sig, candle), gone(at, Target), sig}
        BY <4>1
      <4> QED
        BY <1>1, <1>2, <3>3, <4>2
    <3> QED
      BY <3>1, <3>2, <3>3
  <2> HIDE DEF r
  <2>3. CASE r = sig
    BY <2>3 DEF r
  <2>4. CASE r = Entered(sig, candle) /\ sig.created_at < at
    BY <1>4, <2>4, EnteredIs DEF r
  <2>5. CASE r = full /\ sig.created_at < at
    <3>1. /\ full \in Signal /\ full.status = "closed" /\ full.lifecycle_status = "tp_full"
          /\ full.closed_at = at /\ full.close_price = Target
          /\ full.created_at = sig.created_at /\ full.entry_hit_at = at
      <4>1. /\ Entered(sig, candle) \in Signal /\ Entered(sig, candle).created_at = sig.created_at
            /\ Entered(sig, candle).entry_hit_at = at
        BY <1>1, EnteredIs DEF CloseTime
      <4> QED
        BY <1>1, <4>1, ClosedIs
    <3>2. Done(full, series, now)
      BY <1>1, <2>5, <3>1 DEF Done
    <3> HIDE DEF full
    <3> QED
      BY <1>4, <2>5, <3>1, <3>2 DEF r
  <2>6. ASSUME NEW when \in Int, NEW price \in Int \cup {None}, when <= at, r = gone(when, price)
        PROVE  /\ r \in Signal /\ r.created_at = sig.created_at /\ r.status = "closed"
               /\ r.lifecycle_status = "expired_unfilled" /\ Done(r, series, now)
    <3>1. /\ r \in Signal /\ r.status = "closed" /\ r.lifecycle_status = "expired_unfilled"
          /\ r.closed_at = when /\ r.created_at = sig.created_at /\ r.entry_hit_at = None
      BY <2>1, <2>6, ClosedIs
    <3> QED
      BY <1>1, <2>6, <3>1 DEF Done
  <2>7. CASE \E when \in Int, price \in Int \cup {None} : when <= at /\ r = gone(when, price)
    BY <1>4, <2>6, <2>7 DEF r
  <2> QED
    BY <2>2, <2>3, <2>4, <2>5, <2>7 DEF r
<1>5. CASE Open(sig, kept, series, now - 3, now)
  <2>1. /\ sig.status = "active" /\ sig.entry_hit_at \in Int /\ sig.created_at < sig.entry_hit_at
        /\ sig.entry_hit_at < now /\ HasSeen(Summary(sig, kept), series, sig.entry_hit_at)
        /\ Summary(sig, kept).effective_stop = sig.stop_loss
    BY <1>5 DEF Open
  <2>2. ~Waiting(sig)
    BY <2>1 DEF Waiting
  <2> DEFINE full == Closed(sig, "tp_full", at, Target)
             out == Closed(sig, "stopped_out", at, sig.stop_loss)
  <2>3. r \in {sig, full, out}
    <3>1. ~Expired(sig, candle)
      BY <2>1 DEF Expired
    <3>2. OpenedAfter(sig, candle)
      BY <1>1, <1>2, <2>1
    <3>3. r = CASE tp -> full [] ~tp /\ sl -> out [] OTHER -> sig
      BY <1>1, <2>1, <3>1, <3>2 DEF Advance
    <3> HIDE DEF r, tp, sl, full, out
    <3> QED
      BY <3>3
  <2> HIDE DEF r
  <2>4. CASE r = sig
    BY <2>4 DEF r
  <2>5. CASE r = full
    <3>1. /\ full \in Signal /\ full.status = "closed" /\ full.lifecycle_status = "tp_full"
          /\ full.closed_at = at /\ full.close_price = Target
          /\ full.created_at = sig.created_at /\ full.entry_hit_at = sig.entry_hit_at
      BY <1>1, ClosedIs
    <3> HIDE DEF full
    <3>2. Done(full, series, now)
      BY <1>1, <2>1, <3>1 DEF Done
    <3> QED
      BY <2>2, <2>5, <3>1, <3>2 DEF r
  <2>6. CASE r = out
    <3>1. /\ out \in Signal /\ out.status = "closed" /\ out.lifecycle_status = "stopped_out"
          /\ out.closed_at = at /\ out.close_price = sig.stop_loss
          /\ out.created_at = sig.created_at /\ out.entry_hit_at = sig.entry_hit_at
      BY <1>1, ClosedIs
    <3> HIDE DEF out
    <3>2. IsTightest(sig.stop_loss, LevelsOf(series, After(series, sig.entry_hit_at)))
      BY <2>1 DEF HasSeen
    <3>3. CountedOf(series, sig.entry_hit_at, at - 1) = After(series, sig.entry_hit_at)
      <4>1. \A i \in DOMAIN series : series[i].close_at \in Int
        <5> SUFFICES ASSUME NEW i \in DOMAIN series
                     PROVE  series[i].close_at \in Int
          OBVIOUS
        <5>1. series[i] \in Bar
          BY ElementOfSeq, LenProperties
        <5> QED
          BY <5>1 DEF Bar
      <4> QED
        BY <4>1 DEF CountedOf, After
    <3>4. Done(out, series, now)
      BY <1>1, <2>1, <3>1, <3>2, <3>3 DEF Done
    <3> QED
      BY <2>2, <2>6, <3>1, <3>4 DEF r
  <2> QED
    BY <2>3, <2>4, <2>5, <2>6
<1> QED
  BY <1>4, <1>5

-----------------------------------------------------------------------------
(***************************************************************************)
(* The strategy bar of the observed candles.                               *)
(***************************************************************************)
\* A set of numbers that is not empty has a least one.
LEMMA LeastOf ==
  ASSUME NEW S, S \subseteq Nat, S # {}
  PROVE  \E n \in S : \A m \in S : n <= m
<1>1. IsWellFoundedOn(OpToRel(<, Nat), Nat)
  BY NatLessThanWellFounded
<1>2. PICK n \in S : \A m \in S : ~(<<m, n>> \in OpToRel(<, Nat))
  BY <1>1, WFMin
<1>3. \A m \in S : ~(m < n)
  BY <1>2 DEF OpToRel
<1> QED
  BY <1>3

\* The numbers of a finite list have a greatest one.
LEMMA Highest ==
  ASSUME NEW n \in Nat \ {0}, NEW f, \A i \in 1..n : f[i] \in Nat
  PROVE  \E i \in 1..n : \A j \in 1..n : f[j] <= f[i]
<1> DEFINE Has(k) == \E i \in 1..k : \A j \in 1..k : f[j] <= f[i]
           S == {k \in 1..n : ~Has(k)}
<1>1. SUFFICES ASSUME S # {} PROVE FALSE
  <2>1. n \in 1..n
    OBVIOUS
  <2> QED
    BY <1>1, <2>1
<1>2. PICK k \in S : \A m \in S : k <= m
  <2>1. S \subseteq Nat
    OBVIOUS
  <2> HIDE DEF S
  <2> QED
    BY <1>1, <2>1, LeastOf
<1>3. k \in 1..n /\ ~Has(k)
  BY <1>2
<1>4. CASE k = 1
  <2>1. f[1] <= f[1]
    BY <1>3, <1>4
  <2>2. Has(1)
    BY <2>1
  <2> QED
    BY <1>3, <1>4, <2>2
<1>5. CASE k # 1
  <2>1. k - 1 \in 1..n /\ k \in Nat
    BY <1>3, <1>5
  <2>2. k - 1 \notin S
    <3> HIDE DEF S
    <3> QED
      BY <1>2, <2>1
  <2> HIDE DEF Has
  <2>8. Has(k - 1)
    BY <2>1, <2>2
  <2> USE DEF Has
  <2>3. PICK i \in 1..(k - 1) : \A j \in 1..(k - 1) : f[j] <= f[i]
    BY <2>8
  <2>4. f[i] \in Nat /\ f[k] \in Nat /\ i \in 1..k /\ k \in 1..k
    BY <1>3, <2>3
  <2>5. \A j \in 1..k : j \in 1..(k - 1) \/ j = k
    BY <1>3
  <2>6. CASE f[k] <= f[i]
    <3>1. \A j \in 1..k : f[j] <= f[i]
      BY <2>3, <2>5, <2>6
    <3> QED
      BY <1>3, <2>4, <3>1
  <2>7. CASE f[i] <= f[k]
    <3>1. \A j \in 1..k : f[j] <= f[k]
      <4>1. ASSUME NEW j \in 1..k
            PROVE  f[j] <= f[k]
        <5>1. f[j] \in Nat
          BY <1>3
        <5>2. CASE j = k
          BY <2>4, <5>2
        <5>3. CASE j # k
          <6>1. f[j] <= f[i]
            BY <2>3, <2>5, <5>3
          <6> QED
            BY <2>4, <2>7, <5>1, <6>1
        <5> QED
          BY <5>2, <5>3
      <4> QED
        BY <4>1
    <3> QED
      BY <1>3, <2>4, <3>1
  <2> QED
    BY <2>4, <2>6, <2>7
<1> QED
  BY <1>4, <1>5

\* When a strategy bar is due, the candles make one that closed at the last instant.
LEMMA BarIs ==
  ASSUME TypeOK, Timeline, phase = "bar"
  PROVE  Completed \in Bar /\ Completed.close_at = clock - 1 /\ Completed.open_at <= clock - 2
<1> DEFINE n == Len(building)
           highs == {building[i].high : i \in DOMAIN building}
           lows == {building[i].low : i \in DOMAIN building}
<1>1. building \in Seq(Candle) /\ clock \in Nat /\ clock >= 2
  BY DEF TypeOK, Timeline
<1>2. n \in Nat \ {0} /\ DOMAIN building = 1..n
  BY <1>1, LenProperties DEF Timeline
<1> HIDE DEF n
<1>3. \A i \in 1..n : building[i] \in Candle
  BY <1>1, <1>2, ElementOfSeq DEF n
<1>4. \A i \in 1..n : /\ building[i].open_time \in Nat /\ building[i].high \in Nat \ {0}
                      /\ building[i].low \in Nat \ {0} /\ building[i].close \in Nat \ {0}
  BY <1>3 DEF Candle
<1>5. \E h \in highs : \A x \in highs : x <= h
  <2> DEFINE f == [i \in 1..n |-> building[i].high]
  <2>1. \A i \in 1..n : f[i] = building[i].high
    OBVIOUS
  <2>2. \A i \in 1..n : f[i] \in Nat
    BY <1>4, <2>1
  <2> HIDE DEF f
  <2>3. PICK i \in 1..n : \A j \in 1..n : f[j] <= f[i]
    BY <1>2, <2>2, Highest
  <2>4. f[i] \in highs
    BY <1>2, <2>1
  <2>5. ASSUME NEW x \in highs PROVE x <= f[i]
    <3>1. PICK j \in 1..n : x = f[j]
      BY <1>2, <2>1
    <3> QED
      BY <2>3, <3>1
  <2> QED
    BY <2>4, <2>5
<1>6. \E l \in lows : \A x \in lows : l <= x
  <2>1. lows \subseteq Nat
    BY <1>2, <1>4
  <2>2. building[1].low \in lows
    <3>1. 1 \in DOMAIN building
      BY <1>2
    <3> QED
      BY <3>1
  <2> QED
    BY <2>1, <2>2, LeastOf
<1>7. highs \subseteq Nat \ {0} /\ lows \subseteq Nat \ {0}
  BY <1>2, <1>4
<1> DEFINE high == CHOOSE h \in highs : \A x \in highs : x <= h
           low == CHOOSE l \in lows : \A x \in lows : l <= x
<1> HIDE DEF highs, lows
<1>8. high \in Nat \ {0} /\ low \in Nat \ {0}
  BY <1>5, <1>6, <1>7
<1>9. Completed = [open_at |-> building[1].open_time, close_at |-> CloseTime(building[n]),
                   high |-> high, low |-> low, close |-> building[n].close]
  BY DEF Completed, highs, lows, n
<1> HIDE DEF high, low
<1>10. CloseTime(building[n]) = clock - 1 /\ building[n].open_time = clock - 2
  BY <1>1 DEF Timeline, CloseTime, n
<1>11. 1 \in 1..n /\ n \in 1..n /\ building[1].open_time <= clock - 2
  BY <1>1, <1>2 DEF Timeline
<1> QED
  BY <1>1, <1>4, <1>8, <1>9, <1>10, <1>11 DEF Bar

\* What a new bar leaves of what an earlier one gave.
LEMMA DoneStays ==
  ASSUME NEW sig \in Signal, NEW series \in Seq(Bar), NEW bar \in Bar, NEW now \in Nat,
         Done(sig, series, now), bar.close_at >= now - 1
  PROVE  Done(sig, Append(series, bar), now)
<1> DEFINE more == Append(series, bar)
           C == CountedOf(series, sig.entry_hit_at, sig.closed_at - 1)
<1>1. SUFFICES ASSUME sig.lifecycle_status = "stopped_out"
               PROVE  IsTightest(sig.close_price, LevelsOf(more,
                          CountedOf(more, sig.entry_hit_at, sig.closed_at - 1)))
  BY DEF Done
<1>2. /\ sig.closed_at \in Int /\ sig.closed_at <= now /\ sig.entry_hit_at \in Int
      /\ bar.close_at \in Int
  BY <1>1, SignalFields DEF Done, Bar
<1>3. /\ \A i \in DOMAIN series : more[i] = series[i]
      /\ DOMAIN more = DOMAIN series \cup {Len(series) + 1} /\ more[Len(series) + 1] = bar
  BY <1>2, OneMoreBar
<1>4. ~(bar.close_at < sig.closed_at - 1)
  BY <1>2
<1> HIDE DEF more
<1>5. CountedOf(more, sig.entry_hit_at, sig.closed_at - 1) = C /\ C \subseteq DOMAIN series
  BY <1>3, <1>4 DEF CountedOf
<1> HIDE DEF C
<1>6. \A i \in C : more[i] = series[i]
  BY <1>3, <1>5
<1>7. /\ {RoundToTick(Trail(Extreme(more[i])), 100) : i \in C}
           = {RoundToTick(Trail(Extreme(series[i])), 100) : i \in C}
      /\ {j \in C : Breakeven /\ ReachedOneR(more[j].close)}
           = {j \in C : Breakeven /\ ReachedOneR(series[j].close)}
  BY <1>6
<1>8. LevelsOf(more, C) = LevelsOf(series, C)
  BY <1>7 DEF LevelsOf
<1>9. IsTightest(sig.close_price, LevelsOf(series, C))
  BY <1>1 DEF Done, C
<1> QED
  BY <1>5, <1>8, <1>9 DEF more

LEMMA DoneLater ==
  ASSUME NEW sig, NEW series, NEW now \in Nat, Done(sig, series, now)
  PROVE  Done(sig, series, now + 1)
  BY DEF Done

-----------------------------------------------------------------------------
(***************************************************************************)
(* Every step keeps the invariant.                                         *)
(***************************************************************************)
LEMMA Single ==
  ASSUME NEW T, NEW s \in Seq(T), Len(s) <= 1, s # <<>>
  PROVE  Len(s) = 1 /\ s[1] \in T /\ DOMAIN s = 1..1
<1>1. Len(s) \in Nat /\ DOMAIN s = 1..Len(s) /\ Len(s) # 0
  BY LenProperties, EmptySeq
<1>2. Len(s) = 1 /\ 1 \in 1..Len(s)
  BY <1>1
<1> QED
  BY <1>1, <1>2, ElementOfSeq

LEMMA Alone ==
  ASSUME NEW T, NEW x \in T
  PROVE  <<x>> \in Seq(T) /\ Len(<<x>>) = 1 /\ <<x>>[1] = x /\ <<x>> # <<>>
  OBVIOUS

\* The types of what a settled signal leaves.
PositionOK ==
  /\ active \in Seq(Signal) /\ Len(active) <= 1
  /\ stopState \in Seq(StopState) /\ Len(stopState) <= Len(active)
  /\ risk \in RiskState /\ risk.equity <= risk.peak_equity
  /\ settlements \in Seq([price : Int, net_return : Int])
  /\ closures \in Seq(Signal)

LEMMA Settled ==
  ASSUME IInv, active # <<>>, NEW sig \in Signal, NEW funding \in FundingPayments,
         Settle(sig, funding), UNCHANGED <<clock, accounts, bars>>,
         sig.created_at = active[1].created_at,
         sig.status = "closed" => Done(sig, bars, clock)
  PROVE  /\ PositionOK' /\ InOrder' /\ Ended'
         /\ IF sig.status = "closed" THEN active' = <<>> /\ stopState' = <<>>
            ELSE active' = <<sig>> /\ stopState' = stopState
<1>1. /\ active \in Seq(Signal) /\ Len(active) = 1 /\ stopState \in Seq(StopState)
      /\ Len(stopState) <= 1 /\ risk \in RiskState /\ risk.equity <= risk.peak_equity
      /\ settlements \in Seq([price : Int, net_return : Int]) /\ closures \in Seq(Signal)
      /\ published \in Seq(Nat) /\ clock \in Nat /\ Len(closures) \in Nat
      /\ DOMAIN closures = 1..Len(closures)
  <2>1. /\ active \in Seq(Signal) /\ Len(active) <= 1 /\ closures \in Seq(Signal)
    BY DEF IInv, TypeOK
  <2>2. Len(active) = 1 /\ Len(closures) \in Nat /\ DOMAIN closures = 1..Len(closures)
    BY <2>1, Single, LenProperties
  <2> QED
    BY <2>1, <2>2 DEF IInv, TypeOK
<1>2. published' = published /\ clock' = clock /\ bars' = bars
  BY DEF accounts
<1>3. CASE sig.status # "closed"
  <2>1. /\ active' = <<sig>> /\ stopState' = stopState /\ risk' = risk
        /\ settlements' = settlements /\ closures' = closures
    BY <1>3 DEF Settle
  <2>2. PositionOK'
    BY <1>1, <2>1, Alone DEF PositionOK
  <2>3. InOrder'
    BY <1>1, <1>2, <2>1, Alone DEF IInv, InOrder
  <2>4. Ended'
    BY <1>2, <2>1 DEF IInv, Ended
  <2> QED
    BY <1>3, <2>1, <2>2, <2>3, <2>4
<1>4. CASE sig.status = "closed"
  <2>1. /\ active' = <<>> /\ stopState' = <<>> /\ SettleTrade(sig, funding)
        /\ closures' = Append(closures, sig)
    BY <1>4 DEF Settle
  <2>2. Done(sig, bars, clock)
    BY <1>4
  <2>3. /\ risk' \in RiskState /\ risk'.equity <= risk'.peak_equity
        /\ settlements' \in Seq([price : Int, net_return : Int])
    <3>1. CASE sig.lifecycle_status = "expired_unfilled"
      BY <1>1, <2>1, <3>1 DEF SettleTrade
    <3>2. CASE sig.lifecycle_status # "expired_unfilled"
      <4> DEFINE ret == NetReturn(sig.close_price, funding)
                 trade == [price |-> sig.close_price, net_return |-> ret]
      <4>1. sig.close_price \in Int /\ funding \in Int
        BY <2>2, <3>2, CycleAssumption DEF Done, CycleAssumption
      <4>2. /\ ret \in Int /\ SettleRisk(risk, ret) \in RiskState
            /\ SettleRisk(risk, ret).equity <= SettleRisk(risk, ret).peak_equity
        BY <1>1, <4>1, SettledRisk
      <4>3. risk' = SettleRisk(risk, ret) /\ settlements' = Append(settlements, trade)
        BY <2>1, <3>2 DEF SettleTrade
      <4>4. trade \in [price : Int, net_return : Int]
        BY <4>1, <4>2
      <4> HIDE DEF ret, trade
      <4> QED
        BY <1>1, <4>2, <4>3, <4>4, AppendProperties
    <3> QED
      BY <3>1, <3>2
  <2>4. /\ closures' \in Seq(Signal) /\ Len(closures') = Len(closures) + 1
        /\ \A i \in 1..Len(closures) : closures'[i] = closures[i]
        /\ closures'[Len(closures) + 1] = sig
        /\ DOMAIN closures' = 1..(Len(closures) + 1)
    BY <1>1, <2>1, AppendProperties, LenProperties
  <2>5. PositionOK'
    <3>1. <<>> \in Seq(Signal) /\ <<>> \in Seq(StopState) /\ Len(<<>>) = 0
      BY EmptySeq
    <3> QED
      BY <2>1, <2>3, <2>4, <3>1 DEF PositionOK
  <2>6. Len(published) = Len(closures) + 1 /\ sig.created_at = published[Len(published)]
    BY <1>1 DEF IInv, InOrder
  <2>7. InOrder'
    <3>1. Len(closures') + Len(active') = Len(published')
      BY <1>1, <1>2, <2>1, <2>4, <2>6, EmptySeq
    <3>2. ASSUME NEW i \in DOMAIN closures'
          PROVE  /\ closures'[i].created_at = published[i]
                 /\ i < Len(published) => closures'[i].closed_at <= published[i + 1]
      <4>1. CASE i \in 1..Len(closures)
        <5>1. closures'[i] = closures[i] /\ i \in DOMAIN closures
          BY <1>1, <2>4, <4>1
        <5> QED
          BY <5>1 DEF IInv, InOrder
      <4>2. CASE i = Len(closures) + 1
        BY <1>1, <2>4, <2>6, <4>2
      <4> QED
        BY <1>1, <2>4, <4>1, <4>2
    <3> QED
      BY <1>2, <2>1, <3>1, <3>2 DEF IInv, InOrder
  <2>8. Ended'
    <3>1. ASSUME NEW i \in DOMAIN closures'
          PROVE  Done(closures'[i], bars, clock)
      <4>1. CASE i \in 1..Len(closures)
        <5>1. closures'[i] = closures[i] /\ i \in DOMAIN closures
          BY <1>1, <2>4, <4>1
        <5> QED
          BY <5>1 DEF IInv, Ended
      <4>2. CASE i = Len(closures) + 1
        BY <2>2, <2>4, <4>2
      <4> QED
        BY <1>1, <2>4, <4>1, <4>2
    <3> QED
      BY <1>2, <3>1 DEF Ended
  <2> QED
    BY <1>4, <2>1, <2>5, <2>7, <2>8
<1> QED
  BY <1>3, <1>4

LEMMA NextInstantKeeps == ASSUME IInv, NextInstant PROVE IInv'
<1>1. /\ clock' = clock + 1 /\ clock < LastClock /\ phase \in {"external", "intent"}
      /\ phase' = IF (clock + 1) % 2 = 0 THEN "candle" ELSE "external"
      /\ building' = building /\ active' = active /\ stopState' = stopState /\ risk' = risk
      /\ settlements' = settlements /\ closures' = closures /\ lastEntry' = lastEntry
      /\ strategyDays' = strategyDays /\ authorDays' = authorDays /\ published' = published
      /\ others' = others /\ intents' = intents /\ outcome' = outcome /\ bars' = bars
  BY DEF NextInstant, position, accounts
<1>2. clock \in Nat /\ clock' \in Nat /\ clock' \in 0..LastClock
  BY <1>1, CycleAssumption DEF IInv, TypeOK, CycleAssumption
<1>3. TypeOK'
  <2>1. phase' \in {"candle", "bar", "external", "intent"}
    BY <1>1
  <2> QED
    BY <1>1, <1>2, <2>1 DEF IInv, TypeOK
<1>4. ClosedBy(clock, phase) <= ClosedBy(clock', phase') /\ ClosedBy(clock, phase) \in Int
      /\ ClosedBy(clock', phase') \in Int
  BY <1>1, <1>2 DEF ClosedBy
<1>5. Timeline'
  <2>1. phase' \in {"candle", "bar"} => clock' % 2 = 0 /\ clock' >= 2
    BY <1>1, <1>2
  <2>2. \A i \in DOMAIN building' : building'[i].open_time <= clock' - 2
    <3> SUFFICES ASSUME NEW i \in DOMAIN building
                 PROVE  building[i].open_time <= clock' - 2
      BY <1>1
    <3>1. building[i] \in Candle
      BY ElementOfSeq, LenProperties DEF IInv, TypeOK
    <3> QED
      BY <1>1, <1>2, <3>1 DEF IInv, Timeline, Candle
  <2>3. \A i \in DOMAIN bars' : /\ bars'[i].open_at <= bars'[i].close_at
                                /\ bars'[i].close_at <= ClosedBy(clock', phase')
    <3> SUFFICES ASSUME NEW i \in DOMAIN bars
                 PROVE  /\ bars[i].open_at <= bars[i].close_at
                        /\ bars[i].close_at <= ClosedBy(clock', phase')
      BY <1>1
    <3>1. bars[i] \in Bar
      BY ElementOfSeq, LenProperties DEF IInv, TypeOK
    <3>2. bars[i].close_at \in Int /\ bars[i].close_at <= ClosedBy(clock, phase)
          /\ bars[i].open_at <= bars[i].close_at
      BY <3>1 DEF IInv, Timeline, Bar
    <3> QED
      BY <1>4, <3>2
  <2>4. phase' # "bar"
    BY <1>1
  <2>5. /\ BarCandles > 0 => Len(building') < BarCandles
        /\ BarCandles = 0 => bars' = <<>>
    BY <1>1 DEF IInv, Timeline
  <2> QED
    BY <2>1, <2>2, <2>3, <2>4, <2>5 DEF Timeline
<1>6. Live'
  <2>1. SUFFICES ASSUME active # <<>>
                 PROVE  \/ Waiting(active[1]) /\ stopState = <<>>
                        \/ Open(active[1], stopState, bars, ClosedBy(clock', phase'), clock')
    BY <1>1 DEF Live
  <2>2. CASE Open(active[1], stopState, bars, ClosedBy(clock, phase), clock)
    <3> DEFINE seen == Summary(active[1], stopState)
    <3>1. /\ seen.last_bar_close \in Int \cup {None} /\ active[1].entry_hit_at \in Int
          /\ active[1].entry_hit_at < clock
      BY <2>2 DEF Open, HasSeen, StopState
    <3>2. seen.last_bar_close # None => seen.last_bar_close <= ClosedBy(clock, phase)
      BY <2>2 DEF Open
    <3> HIDE DEF seen
    <3>3. /\ seen.last_bar_close # None => seen.last_bar_close <= ClosedBy(clock', phase')
          /\ active[1].entry_hit_at < clock'
      BY <1>1, <1>2, <1>4, <3>1, <3>2
    <3> QED
      BY <2>2, <3>3 DEF Open, seen
  <2> QED
    BY <2>1, <2>2 DEF IInv, Live
<1>7. Ended'
  BY <1>1, <1>2, DoneLater DEF IInv, Ended
<1>8. InOrder'
  <2>1. \A i \in DOMAIN published : published[i] \in Nat
    BY ElementOfSeq, LenProperties DEF IInv, TypeOK
  <2> QED
    BY <1>1, <1>2, <2>1 DEF IInv, InOrder
<1> QED
  BY <1>3, <1>5, <1>6, <1>7, <1>8 DEF IInv

\* The candle is appended to the bar being built, and the signal sees it.
LEMMA ObserveKeeps ==
  ASSUME IInv, NEW shape \in Shapes, NEW funding \in FundingPayments, Observe(shape, funding)
  PROVE  IInv'
<1> DEFINE candle == [open_time |-> clock - 2, high |-> shape.high, low |-> shape.low,
                      close |-> shape.close]
<1>1. /\ phase = "candle"
      /\ building' = IF BarCandles = 0 THEN <<>> ELSE Append(building, candle)
      /\ phase' = IF BarCandles > 0 /\ Len(building') = BarCandles THEN "bar" ELSE "external"
      /\ IF active = <<>> THEN UNCHANGED position
                          ELSE Settle(Advance(active[1], candle), funding)
      /\ UNCHANGED <<clock, accounts, bars>> /\ intents' = intents /\ outcome' = outcome
  BY DEF Observe
<1>2. /\ clock' = clock /\ bars' = bars /\ lastEntry' = lastEntry /\ strategyDays' = strategyDays
      /\ authorDays' = authorDays /\ published' = published /\ others' = others
  BY <1>1 DEF accounts
<1>3. clock \in Nat /\ clock % 2 = 0 /\ clock >= 2 /\ BarCandles \in Nat
  BY <1>1, CycleAssumption DEF IInv, TypeOK, Timeline, CycleAssumption
<1>4. candle \in Candle /\ candle.open_time = clock - 2
  <2>1. shape \in [high : Nat, low : Nat \ {0}, close : Nat]
        /\ PriceTick <= shape.low /\ shape.low <= shape.close /\ shape.close <= shape.high
    BY CycleAssumption DEF CycleAssumption
  <2>2. shape.high \in Nat \ {0} /\ shape.low \in Nat \ {0} /\ shape.close \in Nat \ {0}
    BY <2>1
  <2> QED
    BY <1>3, <2>2 DEF Candle
<1> HIDE DEF candle
<1>5. /\ building \in Seq(Candle) /\ Len(building) \in Nat
      /\ BarCandles > 0 => Len(building) < BarCandles
      /\ \A i \in DOMAIN building : building[i].open_time <= clock - 2
  BY <1>1, LenProperties DEF IInv, TypeOK, Timeline
<1>6. /\ building' \in Seq(Candle) /\ Len(building') <= BarCandles
      /\ \A i \in DOMAIN building' : building'[i].open_time <= clock - 2
      /\ BarCandles > 0 => /\ Len(building') > 0
                           /\ building'[Len(building')].open_time = clock - 2
  <2>1. CASE BarCandles = 0
    <3>1. building' = <<>> /\ DOMAIN building' = {}
      BY <1>1, <2>1
    <3> QED
      BY <2>1, <3>1, EmptySeq
  <2>2. CASE BarCandles # 0
    <3> DEFINE n == Len(building)
    <3>1. /\ building' \in Seq(Candle) /\ Len(building') = n + 1
          /\ \A i \in 1..n : building'[i] = building[i]
          /\ building'[n + 1] = candle /\ DOMAIN building = 1..n /\ DOMAIN building' = 1..(n + 1)
      <4>1. building' = Append(building, candle)
        BY <1>1, <2>2
      <4> QED
        BY <1>4, <1>5, <4>1, AppendProperties, LenProperties
    <3>2. n \in Nat
      BY <1>5
    <3> HIDE DEF n
    <3>3. \A i \in 1..(n + 1) : i \in 1..n \/ i = n + 1
      BY <3>2
    <3>4. \A i \in DOMAIN building' : building'[i].open_time <= clock - 2
      <4> SUFFICES ASSUME NEW i \in 1..(n + 1)
                   PROVE  building'[i].open_time <= clock - 2
        BY <3>1
      <4>1. CASE i \in 1..n
        BY <1>5, <3>1, <4>1
      <4>2. CASE i = n + 1
        BY <1>3, <1>4, <3>1, <4>2
      <4> QED
        BY <3>3, <4>1, <4>2
    <3>5. n + 1 <= BarCandles
      BY <1>3, <1>5, <2>2, <3>2 DEF n
    <3> QED
      BY <1>4, <3>1, <3>2, <3>4, <3>5
  <2> QED
    BY <2>1, <2>2
<1>7. Timeline'
  <2>1. phase' \in {"candle", "bar"} => clock' % 2 = 0 /\ clock' >= 2
    BY <1>2, <1>3
  <2>2. IF phase' = "bar"
        THEN /\ BarCandles > 0 /\ Len(building') > 0
             /\ building'[Len(building')].open_time = clock' - 2
        ELSE BarCandles > 0 => Len(building') < BarCandles
    <3>1. Len(building') \in Nat
      BY <1>6, LenProperties
    <3> QED
      BY <1>1, <1>2, <1>3, <1>6, <3>1
  <2>3. \A i \in DOMAIN bars : /\ bars[i].open_at <= bars[i].close_at
                               /\ bars[i].close_at <= ClosedBy(clock, phase')
    <3> SUFFICES ASSUME NEW i \in DOMAIN bars
                 PROVE  /\ bars[i].open_at <= bars[i].close_at
                        /\ bars[i].close_at <= ClosedBy(clock, phase')
      OBVIOUS
    <3>1. bars[i] \in Bar
      BY ElementOfSeq, LenProperties DEF IInv, TypeOK
    <3>2. bars[i].close_at \in Int /\ bars[i].close_at <= clock - 3
          /\ bars[i].open_at <= bars[i].close_at
      BY <1>1, <3>1 DEF IInv, Timeline, Bar, ClosedBy
    <3>3. ClosedBy(clock, phase') \in {clock - 3, clock - 1}
      BY <1>1, <1>3 DEF ClosedBy
    <3> QED
      BY <1>3, <3>2, <3>3
  <2>4. BarCandles = 0 => bars = <<>>
    BY DEF IInv, Timeline
  <2> QED
    BY <1>2, <1>6, <2>1, <2>2, <2>3, <2>4 DEF Timeline
<1>8. PositionOK' /\ Live' /\ Ended' /\ InOrder'
  <2>1. CASE active = <<>>
    <3>1. /\ active' = <<>> /\ stopState' = stopState /\ risk' = risk
          /\ settlements' = settlements /\ closures' = closures
      BY <1>1, <2>1 DEF position
    <3> QED
      BY <1>2, <2>1, <3>1 DEF IInv, TypeOK, PositionOK, Live, Ended, InOrder
  <2>2. CASE active # <<>>
    <3> DEFINE sig == active[1]
               r == Advance(sig, candle)
    <3>1. sig \in Signal /\ active = <<sig>>
      BY <2>2, Single DEF IInv, TypeOK
    <3>2. bars \in Seq(Bar) /\ \A i \in DOMAIN bars : bars[i].close_at <= clock - 3
      BY <1>1 DEF IInv, TypeOK, Timeline, ClosedBy
    <3>3. \/ Waiting(sig) /\ stopState = <<>>
          \/ Open(sig, stopState, bars, clock - 3, clock)
      BY <1>1, <2>2 DEF IInv, Live, ClosedBy
    <3> HIDE DEF sig
    <3>4. /\ r \in Signal /\ r.created_at = sig.created_at
          /\ \/ r = sig
             \/ Waiting(sig) /\ r = Entered(sig, candle) /\ sig.created_at < clock - 1
             \/ Done(r, bars, clock) /\ r.status = "closed"
      BY <1>3, <1>4, <3>1, <3>2, <3>3, Advanced
    <3> HIDE DEF r
    <3>5. r.status = "closed" => Done(r, bars, clock)
      <4>1. r = sig => r.status # "closed"
        BY <3>3 DEF Waiting, Open
      <4>2. r = Entered(sig, candle) => r.status # "closed"
        BY <1>4, <3>1, EnteredIs
      <4> QED
        BY <3>4, <4>1, <4>2
    <3>6. /\ PositionOK' /\ InOrder' /\ Ended'
          /\ IF r.status = "closed" THEN active' = <<>> /\ stopState' = <<>>
             ELSE active' = <<r>> /\ stopState' = stopState
      <4>1. Settle(r, funding) /\ r.created_at = active[1].created_at
        BY <1>1, <2>2, <3>4 DEF r, sig
      <4> QED
        BY <1>1, <2>2, <3>4, <3>5, <4>1, Settled
    <3>7. Live'
      <4>1. CASE r.status = "closed"
        BY <3>6, <4>1 DEF Live
      <4>2. CASE r.status # "closed"
        <5>1. /\ active' = <<r>> /\ stopState' = stopState /\ clock' = clock /\ bars' = bars
              /\ r = sig \/ (Waiting(sig) /\ r = Entered(sig, candle) /\ sig.created_at < clock - 1)
          BY <1>2, <3>4, <3>6, <4>2
        <5>2. SUFFICES \/ Waiting(r) /\ stopState = <<>>
                       \/ Open(r, stopState, bars, ClosedBy(clock, phase'), clock)
          BY <5>1 DEF Live
        <5>3. ClosedBy(clock, phase') \in {clock - 3, clock - 1}
          BY <1>1, <1>3 DEF ClosedBy
        <5>4. CASE r = sig /\ Waiting(sig)
          BY <3>3, <5>4 DEF Waiting, Open
        <5>5. CASE r = sig /\ ~Waiting(sig)
          <6>1. Open(r, stopState, bars, clock - 3, clock)
            BY <3>3, <5>5
          <6> DEFINE last == Summary(r, stopState).last_bar_close
          <6>2. last \in Int \cup {None} /\ (last # None => last <= clock - 3)
            BY <6>1 DEF Open, HasSeen, StopState
          <6> HIDE DEF last
          <6>3. last # None => last <= ClosedBy(clock, phase')
            BY <1>3, <5>3, <6>2
          <6> QED
            BY <6>1, <6>3 DEF Open, last
        <5>6. CASE r # sig
          <6>1. /\ Waiting(sig) /\ stopState = <<>> /\ sig.created_at < clock - 1
                /\ r = Entered(sig, candle)
            BY <3>3, <5>1, <5>6 DEF Waiting, Open
          <6>2. /\ r.status = "active" /\ r.entry_hit_at = clock - 1
                /\ r.created_at = sig.created_at /\ r.stop_loss = InitialStop
            <7>1. candle.open_time + 1 = clock - 1
              BY <1>3, <1>4
            <7> QED
              BY <1>4, <3>1, <6>1, <7>1, EnteredIs DEF Waiting
          <6>3. After(bars, clock - 1) = {}
            <7>1. ASSUME NEW i \in DOMAIN bars
                  PROVE  ~(bars[i].open_at > clock - 1)
              <8>1. bars[i] \in Bar
                BY ElementOfSeq, LenProperties DEF IInv, TypeOK
              <8>2. /\ bars[i].open_at \in Int /\ bars[i].close_at \in Int
                    /\ bars[i].open_at <= bars[i].close_at /\ bars[i].close_at <= clock - 3
                BY <3>2, <8>1 DEF Bar, IInv, Timeline
              <8> QED
                BY <1>3, <8>2
            <7> QED
              BY <7>1 DEF After
          <6>4. Summary(r, stopState) = InitialStopState(r)
            BY <6>1 DEF Summary
          <6>5. HasSeen(InitialStopState(r), bars, clock - 1)
            <7>1. clock - 1 \in Int
              BY <1>3
            <7> DEFINE hit == clock - 1
            <7>2. /\ bars \in Seq(Bar) /\ hit \in Int /\ After(bars, hit) = {}
                  /\ r.stop_loss = InitialStop /\ r.entry_hit_at = hit
              BY <3>2, <6>2, <6>3, <7>1
            <7> HIDE DEF hit
            <7>3. HasSeen(InitialStopState(r), bars, hit)
              BY <7>2, FilledNow
            <7> QED
              BY <7>3 DEF hit
          <6>6. /\ InitialStopState(r).effective_stop = r.stop_loss
                /\ InitialStopState(r).last_bar_close = None
            BY DEF InitialStopState
          <6>7. clock - 1 \in Int /\ clock - 1 < clock
            BY <1>3
          <6> QED
            BY <6>1, <6>2, <6>4, <6>5, <6>6, <6>7 DEF Open
        <5> QED
          BY <5>4, <5>5, <5>6
      <4> QED
        BY <4>1, <4>2
    <3> QED
      BY <3>6, <3>7
  <2> QED
    BY <2>1, <2>2
<1>9. TypeOK'
  <2>1. phase' \in {"candle", "bar", "external", "intent"}
    BY <1>1
  <2> QED
    BY <1>1, <1>2, <1>6, <1>8, <2>1 DEF IInv, TypeOK, PositionOK
<1> QED
  BY <1>7, <1>8, <1>9 DEF IInv

\* The strategy bar joins the bars, and an open trade's stop follows it.
LEMMA ManageStopKeeps == ASSUME IInv, ManageStop PROVE IInv'
<1> DEFINE bar == Completed
           sig == active[1]
           now == clock
<1>1. /\ phase = "bar" /\ bars' = Append(bars, bar) /\ building' = <<>> /\ phase' = "external"
      /\ clock' = clock /\ risk' = risk /\ settlements' = settlements /\ closures' = closures
      /\ lastEntry' = lastEntry /\ strategyDays' = strategyDays /\ authorDays' = authorDays
      /\ published' = published /\ others' = others /\ intents' = intents /\ outcome' = outcome
  BY DEF ManageStop, accounts
<1>2. /\ clock \in Nat /\ clock % 2 = 0 /\ clock >= 2 /\ BarCandles \in Nat /\ BarCandles > 0
      /\ bars \in Seq(Bar) /\ Len(bars) \in Nat
  BY <1>1, CycleAssumption, LenProperties DEF IInv, TypeOK, Timeline, CycleAssumption
<1>3. bar \in Bar /\ bar.close_at = clock - 1 /\ bar.open_at <= clock - 2
  BY <1>1, BarIs DEF IInv
<1>4. IF active # <<>> /\ sig.status = "active"
      THEN LET after == AdvanceStop(Summary(sig, stopState), bar)
           IN /\ stopState' = <<after>>
              /\ active' = << [sig EXCEPT !.stop_loss = after.effective_stop] >>
      ELSE active' = active /\ stopState' = stopState
  BY DEF ManageStop, Summary
<1> HIDE DEF bar
<1>5. /\ bars' \in Seq(Bar) /\ \A i \in DOMAIN bars : bars'[i] = bars[i]
      /\ DOMAIN bars' = DOMAIN bars \cup {Len(bars) + 1} /\ bars'[Len(bars) + 1] = bar
  BY <1>1, <1>2, <1>3, OneMoreBar
<1>6. /\ bar.open_at \in Int /\ bar.close_at \in Int
      /\ \A i \in DOMAIN bars : /\ bars[i].open_at <= bars[i].close_at
                                /\ bars[i].close_at <= clock - 3
      /\ \A i \in DOMAIN bars : bars[i].close_at \in Int
  <2>1. \A i \in DOMAIN bars : bars[i] \in Bar
    BY <1>2, ElementOfSeq, LenProperties
  <2> QED
    BY <1>1, <1>3, <2>1 DEF IInv, Timeline, ClosedBy, Bar
<1>7. ClosedBy(clock', phase') = clock - 1 /\ ClosedBy(clock, phase) = clock - 3
  BY <1>1, <1>2 DEF ClosedBy
<1>8. Timeline'
  <2>1. \A i \in DOMAIN bars' : /\ bars'[i].open_at <= bars'[i].close_at
                                /\ bars'[i].close_at <= clock - 1
    BY <1>2, <1>3, <1>5, <1>6
  <2>2. DOMAIN building' = {} /\ Len(building') = 0
    BY <1>1
  <2> QED
    BY <1>1, <1>2, <1>7, <2>1, <2>2 DEF Timeline
<1>9. Ended'
  <2>1. ASSUME NEW i \in DOMAIN closures
        PROVE  Done(closures[i], Append(bars, bar), clock)
    <3>1. closures[i] \in Signal /\ Done(closures[i], bars, clock)
      BY ElementOfSeq, LenProperties DEF IInv, TypeOK, Ended
    <3> QED
      BY <1>2, <1>3, <3>1, DoneStays
  <2> QED
    BY <1>1, <2>1 DEF Ended
<1>10. /\ active \in Seq(Signal) /\ Len(active) <= 1
       /\ stopState \in Seq(StopState) /\ Len(stopState) <= Len(active)
  BY DEF IInv, TypeOK
<1>11. /\ active' \in Seq(Signal) /\ Len(active') <= 1 /\ Len(active') = Len(active)
       /\ stopState' \in Seq(StopState) /\ Len(stopState') <= Len(active') /\ Live'
       /\ active # <<>> => active' # <<>> /\ active'[1].created_at = active[1].created_at
       /\ active = <<>> => active' = <<>>
  <2>1. CASE active # <<>> /\ sig.status = "active"
    <3> DEFINE before == Summary(sig, stopState)
               after == AdvanceStop(before, bar)
               hit == sig.entry_hit_at
               moved == [sig EXCEPT !.stop_loss = after.effective_stop]
    <3>1. sig \in Signal /\ Len(active) = 1
      BY <1>10, <2>1, Single
    <3>2. Open(sig, stopState, bars, clock - 3, clock)
      BY <1>7, <2>1 DEF IInv, Live, Waiting
    <3>3. /\ hit \in Int /\ sig.created_at < hit /\ hit < clock /\ HasSeen(before, bars, hit)
          /\ before.effective_stop = sig.stop_loss /\ before.entry_at = hit
          /\ before.last_bar_close \in Int \cup {None}
          /\ before.last_bar_close # None => before.last_bar_close <= clock - 3
      BY <3>2 DEF Open, HasSeen, StopState
    <3>4. stopState' = <<after>> /\ active' = <<moved>>
      BY <1>4, <2>1
    <3> HIDE DEF before, hit
    <3>5. ~(before.last_bar_close # None /\ bar.close_at <= before.last_bar_close)
      BY <1>2, <1>3, <3>3
    <3>6. after = IF bar.open_at <= hit THEN before ELSE MovedStop(before, bar)
      BY <3>3, <3>5 DEF AdvanceStop
    <3> HIDE DEF after
    <3>7. /\ HasSeen(after, bars', hit)
          /\ after.last_bar_close # None => after.last_bar_close <= clock - 1
      <4>1. CASE bar.open_at <= hit
        <5>1. ~(bar.open_at > hit) /\ after = before
          BY <1>6, <3>3, <3>6, <4>1
        <5>2. HasSeen(before, bars', hit)
          BY <1>1, <1>2, <1>3, <3>3, <5>1, EarlierBar
        <5>3. before.last_bar_close # None => before.last_bar_close <= clock - 1
          BY <1>2, <3>3
        <5> QED
          BY <5>1, <5>2, <5>3
      <4>2. CASE ~(bar.open_at <= hit)
        <5>1. bar.open_at > hit /\ after = MovedStop(before, bar)
          BY <1>6, <3>3, <3>6, <4>2
        <5>2. HasSeen(after, bars', hit) /\ after.last_bar_close = bar.close_at
          BY <1>1, <1>2, <1>3, <3>3, <5>1, LaterBar
        <5> QED
          BY <1>2, <1>3, <5>2
      <4> QED
        BY <4>1, <4>2
    <3>8. after \in StopState /\ after.effective_stop \in Int
      BY <3>7 DEF HasSeen, StopState
    <3>9. /\ moved \in Signal /\ moved.stop_loss = after.effective_stop
          /\ moved.status = "active" /\ moved.created_at = sig.created_at
          /\ moved.entry_hit_at = hit
      BY <2>1, <3>1, <3>8 DEF Signal, hit
    <3> HIDE DEF moved, sig
    <3>10. Open(moved, <<after>>, bars', clock - 1, clock)
      <4>1. Summary(moved, <<after>>) = after
        BY DEF Summary
      <4> QED
        BY <3>3, <3>7, <3>9, <4>1 DEF Open
    <3>11. Live'
      BY <1>1, <1>7, <3>4, <3>10 DEF Live
    <3>12. /\ <<moved>> \in Seq(Signal) /\ Len(<<moved>>) = 1 /\ <<moved>>[1] = moved
           /\ <<after>> \in Seq(StopState) /\ Len(<<after>>) = 1 /\ <<moved>> # <<>>
      BY <3>8, <3>9
    <3> QED
      BY <2>1, <3>1, <3>4, <3>9, <3>11, <3>12 DEF sig
  <2>2. CASE ~(active # <<>> /\ sig.status = "active")
    <3>1. active' = active /\ stopState' = stopState
      BY <1>4, <2>2
    <3>2. Live'
      BY <2>2, <3>1 DEF IInv, Live, Open
    <3> QED
      BY <1>10, <3>1, <3>2
  <2> QED
    BY <2>1, <2>2
<1>12. InOrder'
  BY <1>1, <1>11 DEF IInv, InOrder
<1>13. TypeOK'
  <2>1. <<>> \in Seq(Candle) /\ Len(<<>>) <= BarCandles
    BY <1>2, EmptySeq
  <2> QED
    BY <1>1, <1>5, <1>11, <2>1 DEF IInv, TypeOK
<1> QED
  BY <1>8, <1>9, <1>11, <1>12, <1>13 DEF IInv

LEMMA BumpIs ==
  ASSUME NEW counts \in [Days -> Nat], NEW at \in 0..LastClock
  PROVE  /\ Day(at) \in Days /\ Bump(counts, at) \in [Days -> Nat]
         /\ Bump(counts, at)[Day(at)] = counts[Day(at)] + 1
         /\ \A d \in Days : d # Day(at) => Bump(counts, at)[d] = counts[d]
<1>1. Day(at) \in Days
  BY DEF Days
<1> HIDE DEF Days
<1>2. Bump(counts, at) = [counts EXCEPT ![Day(at)] = counts[Day(at)] + 1]
  BY DEF Bump
<1> QED
  BY <1>1, <1>2

LEMMA ExternalEntryKeeps == ASSUME IInv, ExternalEntry PROVE IInv'
<1>1. /\ phase = "external" /\ authorDays' = Bump(authorDays, clock)
      /\ others' = Append(others, clock)
      /\ clock' = clock /\ phase' = phase /\ building' = building /\ active' = active
      /\ stopState' = stopState /\ risk' = risk /\ settlements' = settlements
      /\ closures' = closures /\ lastEntry' = lastEntry /\ strategyDays' = strategyDays
      /\ published' = published /\ intents' = intents /\ outcome' = outcome /\ bars' = bars
  BY DEF ExternalEntry, position
<1>2. TypeOK'
  <2>1. clock \in 0..LastClock /\ clock \in Nat /\ others \in Seq(Nat)
        /\ authorDays \in [Days -> Nat]
    BY CycleAssumption DEF IInv, TypeOK, CycleAssumption
  <2>2. others' \in Seq(Nat) /\ authorDays' \in [Days -> Nat]
    BY <1>1, <2>1, AppendProperties, BumpIs
  <2> QED
    BY <1>1, <2>2 DEF IInv, TypeOK
<1>3. Timeline' /\ Live' /\ Ended' /\ InOrder'
  BY <1>1 DEF IInv, Timeline, Live, Ended, InOrder
<1> QED
  BY <1>2, <1>3 DEF IInv

\* Nothing but the position and the phase of the instant changes: the clock stands still.
LEMMA SameTimeline ==
  ASSUME IInv, phase \in {"external", "intent"}, phase' \in {"external", "intent"},
         clock' = clock, building' = building, bars' = bars
  PROVE  Timeline' /\ ClosedBy(clock', phase') = ClosedBy(clock, phase)
  BY DEF IInv, Timeline, ClosedBy

LEMMA RuleExitKeeps ==
  ASSUME IInv, NEW price \in ExitPrices, NEW funding \in FundingPayments, RuleExit(price, funding)
  PROVE  IInv'
<1> DEFINE sig == active[1]
           r == Closed(sig, "strategy_exited", clock, price)
<1>1. /\ phase \in {"external", "intent"} /\ phase' = "intent" /\ intents' = intents + 1
      /\ intents < MaxIntents /\ clock' = clock /\ building' = building /\ bars' = bars
      /\ UNCHANGED <<clock, accounts, bars>>
      /\ IF active = <<>> \/ sig.status # "active"
         THEN outcome' = "no_position" /\ UNCHANGED position
         ELSE Settle(r, funding) /\ outcome' = "rule_exit"
  BY DEF RuleExit, Intent
<1>2. /\ lastEntry' = lastEntry /\ strategyDays' = strategyDays /\ authorDays' = authorDays
      /\ published' = published /\ others' = others
  BY <1>1 DEF accounts
<1>3. Timeline' /\ ClosedBy(clock', phase') = ClosedBy(clock, phase)
  BY <1>1, SameTimeline
<1>4. PositionOK' /\ Live' /\ Ended' /\ InOrder'
  <2>1. CASE active = <<>> \/ sig.status # "active"
    <3>1. /\ active' = active /\ stopState' = stopState /\ risk' = risk
          /\ settlements' = settlements /\ closures' = closures
      BY <1>1, <2>1 DEF position
    <3> QED
      BY <1>1, <1>2, <1>3, <3>1 DEF IInv, TypeOK, PositionOK, Live, Ended, InOrder
  <2>2. CASE ~(active = <<>> \/ sig.status # "active")
    <3>1. sig \in Signal /\ active # <<>>
      BY <2>2, Single DEF IInv, TypeOK
    <3>2. /\ sig.entry_hit_at \in Int /\ sig.created_at < sig.entry_hit_at
          /\ sig.entry_hit_at < clock
      BY <2>2 DEF IInv, Live, Waiting, Open
    <3>3. clock \in Int /\ price \in Int
      BY CycleAssumption DEF IInv, TypeOK, CycleAssumption
    <3> HIDE DEF sig
    <3>4. /\ r \in Signal /\ r.status = "closed" /\ r.lifecycle_status = "strategy_exited"
          /\ r.closed_at = clock /\ r.close_price = price /\ r.created_at = sig.created_at
          /\ r.entry_hit_at = sig.entry_hit_at
      BY <3>1, <3>3, ClosedIs
    <3> HIDE DEF r
    <3>5. Done(r, bars, clock)
      BY <3>2, <3>3, <3>4, NoneIsNoNumber DEF Done
    <3>6. Settle(r, funding) /\ r.created_at = active[1].created_at
      BY <1>1, <2>2, <3>4 DEF sig
    <3>7. PositionOK' /\ InOrder' /\ Ended' /\ active' = <<>>
      BY <1>1, <3>1, <3>4, <3>5, <3>6, Settled
    <3> QED
      BY <3>7 DEF Live
  <2> QED
    BY <2>1, <2>2
<1>5. TypeOK'
  <2>1. intents \in 0..MaxIntents /\ MaxIntents \in Nat
    BY CycleAssumption DEF IInv, TypeOK, CycleAssumption
  <2>2. intents' \in 0..MaxIntents
    BY <1>1, <2>1
  <2>3. outcome' \in {"no_position", "rule_exit"}
    BY <1>1
  <2> QED
    BY <1>1, <1>2, <1>4, <2>2, <2>3 DEF IInv, TypeOK, PositionOK
<1> QED
  BY <1>3, <1>4, <1>5 DEF IInv

LEMMA EntryIntentKeeps == ASSUME IInv, EntryIntent PROVE IInv'
<1>1. /\ phase \in {"external", "intent"} /\ phase' = "intent" /\ intents' = intents + 1
      /\ intents < MaxIntents /\ clock' = clock /\ building' = building /\ bars' = bars
      /\ stopState' = stopState /\ risk' = risk /\ settlements' = settlements
      /\ closures' = closures
      /\ IF Refusal # "none"
         THEN outcome' = Refusal /\ UNCHANGED <<active, accounts>>
         ELSE /\ active' = <<NewSignal(clock)>> /\ lastEntry' = clock
              /\ strategyDays' = Bump(strategyDays, clock) /\ authorDays' = Bump(authorDays, clock)
              /\ published' = Append(published, clock) /\ outcome' = "published"
              /\ others' = others
  BY DEF EntryIntent, Intent
<1>2. clock \in 0..LastClock /\ clock \in Nat
  BY CycleAssumption DEF IInv, TypeOK, CycleAssumption
<1>3. Timeline' /\ ClosedBy(clock', phase') = ClosedBy(clock, phase)
  BY <1>1, SameTimeline
<1>4. intents' \in 0..MaxIntents
  <2>1. intents \in 0..MaxIntents /\ MaxIntents \in Nat
    BY CycleAssumption DEF IInv, TypeOK, CycleAssumption
  <2> QED
    BY <1>1, <2>1
<1>5. CASE Refusal # "none"
  <2>1. /\ active' = active /\ lastEntry' = lastEntry /\ strategyDays' = strategyDays
        /\ authorDays' = authorDays /\ published' = published /\ others' = others
        /\ outcome' = Refusal
    BY <1>1, <1>5 DEF accounts
  <2>2. Refusal \in Refusals \cup {"none"}
    BY DEF Refusal, Refusals
  <2>3. TypeOK'
    BY <1>1, <1>4, <2>1, <2>2 DEF IInv, TypeOK
  <2>4. Live' /\ Ended' /\ InOrder'
    BY <1>1, <1>3, <2>1 DEF IInv, Live, Ended, InOrder
  <2> QED
    BY <1>3, <2>3, <2>4 DEF IInv
<1>6. CASE Refusal = "none"
  <2> DEFINE new == NewSignal(clock)
  <2>1. /\ active' = <<new>> /\ lastEntry' = clock /\ strategyDays' = Bump(strategyDays, clock)
        /\ authorDays' = Bump(authorDays, clock) /\ published' = Append(published, clock)
        /\ outcome' = "published" /\ others' = others
    BY <1>1, <1>6
  <2>2. active = <<>>
    BY <1>6 DEF Refusal
  <2>3. new \in Signal /\ Waiting(new) /\ new.created_at = clock
    BY <1>2, NewSignalIs
  <2> HIDE DEF new
  <2>4. /\ <<new>> \in Seq(Signal) /\ Len(<<new>>) = 1 /\ <<new>>[1] = new /\ <<new>> # <<>>
    BY <2>3
  <2>5. stopState \in Seq(StopState) /\ Len(stopState) = 0 /\ stopState = <<>>
    <3>1. stopState \in Seq(StopState) /\ Len(stopState) <= 0
      BY <2>2, EmptySeq DEF IInv, TypeOK
    <3>2. Len(stopState) \in Nat
      BY <3>1, LenProperties
    <3> QED
      BY <3>1, <3>2, EmptySeq
  <2>6. /\ published \in Seq(Nat) /\ Len(published) \in Nat /\ DOMAIN published = 1..Len(published)
        /\ published' \in Seq(Nat) /\ Len(published') = Len(published) + 1
        /\ DOMAIN published' = 1..(Len(published) + 1)
        /\ \A i \in 1..Len(published) : published'[i] = published[i]
        /\ published'[Len(published) + 1] = clock
    <3>1. published \in Seq(Nat)
      BY DEF IInv, TypeOK
    <3> QED
      BY <1>2, <2>1, <3>1, AppendProperties, LenProperties
  <2>7. TypeOK'
    <3>1. strategyDays' \in [Days -> Nat] /\ authorDays' \in [Days -> Nat]
      BY <1>2, <2>1, BumpIs DEF IInv, TypeOK
    <3> QED
      BY <1>1, <1>2, <1>4, <2>1, <2>4, <2>5, <2>6, <3>1 DEF IInv, TypeOK
  <2>8. Live'
    BY <1>1, <2>1, <2>3, <2>4, <2>5 DEF Live
  <2>9. Ended'
    BY <1>1 DEF IInv, Ended
  <2>10. InOrder'
    <3>1. Len(closures) = Len(published) /\ Len(closures) \in Nat
          /\ DOMAIN closures = 1..Len(closures)
      <4>1. closures \in Seq(Signal)
        BY DEF IInv, TypeOK
      <4>2. Len(closures) \in Nat /\ DOMAIN closures = 1..Len(closures)
        BY <4>1, LenProperties
      <4> QED
        BY <2>2, <4>2, EmptySeq DEF IInv, InOrder
    <3>2. ASSUME NEW i \in DOMAIN closures
          PROVE  /\ closures[i].created_at = published'[i]
                 /\ i < Len(published') => closures[i].closed_at <= published'[i + 1]
      <4>1. /\ closures[i].created_at = published[i] /\ i \in 1..Len(published)
            /\ i < Len(published) => closures[i].closed_at <= published[i + 1]
        BY <3>1 DEF IInv, InOrder
      <4>2. closures[i].closed_at <= clock
        BY DEF IInv, Ended, Done
      <4>3. CASE i < Len(published)
        <5>1. i + 1 \in 1..Len(published)
          BY <2>6, <4>1, <4>3
        <5> QED
          BY <2>6, <4>1, <4>3, <5>1
      <4>4. CASE ~(i < Len(published))
        <5>1. i + 1 = Len(published) + 1
          BY <2>6, <4>1, <4>4
        <5> QED
          BY <2>6, <4>1, <4>2, <5>1
      <4> QED
        BY <4>3, <4>4
    <3>3. ASSUME NEW i \in DOMAIN published'
          PROVE  published'[i] <= clock
      BY <1>2, <2>6, SMTT(20) DEF IInv, InOrder
    <3>4. /\ Len(closures) + Len(<<new>>) = Len(published')
          /\ new.created_at = published'[Len(published')]
      BY <2>3, <2>4, <2>6, <3>1
    <3> QED
      BY <1>1, <2>1, <2>4, <3>2, <3>3, <3>4 DEF InOrder
  <2> QED
    BY <1>3, <2>7, <2>8, <2>9, <2>10 DEF IInv
<1> QED
  BY <1>5, <1>6

LEMMA InitIInv == Init => IInv
<1>1. SUFFICES ASSUME Init PROVE IInv
  OBVIOUS
<1>2. /\ clock = 0 /\ phase = "external" /\ building = <<>> /\ active = <<>> /\ stopState = <<>>
      /\ risk = InitialRisk /\ lastEntry = None /\ strategyDays = [d \in Days |-> 0]
      /\ authorDays = [d \in Days |-> 0] /\ intents = 0 /\ outcome = "none" /\ settlements = <<>>
      /\ published = <<>> /\ others = <<>> /\ closures = <<>> /\ bars = <<>>
  BY <1>1 DEF Init
<1>3. 0 \in 0..LastClock /\ 0 \in 0..MaxIntents /\ BarCandles \in Nat
  BY CycleAssumption DEF CycleAssumption
<1>4. InitialRisk \in RiskState /\ InitialRisk.equity <= InitialRisk.peak_equity
  BY DEF InitialRisk, RiskState
<1>5. \A T : <<>> \in Seq(T) /\ Len(<<>>) = 0 /\ DOMAIN <<>> = {}
  BY EmptySeq
<1>6. [d \in Days |-> 0] \in [Days -> Nat]
  OBVIOUS
<1>7. TypeOK
  BY <1>2, <1>3, <1>4, <1>5, <1>6 DEF TypeOK
<1>8. Timeline /\ Live /\ Ended /\ InOrder
  BY <1>2, <1>5 DEF Timeline, Live, Ended, InOrder
<1> QED
  BY <1>7, <1>8 DEF IInv

LEMMA NextIInv == IInv /\ [Next]_vars => IInv'
<1>1. SUFFICES ASSUME IInv, [Next]_vars PROVE IInv'
  OBVIOUS
<1>2. CASE NextInstant
  BY <1>1, <1>2, NextInstantKeeps
<1>3. CASE \E shape \in Shapes, funding \in FundingPayments : Observe(shape, funding)
  BY <1>1, <1>3, ObserveKeeps
<1>4. CASE ManageStop
  BY <1>1, <1>4, ManageStopKeeps
<1>5. CASE ExternalEntry
  BY <1>1, <1>5, ExternalEntryKeeps
<1>6. CASE \E price \in ExitPrices, funding \in FundingPayments : RuleExit(price, funding)
  BY <1>1, <1>6, RuleExitKeeps
<1>7. CASE EntryIntent
  BY <1>1, <1>7, EntryIntentKeeps
<1>8. CASE UNCHANGED vars
  BY <1>1, <1>8
     DEF vars, accounts, position, IInv, TypeOK, Timeline, Live, Ended, InOrder
<1> QED
  BY <1>1, <1>2, <1>3, <1>4, <1>5, <1>6, <1>7, <1>8 DEF Next

\* Every reachable state of the replay satisfies the inductive invariant, the types
\* included.
THEOREM CycleInvariance == Spec => []IInv
  BY InitIInv, NextIInv, PTL DEF Spec

LEMMA SignalsInOrder == IInv => EverySignalOnce
<1>1. SUFFICES ASSUME IInv PROVE EverySignalOnce
  OBVIOUS
<1> DEFINE n == Len(closures)
           k == Len(active)
           p == Len(published)
           all == closures \o active
<1>2. /\ closures \in Seq(Signal) /\ active \in Seq(Signal) /\ Len(active) <= 1
      /\ published \in Seq(Nat)
  BY <1>1 DEF IInv, TypeOK
<1>3. /\ n \in Nat /\ DOMAIN closures = 1..n /\ k \in Nat /\ k <= 1
      /\ DOMAIN published = 1..p /\ p \in Nat /\ n + k = p
  BY <1>1, <1>2, LenProperties DEF IInv, InOrder
<1>4. /\ all \in Seq(Signal) /\ Len(all) = n + k
      /\ \A i \in 1..(n + k) : all[i] = IF i <= n THEN closures[i] ELSE active[i - n]
  BY <1>2, ConcatProperties
<1>5. DOMAIN all = 1..p
  BY <1>3, <1>4, LenProperties
<1>9. Len(all) = Len(published)
  BY <1>3, <1>4
<1>10. k = 1 => active # <<>>
  BY EmptySeq
<1> HIDE DEF n, k, p, all
<1>6. ASSUME NEW i \in 1..p
      PROVE  \/ i \in DOMAIN closures /\ all[i] = closures[i]
             \/ active # <<>> /\ i = p /\ all[i] = active[1]
  <2>1. CASE i <= n
    BY <1>3, <1>4, <2>1
  <2>2. CASE ~(i <= n)
    <3>1. k = 1 /\ i = n + 1 /\ i = p /\ i - n = 1
      BY <1>3, <2>2
    <3>2. all[i] = active[1]
      BY <1>3, <1>4, <2>2, <3>1
    <3> QED
      BY <1>10, <3>1, <3>2
  <2> QED
    BY <2>1, <2>2
<1>7. ASSUME NEW i \in DOMAIN published
      PROVE  all[i].created_at = published[i]
  <2>1. CASE i \in DOMAIN closures /\ all[i] = closures[i]
    BY <1>1, <2>1 DEF IInv, InOrder
  <2>2. CASE active # <<>> /\ i = p /\ all[i] = active[1]
    BY <1>1, <2>2 DEF IInv, InOrder, p
  <2> QED
    BY <1>3, <1>6, <2>1, <2>2
<1>8. ASSUME NEW i \in DOMAIN all
      PROVE  /\ all[i].entry_hit_at # None => all[i].created_at < all[i].entry_hit_at
             /\ all[i].status = "closed" /\ all[i].entry_hit_at # None
                  => all[i].entry_hit_at <= all[i].closed_at
             /\ all[i].lifecycle_status \in {"tp_full", "stopped_out", "strategy_exited"}
                  => all[i].entry_hit_at # None
  <2>1. CASE i \in DOMAIN closures /\ all[i] = closures[i]
    BY <1>1, <2>1 DEF IInv, Ended, Done
  <2>2. CASE active # <<>> /\ all[i] = active[1]
    <3>1. Waiting(active[1]) \/ Open(active[1], stopState, bars, ClosedBy(clock, phase), clock)
      BY <1>1, <2>2 DEF IInv, Live
    <3> QED
      BY <2>2, <3>1, NoneIsNoNumber DEF Waiting, Open
  <2> QED
    BY <1>3, <1>5, <1>6, <2>1, <2>2
<1> QED
  BY <1>1, <1>7, <1>8, <1>9 DEF EverySignalOnce, Signals, all, IInv, InOrder

\* Whatever candles and intents come, every signal the replay published is open or
\* closed, once, in the order of publication, and a fill lies between publication and
\* close.
THEOREM SignalsEndOnce == Spec => []EverySignalOnce
  BY CycleInvariance, SignalsInOrder, PTL

LEMMA StopsAsTheBars == IInv => StopFollowsTheBars
<1>1. SUFFICES ASSUME IInv PROVE StopFollowsTheBars
  OBVIOUS
<1>2. bars \in Seq(Bar) /\ clock \in Nat
  BY <1>1, CycleAssumption DEF IInv, TypeOK, CycleAssumption
<1>3. \A sig, until : StopInForce(sig, until)
                        = Tightest(LevelsOf(bars, CountedOf(bars, sig.entry_hit_at, until)))
  BY DEF StopInForce, Levels, LevelsOf, Counted, CountedOf
<1>4. ASSUME active # <<>>, active[1].status = "active", phase \in {"external", "intent"}
      PROVE  active[1].stop_loss = IF BarCandles = 0 THEN InitialStop
                                   ELSE StopInForce(active[1], clock)
  <2> DEFINE sig == active[1]
             hit == sig.entry_hit_at
             levels == LevelsOf(bars, After(bars, hit))
  <2>1. Open(sig, stopState, bars, ClosedBy(clock, phase), clock)
    BY <1>1, <1>4 DEF IInv, Live, Waiting
  <2>2. IsTightest(sig.stop_loss, levels)
    BY <2>1 DEF Open, HasSeen
  <2>3. CASE BarCandles = 0
    <3>1. bars = <<>>
      BY <1>1, <2>3 DEF IInv, Timeline
    <3>2. After(bars, hit) = {}
      BY <3>1 DEF After
    <3>3. levels = {InitialStop}
      BY <3>2 DEF LevelsOf
    <3> QED
      BY <2>2, <2>3, <3>3 DEF IsTightest
  <2>4. CASE BarCandles # 0
    <3>1. \A i \in DOMAIN bars : bars[i].close_at < clock
      <4> SUFFICES ASSUME NEW i \in DOMAIN bars PROVE bars[i].close_at < clock
        OBVIOUS
      <4>1. bars[i] \in Bar
        BY <1>2, ElementOfSeq, LenProperties
      <4>2. bars[i].close_at \in Nat
        BY <4>1 DEF Bar
      <4>3. bars[i].close_at <= ClosedBy(clock, phase)
        BY <1>1 DEF IInv, Timeline
      <4>4. ClosedBy(clock, phase) \in Int /\ ClosedBy(clock, phase) < clock
        BY <1>2 DEF ClosedBy
      <4> QED
        BY <1>2, <4>2, <4>3, <4>4
    <3>2. CountedOf(bars, hit, clock) = After(bars, hit)
      BY <3>1 DEF CountedOf, After
    <3>3. levels \subseteq Int
      BY <1>2, LevelsAre DEF After
    <3>4. Tightest(levels) = sig.stop_loss
      BY <2>2, <3>3, TheTightest
    <3> QED
      BY <1>3, <2>4, <3>2, <3>4
  <2> QED
    BY <2>3, <2>4
<1>5. ASSUME NEW i \in DOMAIN closures, closures[i].lifecycle_status = "stopped_out"
      PROVE  closures[i].close_price = StopInForce(closures[i], closures[i].closed_at - 1)
  <2> DEFINE sig == closures[i]
             levels == LevelsOf(bars, CountedOf(bars, sig.entry_hit_at, sig.closed_at - 1))
  <2>1. IsTightest(sig.close_price, levels)
    BY <1>1, <1>5 DEF IInv, Ended, Done
  <2>2. levels \subseteq Int
    BY <1>2, LevelsAre DEF CountedOf
  <2> HIDE DEF levels
  <2>3. Tightest(levels) = sig.close_price
    BY <2>1, <2>2, TheTightest
  <2> QED
    BY <1>3, <2>3 DEF levels
<1> QED
  BY <1>4, <1>5 DEF StopFollowsTheBars

\* Whatever the bars, the stop of an open trade, and the level a trade is stopped out
\* at, is the tightest level of the strategy bars closed before that candle.
THEOREM StopsFollowTheBars == Spec => []StopFollowsTheBars
  BY CycleInvariance, StopsAsTheBars, PTL

-----------------------------------------------------------------------------
(***************************************************************************)
(* The replay implements SignalBook.                                       *)
(***************************************************************************)
Prices(trades) == [i \in DOMAIN trades |-> trades[i].price]

LEMMA PricesAppend ==
  ASSUME NEW trades \in Seq([price : Int, net_return : Int]),
         NEW trade \in [price : Int, net_return : Int]
  PROVE  Prices(Append(trades, trade)) = Append(Prices(trades), trade.price)
<1> DEFINE n == Len(trades)
           more == Append(trades, trade)
           u == Prices(more)
           v == Append(Prices(trades), trade.price)
<1>1. /\ n \in Nat /\ DOMAIN trades = 1..n /\ DOMAIN more = 1..(n + 1)
      /\ \A i \in 1..n : more[i] = trades[i] /\ trades[i].price \in Int
      /\ more[n + 1] = trade /\ trade.price \in Int
  <2>1. /\ n \in Nat /\ DOMAIN trades = 1..n /\ more \in Seq([price : Int, net_return : Int])
        /\ Len(more) = n + 1 /\ \A i \in 1..n : more[i] = trades[i]
        /\ more[n + 1] = trade
    BY AppendProperties, LenProperties
  <2>2. \A i \in 1..n : trades[i] \in [price : Int, net_return : Int]
    BY ElementOfSeq
  <2>3. DOMAIN more = 1..(n + 1)
    BY <2>1, LenProperties
  <2> QED
    BY <2>1, <2>2, <2>3
<1> HIDE DEF n, more
<1>2. /\ Prices(trades) = [i \in 1..n |-> trades[i].price]
      /\ u = [i \in 1..(n + 1) |-> more[i].price]
  BY <1>1 DEF Prices
<1>3. Prices(trades) \in Seq(Int) /\ Len(Prices(trades)) = n
  <2>1. Prices(trades) \in [1..n -> Int]
    BY <1>1, <1>2
  <2> QED
    BY <1>1, <2>1
<1>4. /\ Len(v) = n + 1 /\ v \in Seq(Int) /\ v[n + 1] = trade.price
      /\ \A i \in 1..n : v[i] = Prices(trades)[i]
  BY <1>1, <1>3, AppendProperties
<1>5. v = [i \in 1..(n + 1) |-> v[i]]
  BY <1>4, LenProperties
<1>6. ASSUME NEW i \in 1..(n + 1)
      PROVE  u[i] = v[i]
  <2>1. CASE i \in 1..n
    BY <1>1, <1>2, <1>4, <2>1, SMTT(20)
  <2>2. CASE i = n + 1
    BY <1>1, <1>2, <1>4, <2>2
  <2>3. n \in Nat
    BY <1>1
  <2>4. i \in 1..n \/ i = n + 1
    BY <2>3
  <2> QED
    BY <2>1, <2>2, <2>4
<1> HIDE DEF u, v
<1>7. u = v
  BY <1>2, <1>5, <1>6
<1> QED
  BY <1>7 DEF u, v, more

Stage(sig) == [stage |-> IF sig.status = "published" THEN "waiting" ELSE "open",
               stop |-> sig.stop_loss]
SignalOf(held) == IF held = <<>> THEN <<>> ELSE << Stage(held[1]) >>

LEMMA BookInit == Init => Book!Init
<1>1. SUFFICES ASSUME active = <<>>, settlements = <<>>
               PROVE  Book!Init
  BY DEF Init
<1>2. DOMAIN settlements = {}
  BY <1>1
<1>3. [i \in DOMAIN settlements |-> settlements[i].price] = <<>>
  BY <1>2
<1> QED
  BY <1>1, <1>3 DEF Book!Init

\* The signal leaves, and its price is booked unless it was never filled.
LEMMA SettledBook ==
  ASSUME IInv, NEW sig \in Signal, NEW funding \in FundingPayments, Settle(sig, funding),
         sig.status = "closed", Done(sig, bars, clock)
  PROVE  /\ active' = <<>>
         /\ Prices(settlements') = IF sig.lifecycle_status = "expired_unfilled"
                                   THEN Prices(settlements)
                                   ELSE Append(Prices(settlements), sig.close_price)
<1>1. active' = <<>> /\ SettleTrade(sig, funding)
  BY DEF Settle
<1>2. CASE sig.lifecycle_status = "expired_unfilled"
  BY <1>1, <1>2 DEF SettleTrade
<1>3. CASE sig.lifecycle_status # "expired_unfilled"
  <2> DEFINE ret == NetReturn(sig.close_price, funding)
             trade == [price |-> sig.close_price, net_return |-> ret]
  <2>1. sig.close_price \in Int /\ funding \in Int
    BY <1>3, CycleAssumption DEF Done, CycleAssumption
  <2>2. ret \in Int
    BY <2>1, SettledRisk DEF IInv, TypeOK
  <2>3. settlements' = Append(settlements, trade)
    BY <1>1, <1>3 DEF SettleTrade
  <2>4. trade \in [price : Int, net_return : Int] /\ trade.price = sig.close_price
    BY <2>1, <2>2
  <2> HIDE DEF ret, trade
  <2> QED
    BY <1>1, <1>3, <2>3, <2>4, PricesAppend DEF IInv, TypeOK
<1> QED
  BY <1>2, <1>3

\* Steps of the book in terms of the replay's variables.
LEMMA BookSteps ==
  /\ active = <<>> /\ SignalOf(active') = << [stage |-> "waiting", stop |-> InitialStop] >>
       /\ Prices(settlements') = Prices(settlements) => Book!Next
  /\ active # <<>> /\ Stage(active[1]).stage = "waiting"
       /\ active' # <<>> /\ Stage(active'[1]) = [Stage(active[1]) EXCEPT !.stage = "open"]
       /\ Prices(settlements') = Prices(settlements) => Book!Next
  /\ active # <<>> /\ Stage(active[1]).stage = "waiting" /\ active' = <<>>
       /\ Prices(settlements') = Prices(settlements) => Book!Next
  /\ active # <<>> /\ Stage(active[1]).stage = "waiting" /\ active' = <<>>
       /\ Prices(settlements') = Append(Prices(settlements), Target) => Book!Next
  /\ active # <<>> /\ Stage(active[1]).stage = "open" /\ active' # <<>>
       /\ Stage(active'[1]) = [Stage(active[1]) EXCEPT !.stop = active'[1].stop_loss]
       /\ Under(active[1].stop_loss, active'[1].stop_loss)
       /\ Prices(settlements') = Prices(settlements) => Book!Next
  /\ active # <<>> /\ Stage(active[1]).stage = "open" /\ active' = <<>>
       /\ (\E price \in {Target, active[1].stop_loss} \cup ExitPrices :
             Prices(settlements') = Append(Prices(settlements), price)) => Book!Next
<1>1. active = <<>> /\ SignalOf(active') = << [stage |-> "waiting", stop |-> InitialStop] >>
       /\ Prices(settlements') = Prices(settlements) => Book!Next
  BY DEF Book!Next, Book!Publish, SignalOf, Stage, Prices
<1>2. active # <<>> /\ Stage(active[1]).stage = "waiting"
       /\ active' # <<>> /\ Stage(active'[1]) = [Stage(active[1]) EXCEPT !.stage = "open"]
       /\ Prices(settlements') = Prices(settlements) => Book!Next
  BY DEF Book!Next, Book!Fill, Stage, Prices
<1>3. active # <<>> /\ Stage(active[1]).stage = "waiting" /\ active' = <<>>
       /\ Prices(settlements') = Prices(settlements) => Book!Next
  BY DEF Book!Next, Book!Expire, Stage, Prices
<1>4. active # <<>> /\ Stage(active[1]).stage = "waiting" /\ active' = <<>>
       /\ Prices(settlements') = Append(Prices(settlements), Target) => Book!Next
  BY DEF Book!Next, Book!FillAndReachTarget, Stage, Prices
<1>5. active # <<>> /\ Stage(active[1]).stage = "open" /\ active' # <<>>
       /\ Stage(active'[1]) = [Stage(active[1]) EXCEPT !.stop = active'[1].stop_loss]
       /\ Under(active[1].stop_loss, active'[1].stop_loss)
       /\ Prices(settlements') = Prices(settlements) => Book!Next
  BY DEF Book!Next, Book!TightenStop, Book!NoWorse, Stage, Prices, Under
<1>6. active # <<>> /\ Stage(active[1]).stage = "open" /\ active' = <<>>
       /\ (\E price \in {Target, active[1].stop_loss} \cup ExitPrices :
             Prices(settlements') = Append(Prices(settlements), price)) => Book!Next
  BY DEF Book!Next, Book!Leave, Stage, Prices
<1> QED
  BY <1>1, <1>2, <1>3, <1>4, <1>5, <1>6

\* The book sees a candle fill the signal, end it, or do nothing.
LEMMA ObserveBook ==
  ASSUME IInv, NEW shape \in Shapes, NEW funding \in FundingPayments, Observe(shape, funding)
  PROVE  \/ Book!Next
         \/ active' = active /\ settlements' = settlements
<1> DEFINE candle == [open_time |-> clock - 2, high |-> shape.high, low |-> shape.low,
                      close |-> shape.close]
           sig == active[1]
           r == Advance(sig, candle)
<1>1. /\ phase = "candle"
      /\ IF active = <<>> THEN UNCHANGED position ELSE Settle(r, funding)
  BY DEF Observe
<1>2. SUFFICES ASSUME active # <<>>
               PROVE  \/ Book!Next
                      \/ active' = active /\ settlements' = settlements
  BY <1>1 DEF position
<1>3. clock \in Nat /\ clock >= 2
  BY <1>1, CycleAssumption DEF IInv, TypeOK, Timeline, CycleAssumption
<1>4. candle \in Candle /\ candle.open_time = clock - 2
  <2>1. shape \in [high : Nat, low : Nat \ {0}, close : Nat]
        /\ PriceTick <= shape.low /\ shape.low <= shape.close /\ shape.close <= shape.high
    BY CycleAssumption DEF CycleAssumption
  <2>2. shape.high \in Nat \ {0} /\ shape.low \in Nat \ {0} /\ shape.close \in Nat \ {0}
    BY <2>1
  <2> QED
    BY <1>3, <2>2 DEF Candle
<1> HIDE DEF candle
<1>5. sig \in Signal /\ active = <<sig>>
  BY <1>2, Single DEF IInv, TypeOK
<1>6. bars \in Seq(Bar) /\ \A i \in DOMAIN bars : bars[i].close_at <= clock - 3
  BY <1>1 DEF IInv, TypeOK, Timeline, ClosedBy
<1>7. Waiting(sig) \/ Open(sig, stopState, bars, clock - 3, clock)
  BY <1>1, <1>2 DEF IInv, Live, ClosedBy
<1>8. /\ Stage(sig).stage = IF Waiting(sig) THEN "waiting" ELSE "open"
      /\ sig.status # "closed"
  BY <1>7 DEF Waiting, Open, Stage
<1>9. Settle(r, funding)
  BY <1>1, <1>2
<1> HIDE DEF sig
<1>10. /\ r \in Signal
       /\ \/ r = sig
          \/ Waiting(sig) /\ r = Entered(sig, candle)
          \/ /\ Done(r, bars, clock) /\ r.status = "closed"
             /\ \/ Waiting(sig) /\ r.lifecycle_status = "expired_unfilled"
                \/ Waiting(sig) /\ r.lifecycle_status = "tp_full" /\ r.close_price = Target
                \/ /\ ~Waiting(sig) /\ r.lifecycle_status # "expired_unfilled"
                   /\ r.close_price \in {Target, sig.stop_loss}
  BY <1>3, <1>4, <1>5, <1>6, <1>7, Advanced
<1> HIDE DEF r
<1>11. CASE r = sig
  BY <1>5, <1>8, <1>9, <1>11 DEF Settle
<1>12. CASE Waiting(sig) /\ r = Entered(sig, candle)
  <2>1. /\ r.status = "active" /\ r.stop_loss = sig.stop_loss
    BY <1>4, <1>5, <1>12, EnteredIs
  <2>2. active' = <<r>> /\ settlements' = settlements
    BY <1>9, <2>1 DEF Settle
  <2>3. Stage(sig).stage = "waiting" /\ Stage(r) = [Stage(sig) EXCEPT !.stage = "open"]
    BY <1>8, <1>12, <2>1 DEF Stage
  <2>4. active' # <<>> /\ active'[1] = r /\ active[1] = sig
    BY <2>2 DEF sig
  <2> QED
    BY <1>2, <2>2, <2>3, <2>4, BookSteps
<1>13. CASE Done(r, bars, clock) /\ r.status = "closed"
  <2>1. /\ active' = <<>>
        /\ Prices(settlements') = IF r.lifecycle_status = "expired_unfilled"
                                  THEN Prices(settlements)
                                  ELSE Append(Prices(settlements), r.close_price)
    BY <1>9, <1>10, <1>13, SettledBook
  <2>2. r # sig /\ active[1] = sig
    BY <1>8, <1>13 DEF sig
  <2>3. ~(r = Entered(sig, candle))
    BY <1>4, <1>5, <1>13, EnteredIs
  <2>4. CASE Waiting(sig) /\ r.lifecycle_status = "expired_unfilled"
    BY <1>2, <1>8, <2>1, <2>2, <2>4, BookSteps
  <2>5. CASE Waiting(sig) /\ r.lifecycle_status = "tp_full" /\ r.close_price = Target
    BY <1>2, <1>8, <2>1, <2>2, <2>5, BookSteps
  <2>6. CASE /\ ~Waiting(sig) /\ r.lifecycle_status # "expired_unfilled"
             /\ r.close_price \in {Target, sig.stop_loss}
    BY <1>2, <1>8, <2>1, <2>2, <2>6, BookSteps
  <2> QED
    BY <1>10, <2>2, <2>3, <2>4, <2>5, <2>6
<1> QED
  BY <1>10, <1>11, <1>12, <1>13

\* The book sees the stop tighten.
LEMMA ManageStopBook ==
  ASSUME IInv, ManageStop
  PROVE  \/ Book!Next
         \/ active' = active /\ settlements' = settlements
<1> DEFINE bar == Completed
           sig == active[1]
           before == Summary(sig, stopState)
           after == AdvanceStop(before, bar)
           hit == sig.entry_hit_at
           moved == [sig EXCEPT !.stop_loss = after.effective_stop]
<1>1. /\ phase = "bar" /\ settlements' = settlements
      /\ IF active # <<>> /\ sig.status = "active"
         THEN active' = <<moved>> ELSE active' = active
  BY DEF ManageStop, Summary
<1>2. SUFFICES ASSUME active # <<>>, sig.status = "active"
               PROVE  Book!Next
  BY <1>1
<1>3. bar \in Bar /\ bars \in Seq(Bar)
  BY <1>1, BarIs DEF IInv, TypeOK
<1>4. /\ sig \in Signal /\ Open(sig, stopState, bars, ClosedBy(clock, phase), clock)
  BY <1>2, Single DEF IInv, TypeOK, Live, Waiting
<1>5. /\ hit \in Int /\ HasSeen(before, bars, hit) /\ before.effective_stop = sig.stop_loss
      /\ before \in StopState /\ before.entry_at = hit
  BY <1>4 DEF Open, HasSeen
<1> HIDE DEF bar, before
<1>6. bar.open_at \in Int /\ sig.stop_loss \in Int /\ before.effective_stop \in Int
  BY <1>3, <1>5 DEF Bar, StopState
<1>7. Under(sig.stop_loss, after.effective_stop)
  <2>1. after \in {before, MovedStop(before, bar)}
        /\ (after = MovedStop(before, bar) => after = before \/ bar.open_at > hit)
    BY <1>5, <1>6 DEF AdvanceStop
  <2>2. CASE after = before
    BY <1>5, <1>6, <2>2, UnderOrder
  <2>3. CASE after = MovedStop(before, bar) /\ bar.open_at > hit
    BY <1>3, <1>5, <2>3, LaterBar
  <2> QED
    BY <2>1, <2>2, <2>3
<1> HIDE DEF after
<1>8. moved.status = "active" /\ moved.stop_loss = after.effective_stop
  BY <1>2, <1>4 DEF Signal
<1> HIDE DEF moved
<1>9. /\ Stage(sig).stage = "open"
      /\ Stage(moved) = [Stage(sig) EXCEPT !.stop = moved.stop_loss]
  BY <1>2, <1>8 DEF Stage
<1>10. active' # <<>> /\ active'[1] = moved
  BY <1>1, <1>2
<1> QED
  BY <1>1, <1>2, <1>7, <1>8, <1>9, <1>10, BookSteps

LEMMA RuleExitBook ==
  ASSUME IInv, NEW price \in ExitPrices, NEW funding \in FundingPayments, RuleExit(price, funding)
  PROVE  \/ Book!Next
         \/ active' = active /\ settlements' = settlements
<1> DEFINE sig == active[1]
           r == Closed(sig, "strategy_exited", clock, price)
<1>1. IF active = <<>> \/ sig.status # "active" THEN UNCHANGED position ELSE Settle(r, funding)
  BY DEF RuleExit
<1>2. SUFFICES ASSUME active # <<>>, sig.status = "active"
               PROVE  Book!Next
  BY <1>1 DEF position
<1>3. sig \in Signal /\ clock \in Int /\ price \in Int /\ clock \in Nat
  BY <1>2, Single, CycleAssumption DEF IInv, TypeOK, CycleAssumption
<1>4. /\ r \in Signal /\ r.status = "closed" /\ r.lifecycle_status = "strategy_exited"
      /\ r.closed_at = clock /\ r.close_price = price /\ r.created_at = sig.created_at
      /\ r.entry_hit_at = sig.entry_hit_at
  BY <1>3, ClosedIs
<1>5. Stage(sig).stage = "open" /\ Settle(r, funding)
  BY <1>1, <1>2 DEF Stage
<1>6. /\ sig.entry_hit_at \in Int /\ sig.created_at < sig.entry_hit_at
      /\ sig.entry_hit_at < clock
  BY <1>2 DEF IInv, Live, Waiting, Open
<1> HIDE DEF r
<1>7. Done(r, bars, clock)
  BY <1>3, <1>4, <1>6, NoneIsNoNumber DEF Done
<1>8. active' = <<>> /\ Prices(settlements') = Append(Prices(settlements), price)
  BY <1>4, <1>5, <1>7, SettledBook
<1> QED
  BY <1>2, <1>5, <1>8, BookSteps

LEMMA BookStep ==
  IInv /\ [Next]_vars => \/ Book!Next
                         \/ active' = active /\ settlements' = settlements
<1>1. SUFFICES ASSUME IInv, [Next]_vars
               PROVE  \/ Book!Next
                      \/ active' = active /\ settlements' = settlements
  OBVIOUS
<1>2. CASE EntryIntent
  <2>1. CASE Refusal # "none"
    BY <1>2, <2>1 DEF EntryIntent
  <2>2. CASE Refusal = "none"
    <3>1. active = <<>>
      BY <2>2 DEF Refusal
    <3>2. active' = <<NewSignal(clock)>> /\ settlements' = settlements
      BY <1>2, <2>2 DEF EntryIntent
    <3>3. SignalOf(active') = << [stage |-> "waiting", stop |-> InitialStop] >>
      BY <3>2 DEF SignalOf, Stage, NewSignal
    <3> QED
      BY <3>1, <3>2, <3>3, BookSteps
  <2> QED
    BY <2>1, <2>2
<1>3. CASE \/ NextInstant \/ ExternalEntry \/ UNCHANGED vars
  BY <1>3 DEF NextInstant, ExternalEntry, vars, position
<1> QED
  BY <1>1, <1>2, <1>3, ObserveBook, ManageStopBook, RuleExitBook DEF Next

\* Every behaviour of the replay is one of SignalBook: one signal at a time, a stop that
\* only tightens, and one exit, at the target, at the stop in force or by a rule.
THEOREM BookIsKept == Spec => ImplementsBook
<1>1. Init => Book!Init
  BY BookInit
<1>2. IInv /\ [Next]_vars => [Book!Next]_<<IF active = <<>> THEN <<>>
          ELSE << [stage |-> IF active[1].status = "published" THEN "waiting" ELSE "open",
                   stop |-> active[1].stop_loss] >>,
        [i \in DOMAIN settlements |-> settlements[i].price]>>
  BY BookStep
<1> QED
  BY <1>1, <1>2, CycleInvariance, PTL DEF Spec, ImplementsBook, Book!Spec

-----------------------------------------------------------------------------
(***************************************************************************)
(* The quotas: the counters of a day and the last entry are what the       *)
(* history of entries says.                                                *)
(***************************************************************************)
OnDay(instants, d) == {i \in DOMAIN instants : Day(instants[i]) = d}

Counts ==
  /\ lastEntry = IF published = <<>> THEN None ELSE published[Len(published)]
  /\ \A i \in DOMAIN published : published[i] <= published[Len(published)]
  /\ \A d \in Days : /\ strategyDays[d] = Cardinality(OnDay(published, d))
                     /\ authorDays[d] = Cardinality(OnDay(published, d))
                                          + Cardinality(OnDay(others, d))

LEMMA OneMoreEntry ==
  ASSUME NEW instants \in Seq(Nat), NEW at \in Nat, NEW d
  PROVE  /\ Cardinality(OnDay(instants, d)) \in Nat
         /\ Cardinality(OnDay(Append(instants, at), d))
              = Cardinality(OnDay(instants, d)) + (IF Day(at) = d THEN 1 ELSE 0)
<1> DEFINE n == Len(instants)
           more == Append(instants, at)
           C == OnDay(instants, d)
<1>1. /\ n \in Nat /\ DOMAIN instants = 1..n /\ DOMAIN more = 1..(n + 1)
      /\ \A i \in 1..n : more[i] = instants[i]
      /\ more[n + 1] = at
  BY AppendProperties, LenProperties
<1> HIDE DEF n, more
<1>2. IsFiniteSet(C)
  <2>1. IsFiniteSet(1..n)
    BY <1>1, FS_Interval
  <2>2. C \in SUBSET (1..n)
    BY <1>1 DEF OnDay
  <2> HIDE DEF C
  <2> QED
    BY <2>1, <2>2, FS_Subset
<1>3. OnDay(more, d) = IF Day(at) = d THEN C \cup {n + 1} ELSE C
  <2>1. \A i \in 1..(n + 1) : i \in 1..n \/ i = n + 1
    BY <1>1
  <2>2. \A i \in 1..n : i \in 1..(n + 1)
    BY <1>1
  <2>3. n + 1 \in 1..(n + 1)
    BY <1>1
  <2> QED
    BY <1>1, <2>1, <2>2, <2>3 DEF OnDay
<1>4. n + 1 \notin C
  BY <1>1 DEF OnDay
<1> HIDE DEF C
<1>5. Cardinality(C) \in Nat /\ Cardinality(C \cup {n + 1}) = Cardinality(C) + 1
  BY <1>2, <1>4, FS_AddElement, FS_CardinalityType
<1>6. Cardinality(OnDay(more, d)) = Cardinality(C) + (IF Day(at) = d THEN 1 ELSE 0)
  BY <1>3, <1>5
<1> QED
  BY <1>5, <1>6 DEF C, more

LEMMA InitCounts == Init => Counts
<1>1. SUFFICES ASSUME Init PROVE Counts
  OBVIOUS
<1>2. /\ published = <<>> /\ others = <<>> /\ lastEntry = None
      /\ \A d \in Days : strategyDays[d] = 0 /\ authorDays[d] = 0
  BY <1>1 DEF Init
<1>3. \A d : OnDay(<<>>, d) = {}
  BY DEF OnDay
<1>4. Cardinality({}) = 0 /\ DOMAIN published = {}
  BY <1>2, FS_EmptySet
<1>5. \A d : Cardinality(OnDay(published, d)) = 0 /\ Cardinality(OnDay(others, d)) = 0
  BY <1>2, <1>3, <1>4
<1>6. lastEntry = IF published = <<>> THEN None ELSE published[Len(published)]
  BY <1>2
<1>7. \A d \in Days : /\ strategyDays[d] = Cardinality(OnDay(published, d))
                      /\ authorDays[d] = Cardinality(OnDay(published, d))
                                           + Cardinality(OnDay(others, d))
  BY <1>2, <1>5
<1> QED
  BY <1>4, <1>6, <1>7 DEF Counts

LEMMA EntryCounts == ASSUME IInv, Counts, EntryIntent PROVE Counts'
<1>1. CASE Refusal # "none"
  BY <1>1 DEF EntryIntent, accounts, Counts
<1>2. CASE Refusal = "none"
  <2> DEFINE n == Len(published)
  <2>1. /\ lastEntry' = clock /\ strategyDays' = Bump(strategyDays, clock)
        /\ authorDays' = Bump(authorDays, clock) /\ published' = Append(published, clock)
        /\ others' = others
    BY <1>2 DEF EntryIntent
  <2>2. /\ clock \in 0..LastClock /\ clock \in Nat /\ published \in Seq(Nat) /\ others \in Seq(Nat)
        /\ strategyDays \in [Days -> Nat] /\ authorDays \in [Days -> Nat]
    BY CycleAssumption DEF IInv, TypeOK, CycleAssumption
  <2>3. /\ n \in Nat /\ DOMAIN published' = 1..(n + 1) /\ Len(published') = n + 1
        /\ published' # <<>> /\ published'[n + 1] = clock
        /\ \A i \in 1..n : published'[i] = published[i] /\ published[i] <= clock
    <3> DEFINE more == Append(published, clock)
    <3>3. /\ more \in Seq(Nat) /\ Len(more) = n + 1 /\ more # <<>> /\ more[n + 1] = clock
          /\ n \in Nat /\ DOMAIN published = 1..n /\ \A i \in 1..n : more[i] = published[i]
      <4>1. published \in Seq(Nat) /\ clock \in Nat
        BY <2>2
      <4> QED
        BY <4>1, AppendProperties, LenProperties
    <3>4. published' = more
      BY <2>1
    <3> HIDE DEF more, n
    <3>1. /\ n \in Nat /\ published' \in Seq(Nat) /\ Len(published') = n + 1
          /\ published' # <<>> /\ published'[n + 1] = clock /\ DOMAIN published = 1..n
          /\ \A i \in 1..n : published'[i] = published[i]
      BY <3>3, <3>4
    <3>2. \A i \in 1..n : published[i] <= clock
      BY <3>1 DEF IInv, InOrder
    <3>5. DOMAIN published' = 1..(n + 1)
      BY <3>1, LenProperties
    <3> QED
      BY <3>1, <3>2, <3>5
  <2>4. ASSUME NEW d \in Days
        PROVE  /\ strategyDays'[d] = Cardinality(OnDay(published', d))
               /\ authorDays'[d]
                     = Cardinality(OnDay(published', d)) + Cardinality(OnDay(others', d))
    <3> DEFINE p == Cardinality(OnDay(published, d))
               o == Cardinality(OnDay(others, d))
    <3>1. /\ p \in Nat /\ o \in Nat
          /\ Cardinality(OnDay(published', d)) = p + (IF Day(clock) = d THEN 1 ELSE 0)
      BY <2>1, <2>2, OneMoreEntry
    <3>2. strategyDays[d] = p /\ authorDays[d] = p + o
      BY DEF Counts
    <3> HIDE DEF p
    <3>3. /\ strategyDays'[d] = p + (IF Day(clock) = d THEN 1 ELSE 0)
          /\ authorDays'[d] = p + o + (IF Day(clock) = d THEN 1 ELSE 0)
      <4>1. CASE Day(clock) = d
        BY <2>1, <2>2, <3>1, <3>2, <4>1, BumpIs
      <4>2. CASE Day(clock) # d
        <5>1. strategyDays'[d] = strategyDays[d] /\ authorDays'[d] = authorDays[d]
          BY <2>1, <2>2, <4>2, BumpIs
        <5> QED
          BY <3>1, <3>2, <4>2, <5>1
      <4> QED
        BY <4>1, <4>2
    <3> QED
      BY <2>1, <3>1, <3>3
  <2> HIDE DEF n
  <2>5. \A i \in DOMAIN published' : published'[i] <= published'[Len(published')]
    <3> SUFFICES ASSUME NEW i \in 1..(n + 1)
                 PROVE  published'[i] <= clock
      BY <2>3
    <3>1. i \in 1..n \/ i = n + 1
      BY <2>3
    <3> QED
      BY <2>2, <2>3, <3>1
  <2>6. lastEntry' = IF published' = <<>> THEN None ELSE published'[Len(published')]
    BY <2>1, <2>3
  <2> QED
    BY <2>4, <2>5, <2>6 DEF Counts
<1> QED
  BY <1>1, <1>2

LEMMA ExternalCounts == ASSUME IInv, Counts, ExternalEntry PROVE Counts'
<1>1. /\ lastEntry' = lastEntry /\ strategyDays' = strategyDays /\ published' = published
      /\ authorDays' = Bump(authorDays, clock) /\ others' = Append(others, clock)
  BY DEF ExternalEntry
<1>2. /\ clock \in 0..LastClock /\ clock \in Nat /\ others \in Seq(Nat) /\ published \in Seq(Nat)
      /\ authorDays \in [Days -> Nat]
  BY CycleAssumption DEF IInv, TypeOK, CycleAssumption
<1>3. ASSUME NEW d \in Days
      PROVE  authorDays'[d] = Cardinality(OnDay(published, d)) + Cardinality(OnDay(others', d))
  <2> DEFINE p == Cardinality(OnDay(published, d))
             o == Cardinality(OnDay(others, d))
  <2>1. /\ p \in Nat /\ o \in Nat
        /\ Cardinality(OnDay(others', d)) = o + (IF Day(clock) = d THEN 1 ELSE 0)
    BY <1>1, <1>2, OneMoreEntry
  <2>2. authorDays[d] = p + o
    BY DEF Counts
  <2> HIDE DEF o
  <2>3. authorDays'[d] = p + o + (IF Day(clock) = d THEN 1 ELSE 0)
    <3>1. CASE Day(clock) = d
      BY <1>1, <1>2, <2>1, <2>2, <3>1, BumpIs
    <3>2. CASE Day(clock) # d
      <4>1. authorDays'[d] = authorDays[d]
        BY <1>1, <1>2, <3>2, BumpIs
      <4> QED
        BY <2>1, <2>2, <3>2, <4>1
    <3> QED
      BY <3>1, <3>2
  <2> QED
    BY <2>1, <2>3
<1> QED
  BY <1>1, <1>3 DEF Counts

LEMMA NextCounts == IInv /\ Counts /\ [Next]_vars => Counts'
<1>1. SUFFICES ASSUME IInv, Counts, [Next]_vars PROVE Counts'
  OBVIOUS
<1>2. CASE EntryIntent
  BY <1>1, <1>2, EntryCounts
<1>3. CASE ExternalEntry
  BY <1>1, <1>3, ExternalCounts
<1>4. CASE UNCHANGED accounts
  BY <1>1, <1>4 DEF accounts, Counts
<1>5. NextInstant \/ ManageStop \/ UNCHANGED vars
        \/ (\E shape \in Shapes, funding \in FundingPayments : Observe(shape, funding))
        \/ (\E price \in ExitPrices, funding \in FundingPayments : RuleExit(price, funding))
      => UNCHANGED accounts
  BY DEF NextInstant, ManageStop, Observe, RuleExit, vars
<1> QED
  BY <1>1, <1>2, <1>3, <1>4, <1>5 DEF Next

\* The counters of every day, and the last entry, are those of the history of entries.
THEOREM QuotasAreCounted == Spec => []Counts
<1>1. IInv /\ Counts /\ [Next]_vars => Counts'
  BY NextCounts
<1> QED
  BY <1>1, InitCounts, CycleInvariance, PTL DEF Spec

\* An open signal and a paused account apart, the replay refuses what the history refuses.
LEMMA RefusalTells ==
  ASSUME IInv, Counts
  PROVE  Refusal = "none" <=> active = <<>> /\ ~risk.entries_paused /\ QuotasAllow
<1> DEFINE p == Cardinality(OnDay(published, Day(clock)))
           o == Cardinality(OnDay(others, Day(clock)))
           room == strategyDays[Day(clock)] < DailyLimit
           shared == authorDays[Day(clock)] < AuthorDailyLimit
           hot == lastEntry # None /\ clock - lastEntry < CooldownSeconds
<1>1. /\ clock \in 0..LastClock /\ clock \in Nat /\ published \in Seq(Nat) /\ others \in Seq(Nat)
      /\ DailyLimit \in Nat /\ AuthorDailyLimit \in Nat /\ CooldownSeconds \in Nat
      /\ risk.entries_paused \in BOOLEAN
  BY CycleAssumption DEF IInv, TypeOK, CycleAssumption, RiskState
<1>2. /\ p \in Nat /\ o \in Nat
      /\ strategyDays[Day(clock)] = p /\ authorDays[Day(clock)] = p + o
  <2>1. Day(clock) \in Days
    BY <1>1 DEF Days
  <2> QED
    BY <1>1, <2>1, OneMoreEntry DEF Counts
<1>3. QuotasAllow <=> /\ p < DailyLimit /\ p + o < AuthorDailyLimit
                      /\ \A i \in DOMAIN published : clock - published[i] >= CooldownSeconds
  BY DEF QuotasAllow, OfToday, OnDay
<1>4. hot <=> ~(\A i \in DOMAIN published : clock - published[i] >= CooldownSeconds)
  <2>1. \A i \in DOMAIN published : published[i] \in Nat
    BY <1>1, ElementOfSeq, LenProperties
  <2>2. CASE published = <<>>
    <3>1. lastEntry = None /\ DOMAIN published = {}
      BY <2>2 DEF Counts
    <3> QED
      BY <3>1
  <2>3. CASE published # <<>>
    <3> DEFINE n == Len(published)
    <3>1. n \in DOMAIN published
      <4>1. n \in Nat /\ DOMAIN published = 1..n /\ n # 0
        BY <1>1, <2>3, LenProperties, EmptySeq
      <4> HIDE DEF n
      <4> QED
        BY <4>1
    <3>2. lastEntry = published[n] /\ \A i \in DOMAIN published : published[i] <= published[n]
      BY <2>3 DEF Counts
    <3>3. lastEntry \in Nat /\ lastEntry # None
      BY <2>1, <3>1, <3>2, NoneIsNoNumber
    <3> HIDE DEF n
    <3>4. CASE clock - lastEntry < CooldownSeconds
      BY <1>1, <2>1, <3>1, <3>2, <3>3, <3>4
    <3>5. CASE ~(clock - lastEntry < CooldownSeconds)
      <4>1. \A i \in DOMAIN published : clock - published[i] >= CooldownSeconds
        <5> SUFFICES ASSUME NEW i \in DOMAIN published
                     PROVE  clock - published[i] >= CooldownSeconds
          OBVIOUS
        <5>1. published[i] \in Nat /\ published[i] <= lastEntry
          BY <2>1, <3>2
        <5> QED
          BY <1>1, <3>3, <3>5, <5>1
      <4> QED
        BY <3>3, <3>5, <4>1
    <3> QED
      BY <3>4, <3>5
  <2> QED
    BY <2>2, <2>3
<1>5. /\ room <=> p < DailyLimit
      /\ shared <=> p + o < AuthorDailyLimit
      /\ strategyDays[Day(clock)] >= DailyLimit <=> ~room
      /\ authorDays[Day(clock)] >= AuthorDailyLimit <=> ~shared
  BY <1>1, <1>2
<1>6. Refusal = IF active # <<>> THEN "open_signal" ELSE
                IF risk.entries_paused THEN "risk_paused" ELSE
                IF ~room THEN "daily_limit_reached" ELSE
                IF ~shared THEN "author_daily_limit_reached" ELSE
                IF hot THEN "cooldown" ELSE "none"
  <2> HIDE DEF hot
  <2>1. Refusal = CASE active # <<>> -> "open_signal"
                    [] active = <<>> /\ risk.entries_paused -> "risk_paused"
                    [] OTHER ->
                         CASE ~room -> "daily_limit_reached"
                           [] room /\ ~shared -> "author_daily_limit_reached"
                           [] OTHER -> IF hot THEN "cooldown" ELSE "none"
    BY <1>5 DEF Refusal, hot
  <2> HIDE DEF room, shared
  <2> QED
    BY <1>1, <2>1
<1> HIDE DEF room, shared, hot
<1> QED
  BY <1>3, <1>4, <1>5, <1>6

\* Every intent is published exactly when no signal is open, the account is not paused
\* and the history of entries leaves room in both quotas and after the cooldown.
THEOREM EntriesHaveRoom ==
  Spec => [][intents' # intents /\ outcome' \in Refusals \cup {"published"}
               => ((outcome' = "published")
                     <=> active = <<>> /\ ~risk.entries_paused /\ QuotasAllow)]_vars
<1>1. ASSUME IInv, Counts, Next, intents' # intents, outcome' \in Refusals \cup {"published"}
      PROVE  (outcome' = "published")
               <=> active = <<>> /\ ~risk.entries_paused /\ QuotasAllow
  <2>1. EntryIntent
    <3>1. ~NextInstant /\ ~ManageStop /\ ~ExternalEntry
      BY <1>1 DEF NextInstant, ManageStop, ExternalEntry
    <3>2. ASSUME NEW shape \in Shapes, NEW funding \in FundingPayments
          PROVE  ~Observe(shape, funding)
      BY <1>1 DEF Observe
    <3>3. ASSUME NEW price \in ExitPrices, NEW funding \in FundingPayments
          PROVE  ~RuleExit(price, funding)
      <4>1. RuleExit(price, funding) => outcome' \in {"no_position", "rule_exit"}
        BY DEF RuleExit
      <4> QED
        BY <1>1, <4>1 DEF Refusals
    <3> QED
      BY <1>1, <3>1, <3>2, <3>3 DEF Next
  <2>2. outcome' = IF Refusal # "none" THEN Refusal ELSE "published"
    BY <2>1 DEF EntryIntent
  <2>3. Refusal # "published"
    BY DEF Refusal
  <2>4. (outcome' = "published") <=> Refusal = "none"
    BY <2>2, <2>3
  <2> QED
    BY <1>1, <2>4, RefusalTells
<1>2. IInv /\ Counts /\ [Next]_vars
        => [intents' # intents /\ outcome' \in Refusals \cup {"published"}
              => ((outcome' = "published")
                    <=> active = <<>> /\ ~risk.entries_paused /\ QuotasAllow)]_vars
  BY <1>1
<1> QED
  BY <1>2, CycleInvariance, QuotasAreCounted, PTL DEF Spec

-----------------------------------------------------------------------------
(***************************************************************************)
(* The account: what settle_risk keeps is a summary of all the returns, so *)
(* that the pause tells whether the history is Exhausted.                  *)
(***************************************************************************)
\* A set that holds 0, and the next number of each it holds, holds all up to L.
LEMMA AllUpTo ==
  ASSUME NEW L \in Nat, NEW S, 0 \in S, \A n \in 0..L : n \in S /\ n < L => n + 1 \in S
  PROVE  \A n \in 0..L : n \in S
<1> DEFINE R == {n \in 0..L : n \notin S}
<1>1. SUFFICES ASSUME R # {} PROVE FALSE
  OBVIOUS
<1>2. PICK n \in R : \A k \in R : ~(k < n)
  <2>1. R \subseteq Nat
    OBVIOUS
  <2> HIDE DEF R
  <2>2. PICK n \in R : \A k \in R : n <= k
    BY <1>1, <2>1, LeastOf
  <2> QED
    BY <2>1, <2>2
<1>3. n \in 0..L /\ n # 0 /\ n \notin S
  BY <1>2
<1>4. n - 1 \in 0..L /\ n - 1 < L /\ n - 1 \notin R /\ (n - 1) + 1 = n
  BY <1>2, <1>3
<1> QED
  BY <1>3, <1>4

\* One factor of Compounded.
Factor(m, factors, f, n) == IF n < m THEN 1 ELSE Larger(0, f[n - 1] * factors[n])

LEMMA CompoundedChosen ==
  ASSUME NEW m, NEW factors
  PROVE  Compounded(m, factors)
           = CHOOSE f : f = [n \in 0..Len(factors) |-> Factor(m, factors, f, n)]
  BY Zenon DEF Compounded, Factor

LEMMA CompoundedIs ==
  ASSUME NEW m \in Nat \ {0}, NEW factors, Len(factors) \in Nat
  PROVE  Compounded(m, factors)
           = [n \in 0..Len(factors) |-> Factor(m, factors, Compounded(m, factors), n)]
<1> DEFINE L == Len(factors)
           Has(k) == \E f : f = [n \in 0..k |-> Factor(m, factors, f, n)]
           S == {k \in 0..L : Has(k)}
<1>1. Has(0)
  <2> DEFINE g == [n \in 0..0 |-> 1]
  <2>1. \A n \in 0..0 : Factor(m, factors, g, n) = 1
    BY DEF Factor
  <2>2. g = [n \in 0..0 |-> Factor(m, factors, g, n)]
    BY <2>1
  <2> QED
    BY <2>2
<1>2. ASSUME NEW k \in Nat, Has(k)
      PROVE  Has(k + 1)
  <2>1. PICK f : f = [n \in 0..k |-> Factor(m, factors, f, n)]
    BY <1>2
  <2> DEFINE g == [n \in 0..(k + 1) |-> IF n <= k THEN f[n] ELSE Factor(m, factors, f, n)]
  <2>2. ASSUME NEW n \in 0..(k + 1)
        PROVE  g[n] = Factor(m, factors, g, n)
    <3>1. g[n] = Factor(m, factors, f, n)
      BY <2>1
    <3>2. CASE n < m
      BY <3>1, <3>2 DEF Factor
    <3>3. CASE ~(n < m)
      <4>1. n - 1 \in 0..k
        BY <3>3
      <4>2. g[n - 1] = f[n - 1]
        BY <4>1
      <4> HIDE DEF g
      <4> QED
        BY <3>1, <3>3, <4>2 DEF Factor
    <3> QED
      BY <3>2, <3>3
  <2>3. g = [n \in 0..(k + 1) |-> Factor(m, factors, g, n)]
    BY <2>2
  <2> HIDE DEF g
  <2> QED
    BY <2>3
<1> HIDE DEF Has
<1>3. L \in Nat /\ 0 \in S
  BY <1>1
<1>4. \A k \in 0..L : k \in S /\ k < L => k + 1 \in S
  BY <1>2, <1>3
<1>5. L \in S
  <2> HIDE DEF S, L
  <2>1. \A k \in 0..L : k \in S
    BY <1>3, <1>4, AllUpTo
  <2> QED
    BY <1>3, <2>1
<1>6. \E f : f = [n \in 0..Len(factors) |-> Factor(m, factors, f, n)]
  BY <1>5 DEF Has
<1> QED
  BY <1>6, CompoundedChosen, Zenon

\* What compounding gives, factor by factor, for factors numbered 1 to L.
LEMMA Compounding ==
  ASSUME NEW m \in Nat \ {0}, NEW factors \in Seq(Int)
  PROVE  LET f == Compounded(m, factors)
             L == Len(factors)
         IN /\ L \in Nat
            /\ \A n \in 0..L : /\ f[n] \in Nat
                               /\ n < m => f[n] = 1
                               /\ ~(n < m) => /\ n - 1 \in 0..L /\ factors[n] \in Int
                                              /\ f[n] = Larger(0, f[n - 1] * factors[n])
<1> DEFINE f == Compounded(m, factors)
           L == Len(factors)
           S == {n \in 0..L : f[n] \in Nat}
<1>1. L \in Nat /\ \A n \in 1..L : factors[n] \in Int
  BY LenProperties, ElementOfSeq
<1>2. \A n \in 0..L : f[n] = Factor(m, factors, f, n)
  <2>1. f = [n \in 0..L |-> Factor(m, factors, f, n)]
    BY <1>1, CompoundedIs
  <2> HIDE DEF f
  <2> QED
    BY <2>1
<1> HIDE DEF f, L
<1>3. ASSUME NEW n \in 0..L
      PROVE  /\ n < m => f[n] = 1
             /\ ~(n < m) => /\ n - 1 \in 0..L /\ factors[n] \in Int
                            /\ f[n] = Larger(0, f[n - 1] * factors[n])
  <2>1. ~(n < m) => n - 1 \in 0..L /\ n \in 1..L
    BY <1>1
  <2> QED
    BY <1>1, <1>2, <2>1 DEF Factor
<1>4. 0 \in S
  BY <1>1, <1>3
<1>5. ASSUME NEW n \in 0..L, n \in S, n < L
      PROVE  n + 1 \in S
  <2>1. n + 1 \in 0..L /\ (n + 1) - 1 = n /\ f[n] \in Nat
    BY <1>1, <1>5
  <2>2. CASE n + 1 < m
    BY <1>3, <2>1, <2>2
  <2>3. CASE ~(n + 1 < m)
    <3> DEFINE x == f[n]
               y == factors[n + 1]
    <3>1. x \in Nat /\ y \in Int /\ f[n + 1] = Larger(0, x * y)
      BY <1>3, <2>1, <2>3
    <3> HIDE DEF x, y
    <3>2. x * y \in Int
      BY <3>1
    <3>3. Larger(0, x * y) \in Nat
      BY <3>2 DEF Larger
    <3> QED
      BY <2>1, <3>1, <3>3
  <2> QED
    BY <2>2, <2>3
<1>6. \A n \in 0..L : n \in S
  <2> HIDE DEF S
  <2> QED
    BY <1>1, <1>4, <1>5, AllUpTo
<1> QED
  BY <1>1, <1>3, <1>6 DEF f, L

\* More factors leave what was compounded before as it was.
LEMMA Recompounded ==
  ASSUME NEW m \in Nat \ {0}, NEW factors \in Seq(Int), NEW more \in Seq(Int),
         Len(more) = Len(factors) + 1, \A i \in 1..Len(factors) : more[i] = factors[i]
  PROVE  \A n \in 0..Len(factors) : Compounded(m, more)[n] = Compounded(m, factors)[n]
<1> DEFINE L == Len(factors)
           f == Compounded(m, factors)
           g == Compounded(m, more)
           S == {n \in 0..L : g[n] = f[n]}
<1>1. /\ L \in Nat
      /\ \A n \in 0..L : /\ n < m => f[n] = 1
                         /\ ~(n < m) => n - 1 \in 0..L /\ f[n] = Larger(0, f[n - 1] * factors[n])
      /\ \A n \in 0..(L + 1) : /\ n < m => g[n] = 1
                               /\ ~(n < m) => g[n] = Larger(0, g[n - 1] * more[n])
  BY Compounding
<1>2. \A i \in 1..L : more[i] = factors[i]
  OBVIOUS
<1> HIDE DEF f, g, L
<1>3. 0 \in S
  BY <1>1
<1>4. ASSUME NEW n \in 0..L, n \in S, n < L
      PROVE  n + 1 \in S
  <2>1. n + 1 \in 1..L /\ n + 1 \in 0..L /\ n + 1 \in 0..(L + 1) /\ (n + 1) - 1 = n
    BY <1>1, <1>4
  <2>2. g[n] = f[n] /\ more[n + 1] = factors[n + 1]
    BY <1>2, <1>4, <2>1
  <2>3. CASE n + 1 < m
    BY <1>1, <2>1, <2>3
  <2>4. CASE ~(n + 1 < m)
    <3>1. /\ f[n + 1] = Larger(0, f[n] * factors[n + 1])
          /\ g[n + 1] = Larger(0, g[n] * more[n + 1])
      BY <1>1, <2>1, <2>4
    <3> QED
      BY <2>1, <2>2, <3>1
  <2> QED
    BY <2>3, <2>4
<1> HIDE DEF S
<1>5. \A n \in 0..L : n \in S
  BY <1>1, <1>3, <1>4, AllUpTo
<1> QED
  BY <1>5 DEF S, f, g, L

\* Compounding from the first factor goes by way of any other.
LEMMA ByWayOf ==
  ASSUME NEW factors \in Seq(Int), NEW m \in 1..(Len(factors) + 1)
  PROVE  LET f == Compounded(1, factors)
         IN \A n \in (m - 1)..Len(factors) : f[n] = f[m - 1] * Compounded(m, factors)[n]
<1> DEFINE L == Len(factors)
           f == Compounded(1, factors)
           g == Compounded(m, factors)
           S == {n \in 0..L : n >= m - 1 => f[n] = f[m - 1] * g[n]}
<1>1. L \in Nat /\ m \in Nat \ {0} /\ m \in 1..(L + 1)
  BY LenProperties
<1>2. \A n \in 0..L : /\ f[n] \in Nat
                      /\ n < 1 => f[n] = 1
                      /\ ~(n < 1) => factors[n] \in Int /\ f[n] = Larger(0, f[n - 1] * factors[n])
  BY Compounding
<1>3. \A n \in 0..L : /\ g[n] \in Nat
                      /\ n < m => g[n] = 1
                      /\ ~(n < m) => g[n] = Larger(0, g[n - 1] * factors[n])
  BY <1>1, Compounding
<1> HIDE DEF f, g, L
<1>4. ASSUME NEW n \in 0..L, n = m - 1
      PROVE  n \in S
  <2>1. g[n] = 1 /\ f[n] \in Nat
    BY <1>1, <1>2, <1>3, <1>4
  <2>2. f[n] * 1 = f[n]
    BY <2>1
  <2> QED
    BY <1>4, <2>1, <2>2
<1>5. 0 \in S
  <2>1. CASE m = 1
    BY <1>1, <1>4, <2>1
  <2>2. CASE m # 1
    BY <1>1, <2>2
  <2> QED
    BY <2>1, <2>2
<1>6. ASSUME NEW n \in 0..L, n \in S, n < L
      PROVE  n + 1 \in S
  <2>1. n + 1 \in 0..L /\ (n + 1) - 1 = n /\ ~(n + 1 < 1) /\ m - 1 \in 0..L
    BY <1>1, <1>6
  <2>2. CASE n + 1 < m - 1
    BY <2>1, <2>2, <1>1
  <2>3. CASE n + 1 = m - 1
    BY <1>4, <2>1, <2>3
  <2>4. CASE n + 1 > m - 1
    <3> DEFINE a == f[m - 1]
               b == g[n]
               c == factors[n + 1]
    <3>1. n >= m - 1 /\ ~(n + 1 < m)
      BY <1>1, <2>1, <2>4
    <3>2. /\ a \in Nat /\ b \in Nat /\ c \in Int
          /\ f[n] = a * b /\ f[n + 1] = Larger(0, f[n] * c) /\ g[n + 1] = Larger(0, b * c)
      BY <1>2, <1>3, <1>6, <2>1, <3>1
    <3> HIDE DEF a, b, c
    <3>3. Larger(0, (a * b) * c) = a * Larger(0, b * c)
      <4> DEFINE d == b * c
      <4>1. d \in Int /\ (a * b) * c = a * d
        BY <3>2
      <4> HIDE DEF d
      <4>2. CASE d >= 0
        <5>1. a * d \in Nat
          BY <3>2, <4>1, <4>2
        <5> QED
          BY <4>1, <4>2, <5>1 DEF Larger, d
      <4>3. CASE d < 0
        <5>1. -d \in Nat /\ a * (-d) \in Nat /\ a * d = -(a * (-d))
          BY <3>2, <4>1, <4>3
        <5>2. a * d \in Int /\ a * d <= 0 /\ a * 0 = 0
          BY <5>1, <3>2
        <5> QED
          BY <4>1, <4>3, <5>2 DEF Larger, d
      <4> QED
        BY <4>1, <4>2, <4>3
    <3>4. f[n + 1] = a * g[n + 1]
      BY <3>2, <3>3
    <3> QED
      BY <2>1, <3>4 DEF a
  <2> QED
    BY <1>1, <2>1, <2>2, <2>3, <2>4
<1> HIDE DEF S
<1>7. \A n \in 0..L : n \in S
  BY <1>1, <1>5, <1>6, AllUpTo
<1>8. \A n \in (m - 1)..L : n \in 0..L /\ n >= m - 1
  BY <1>1
<1> QED
  BY <1>7, <1>8 DEF S, f, g, L

\* Compounding positive factors gives positive numbers.
LEMMA CompoundedPositive ==
  ASSUME NEW m \in Nat \ {0}, NEW factors \in Seq(Int),
         \A i \in 1..Len(factors) : factors[i] \in Nat \ {0}
  PROVE  \A n \in 0..Len(factors) : Compounded(m, factors)[n] \in Nat \ {0}
<1> DEFINE L == Len(factors)
           f == Compounded(m, factors)
           S == {n \in 0..L : f[n] \in Nat \ {0}}
<1>1. /\ L \in Nat /\ \A i \in 1..L : factors[i] \in Nat \ {0}
      /\ \A n \in 0..L : /\ n < m => f[n] = 1
                         /\ ~(n < m) => f[n] = Larger(0, f[n - 1] * factors[n])
  BY Compounding
<1> HIDE DEF f, L
<1>2. 0 \in S
  BY <1>1
<1>3. ASSUME NEW n \in 0..L, n \in S, n < L
      PROVE  n + 1 \in S
  <2>1. n + 1 \in 0..L /\ n + 1 \in 1..L /\ (n + 1) - 1 = n
    BY <1>1, <1>3
  <2> DEFINE x == f[n]
             y == factors[n + 1]
  <2>2. /\ x \in Nat \ {0} /\ y \in Nat \ {0}
        /\ n + 1 < m => f[n + 1] = 1
        /\ ~(n + 1 < m) => f[n + 1] = Larger(0, x * y)
    BY <1>1, <1>3, <2>1
  <2> HIDE DEF x, y
  <2>3. x * y \in Nat \ {0}
    BY <2>2
  <2> QED
    BY <2>1, <2>2, <2>3 DEF Larger
<1> HIDE DEF S
<1>4. \A n \in 0..L : n \in S
  BY <1>1, <1>2, <1>3, AllUpTo
<1> QED
  BY <1>4 DEF S, f, L

-----------------------------------------------------------------------------
\* The factors of the returns, and those of a unit.
LEMMA Factors ==
  ASSUME NEW returns \in Seq(Int), NEW c \in Int
  PROVE  LET f == [i \in DOMAIN returns |-> c + returns[i]]
             g == [i \in DOMAIN returns |-> c]
         IN /\ f \in Seq(Int) /\ Len(f) = Len(returns)
            /\ \A i \in 1..Len(returns) : f[i] = c + returns[i]
            /\ g \in Seq(Int) /\ Len(g) = Len(returns)
            /\ \A i \in 1..Len(returns) : g[i] = c
<1> DEFINE n == Len(returns)
           f == [i \in DOMAIN returns |-> c + returns[i]]
           g == [i \in DOMAIN returns |-> c]
<1>1. n \in Nat /\ DOMAIN returns = 1..n /\ \A i \in 1..n : returns[i] \in Int
  BY LenProperties, ElementOfSeq
<1>2. f = [i \in 1..n |-> c + returns[i]] /\ g = [i \in 1..n |-> c]
  BY <1>1
<1> HIDE DEF n, f, g
<1>3. f \in [1..n -> Int] /\ g \in [1..n -> Int]
  BY <1>1, <1>2
<1>4. f \in Seq(Int) /\ Len(f) = n /\ g \in Seq(Int) /\ Len(g) = n
  BY <1>1, <1>3
<1>5. \A i \in 1..n : f[i] = c + returns[i] /\ g[i] = c
  BY <1>2
<1> QED
  BY <1>4, <1>5 DEF n, f, g

LEMMA ScaleIs == Scale \in Nat \ {0}
<1>1. EntryPrice \in Nat \ {0} /\ CostDen \in Nat \ {0}
  BY SignalAssumption DEF SignalAssumption
<1> QED
  BY <1>1 DEF Scale

\* The last of the products is the one before it, multiplied once more.
LEMMA LastFactor ==
  ASSUME NEW n \in Nat, NEW m \in 1..(n + 1), NEW factors \in Seq(Int), Len(factors) = n + 1
  PROVE  /\ Compounded(m, factors)[n + 1] = Larger(0, Compounded(m, factors)[n] * factors[n + 1])
         /\ Compounded(m, factors)[n + 1] \in Nat
<1> DEFINE f == Compounded(m, factors)
<1>1. m \in Nat \ {0} /\ n + 1 \in 0..(n + 1) /\ ~(n + 1 < m) /\ (n + 1) - 1 = n
  OBVIOUS
<1>2. ASSUME NEW i \in 0..Len(factors)
      PROVE  /\ f[i] \in Nat
             /\ ~(i < m) => f[i] = Larger(0, f[i - 1] * factors[i])
  BY <1>1, Compounding
<1> HIDE DEF f
<1>3. n + 1 \in 0..Len(factors)
  BY <1>1
<1>4. f[n + 1] \in Nat
  BY <1>2, <1>3, Zenon
<1>5. f[n + 1] = Larger(0, f[(n + 1) - 1] * factors[n + 1])
  BY <1>1, <1>2, <1>3, Zenon
<1>6. f[n + 1] = Larger(0, f[n] * factors[n + 1])
  BY <1>1, <1>5, Zenon
<1> QED
  BY <1>4, <1>6 DEF f

\* What one more return does to the products of the history.
LEMMA OneMoreReturn ==
  ASSUME NEW returns \in Seq(Int), NEW ret \in Int
  PROVE  LET more == Append(returns, ret)
             n == Len(returns)
         IN /\ n \in Nat /\ more \in Seq(Int) /\ Len(more) = n + 1
            /\ \A m \in 1..(n + 2) : \A k \in 0..n :
                 /\ Growth(more, m)[k] = Growth(returns, m)[k] /\ Growth(returns, m)[k] \in Nat
                 /\ Basis(more, m)[k] = Basis(returns, m)[k] /\ Basis(returns, m)[k] \in Nat \ {0}
            /\ \A m \in 1..(n + 1) :
                 /\ Growth(more, m)[n + 1] = Larger(0, Growth(returns, m)[n] * (Scale + ret))
                 /\ Growth(more, m)[n + 1] \in Nat
                 /\ Basis(more, m)[n + 1] = Basis(returns, m)[n] * Scale
                 /\ Growth(more, 1)[n + 1] = Growth(returns, 1)[m - 1] * Growth(more, m)[n + 1]
            /\ Basis(more, n + 2)[n + 1] = 1
<1> DEFINE more == Append(returns, ret)
           n == Len(returns)
           f == [i \in DOMAIN returns |-> Scale + returns[i]]
           g == [i \in DOMAIN returns |-> Scale]
           ff == [i \in DOMAIN more |-> Scale + more[i]]
           gg == [i \in DOMAIN more |-> Scale]
<1>1. /\ n \in Nat /\ more \in Seq(Int) /\ Len(more) = n + 1
      /\ \A i \in 1..n : more[i] = returns[i]
      /\ more[n + 1] = ret
  BY AppendProperties, LenProperties
<1>2. Scale \in Nat \ {0} /\ Scale \in Int
  BY ScaleIs
<1>3. /\ f \in Seq(Int) /\ Len(f) = n /\ \A i \in 1..n : f[i] = Scale + returns[i]
      /\ g \in Seq(Int) /\ Len(g) = n /\ \A i \in 1..n : g[i] = Scale
  BY <1>2, Factors
<1>4. /\ ff \in Seq(Int) /\ Len(ff) = n + 1 /\ \A i \in 1..(n + 1) : ff[i] = Scale + more[i]
      /\ gg \in Seq(Int) /\ Len(gg) = n + 1 /\ \A i \in 1..(n + 1) : gg[i] = Scale
  <2> HIDE DEF more
  <2> QED
    BY <1>1, <1>2, Factors
<1>5. /\ \A m : Growth(returns, m) = Compounded(m, f) /\ Basis(returns, m) = Compounded(m, g)
      /\ \A m : Growth(more, m) = Compounded(m, ff) /\ Basis(more, m) = Compounded(m, gg)
  BY DEF Growth, Basis
<1> HIDE DEF f, g, ff, gg, n, more
<1>6. /\ \A i \in 1..n : ff[i] = f[i] /\ gg[i] = g[i]
      /\ ff[n + 1] = Scale + ret /\ gg[n + 1] = Scale
  <2>1. \A i \in 1..n : i \in 1..(n + 1)
    BY <1>1
  <2>2. n + 1 \in 1..(n + 1)
    BY <1>1
  <2> QED
    BY <1>1, <1>3, <1>4, <2>1, <2>2
<1>7. ASSUME NEW m \in 1..(n + 2), NEW k \in 0..n
      PROVE  /\ Growth(more, m)[k] = Growth(returns, m)[k] /\ Growth(returns, m)[k] \in Nat
             /\ Basis(more, m)[k] = Basis(returns, m)[k] /\ Basis(returns, m)[k] \in Nat \ {0}
  <2>1. m \in Nat \ {0}
    BY <1>1
  <2>2. Compounded(m, ff)[k] = Compounded(m, f)[k] /\ Compounded(m, gg)[k] = Compounded(m, g)[k]
    <3>1. Len(ff) = Len(f) + 1 /\ \A i \in 1..Len(f) : ff[i] = f[i]
      BY <1>3, <1>4, <1>6
    <3>2. Len(gg) = Len(g) + 1 /\ \A i \in 1..Len(g) : gg[i] = g[i]
      BY <1>3, <1>4, <1>6
    <3>3. \A i \in 0..Len(f) : Compounded(m, ff)[i] = Compounded(m, f)[i]
      BY <1>3, <1>4, <2>1, <3>1, Recompounded
    <3>4. \A i \in 0..Len(g) : Compounded(m, gg)[i] = Compounded(m, g)[i]
      BY <1>3, <1>4, <2>1, <3>2, Recompounded
    <3> QED
      BY <1>3, <3>3, <3>4
  <2>3. Compounded(m, f)[k] \in Nat
    BY <1>3, <2>1, Compounding
  <2>4. Compounded(m, g)[k] \in Nat \ {0}
    BY <1>2, <1>3, <2>1, CompoundedPositive
  <2> QED
    BY <1>5, <2>2, <2>3, <2>4
<1>8. ASSUME NEW m \in 1..(n + 1)
      PROVE  /\ Growth(more, m)[n + 1] = Larger(0, Growth(returns, m)[n] * (Scale + ret))
             /\ Growth(more, m)[n + 1] \in Nat
             /\ Basis(more, m)[n + 1] = Basis(returns, m)[n] * Scale
             /\ Growth(more, 1)[n + 1] = Growth(returns, 1)[m - 1] * Growth(more, m)[n + 1]
  <2>1. /\ m \in Nat \ {0} /\ ~(n + 1 < m) /\ n + 1 \in 0..(n + 1) /\ (n + 1) - 1 = n
        /\ m \in 1..(n + 2) /\ n \in 0..n /\ 1 \in 1..(n + 2)
        /\ m - 1 \in 0..n /\ n + 1 \in (m - 1)..(n + 1) /\ m \in 1..((n + 1) + 1)
    BY <1>1
  <2>2. /\ Compounded(m, ff)[n + 1] = Larger(0, Compounded(m, ff)[n] * ff[n + 1])
        /\ Compounded(m, ff)[n + 1] \in Nat
        /\ Compounded(m, gg)[n + 1] = Larger(0, Compounded(m, gg)[n] * gg[n + 1])
    <3> HIDE DEF more, n, ff, gg
    <3>1. /\ Compounded(m, ff)[n + 1] = Larger(0, Compounded(m, ff)[n] * ff[n + 1])
          /\ Compounded(m, ff)[n + 1] \in Nat
      BY <1>1, <1>4, LastFactor
    <3>2. Compounded(m, gg)[n + 1] = Larger(0, Compounded(m, gg)[n] * gg[n + 1])
      BY <1>1, <1>4, LastFactor
    <3> QED
      BY <3>1, <3>2
  <2>3. Growth(more, m)[n] = Growth(returns, m)[n]
    BY <1>7, <2>1
  <2>4. Basis(more, m)[n] = Basis(returns, m)[n] /\ Basis(returns, m)[n] \in Nat
    BY <1>7, <2>1
  <2>5. Growth(more, m)[n + 1] = Larger(0, Growth(returns, m)[n] * (Scale + ret))
    BY <1>5, <1>6, <2>2, <2>3
  <2>6. Basis(more, m)[n + 1] = Basis(returns, m)[n] * Scale
    <3> DEFINE x == Basis(returns, m)[n]
    <3>1. Basis(more, m)[n + 1] = Larger(0, x * Scale)
      BY <1>5, <1>6, <2>2, <2>4
    <3>2. x \in Nat
      BY <2>4
    <3> HIDE DEF x
    <3>3. x * Scale \in Nat
      BY <1>2, <3>2
    <3>4. Larger(0, x * Scale) = x * Scale
      <4> DEFINE y == x * Scale
      <4>1. y \in Nat
        BY <3>3
      <4> HIDE DEF y
      <4>2. Larger(0, y) = y
        BY <4>1 DEF Larger
      <4> QED
        BY <4>2 DEF y
    <3> QED
      BY <3>1, <3>4 DEF x
  <2>7. Compounded(1, ff)[n + 1] = Compounded(1, ff)[m - 1] * Compounded(m, ff)[n + 1]
    BY <1>4, <2>1, ByWayOf, SMTT(20)
  <2>8. Growth(more, 1)[m - 1] = Growth(returns, 1)[m - 1]
    BY <1>7, <2>1
  <2> QED
    BY <1>5, <2>2, <2>5, <2>6, <2>7, <2>8
<1>9. Basis(more, n + 2)[n + 1] = 1
  <2>1. n + 2 \in Nat \ {0} /\ n + 1 \in 0..(n + 1) /\ n + 1 < n + 2
    BY <1>1
  <2>2. \A i \in 0..(n + 1) : i < n + 2 => Compounded(n + 2, gg)[i] = 1
    BY <1>4, <2>1, Compounding
  <2> QED
    BY <1>5, <2>1, <2>2
<1> QED
  BY <1>1, <1>7, <1>8, <1>9 DEF more, n

-----------------------------------------------------------------------------
\* The losses since trade s, with no winner from there on.
Since(returns, s) == {i \in s..Len(returns) : returns[i] < 0}
Streak(returns, s) ==
  /\ s \in 1..(Len(returns) + 1)
  /\ s > 1 => returns[s - 1] > 0
  /\ \A i \in s..Len(returns) : returns[i] <= 0

\* The account as a function of the returns.
Sums(account, returns) ==
  LET n == Len(returns)
      worth(j) == Growth(returns, 1)[j] * Basis(returns, j + 1)[n]
  IN /\ account.equity = Growth(returns, 1)[n]
     /\ \E j \in 0..n : account.peak_equity = worth(j)
     /\ \A j \in 0..n : worth(j) <= account.peak_equity
     /\ \E s \in 1..(n + 1) : /\ Streak(returns, s)
                              /\ account.consecutive_losses = Cardinality(Since(returns, s))
     /\ account.entries_paused <=> LostAFifth(returns) \/ LostFive(returns)

\* A loss of a fifth that the last return completes.
FallsNow(returns) ==
  \E m \in 1..Len(returns) :
    5 * Growth(returns, m)[Len(returns)] <= 4 * Basis(returns, m)[Len(returns)]

FiveNow(returns) ==
  \E m \in 1..Len(returns) :
    /\ \A i \in m..Len(returns) : returns[i] <= 0
    /\ Cardinality(Since(returns, m)) >= 5

\* A history is exhausted by an earlier return, or by the last one.
LEMMA ExhaustedBy ==
  ASSUME NEW returns \in Seq(Int), NEW ret \in Int
  PROVE  LET more == Append(returns, ret)
         IN /\ LostAFifth(more) <=> LostAFifth(returns) \/ FallsNow(more)
            /\ LostFive(more) <=> LostFive(returns) \/ FiveNow(more)
<1> DEFINE more == Append(returns, ret)
           n == Len(returns)
<1>1. /\ n \in Nat /\ more \in Seq(Int) /\ Len(more) = n + 1
      /\ \A i \in 1..n : more[i] = returns[i]
      /\ DOMAIN more = 1..(n + 1) /\ DOMAIN returns = 1..n
  BY AppendProperties, LenProperties
<1>2. \A m \in 1..n : \A k \in m..n : /\ Growth(more, m)[k] = Growth(returns, m)[k]
                                      /\ Basis(more, m)[k] = Basis(returns, m)[k]
  <2>1. \A m \in 1..(n + 2) : \A k \in 0..n : /\ Growth(more, m)[k] = Growth(returns, m)[k]
                                              /\ Basis(more, m)[k] = Basis(returns, m)[k]
    BY OneMoreReturn
  <2>2. \A m \in 1..n : m \in 1..(n + 2) /\ \A k \in m..n : k \in 0..n
    BY <1>1
  <2> QED
    BY <2>1, <2>2
<1>3. \A m \in 1..n : \A k \in m..n :
        /\ (\A i \in m..k : more[i] <= 0) <=> (\A i \in m..k : returns[i] <= 0)
        /\ {i \in m..k : more[i] < 0} = {i \in m..k : returns[i] < 0}
  <2> SUFFICES ASSUME NEW m \in 1..n, NEW k \in m..n
               PROVE  /\ (\A i \in m..k : more[i] <= 0) <=> (\A i \in m..k : returns[i] <= 0)
                      /\ {i \in m..k : more[i] < 0} = {i \in m..k : returns[i] < 0}
    OBVIOUS
  <2>1. \A i \in m..k : more[i] = returns[i]
    BY <1>1
  <2> HIDE DEF more
  <2> QED
    BY <2>1
<1> DEFINE Falls(m, k) == 5 * Growth(more, m)[k] <= 4 * Basis(more, m)[k]
           Five(m, k) == /\ \A i \in m..k : more[i] <= 0
                         /\ Cardinality({i \in m..k : more[i] < 0}) >= 5
<1>4. /\ LostAFifth(more) <=> \E m \in 1..(n + 1) : \E k \in m..(n + 1) : Falls(m, k)
      /\ LostFive(more) <=> \E m \in 1..(n + 1) : \E k \in m..(n + 1) : Five(m, k)
  BY <1>1 DEF LostAFifth, LostFive
<1>5. /\ LostAFifth(returns) <=> \E m \in 1..n : \E k \in m..n : Falls(m, k)
      /\ LostFive(returns) <=> \E m \in 1..n : \E k \in m..n : Five(m, k)
  <2> DEFINE Fell(m, k) == 5 * Growth(returns, m)[k] <= 4 * Basis(returns, m)[k]
             Lost(m, k) == /\ \A i \in m..k : returns[i] <= 0
                           /\ Cardinality({i \in m..k : returns[i] < 0}) >= 5
  <2>1. ASSUME NEW m \in 1..n, NEW k \in m..n
        PROVE  (Fell(m, k) <=> Falls(m, k)) /\ (Lost(m, k) <=> Five(m, k))
    <3>1. Fell(m, k) <=> Falls(m, k)
      BY <1>2
    <3>2. /\ (\A i \in m..k : more[i] <= 0) <=> (\A i \in m..k : returns[i] <= 0)
          /\ {i \in m..k : more[i] < 0} = {i \in m..k : returns[i] < 0}
      BY <1>3
    <3> HIDE DEF more
    <3>3. Lost(m, k) <=> Five(m, k)
      BY <3>2
    <3> QED
      BY <3>1, <3>3
  <2>2. /\ LostAFifth(returns) <=> \E m \in 1..n : \E k \in m..n : Fell(m, k)
        /\ LostFive(returns) <=> \E m \in 1..n : \E k \in m..n : Lost(m, k)
    BY <1>1 DEF LostAFifth, LostFive
  <2> HIDE DEF Fell, Lost, Falls, Five, more, n
  <2> QED
    BY <2>1, <2>2
<1>6. /\ FallsNow(more) <=> \E m \in 1..(n + 1) : Falls(m, n + 1)
      /\ FiveNow(more) <=> \E m \in 1..(n + 1) : Five(m, n + 1)
  BY <1>1 DEF FallsNow, FiveNow, Since
<1> HIDE DEF Falls, Five, more, n
<1>7. /\ \A m \in 1..n : m \in 1..(n + 1) /\ \A k \in m..n : k \in m..(n + 1)
      /\ \A m \in 1..(n + 1) : n + 1 \in m..(n + 1)
      /\ \A m \in 1..(n + 1) : \A k \in m..(n + 1) : k = n + 1 \/ (m \in 1..n /\ k \in m..n)
  BY <1>1
<1> QED
  BY <1>4, <1>5, <1>6, <1>7 DEF more

\* Before the first trade.
LEMMA FirstSums == Sums(InitialRisk, <<>>)
<1> DEFINE none == <<>>
<1>1. none \in Seq(Int) /\ Len(none) = 0 /\ DOMAIN none = {}
  BY EmptySeq
<1>2. Growth(none, 1)[0] = 1 /\ Basis(none, 1)[0] = 1
  <2> DEFINE f == [i \in DOMAIN none |-> Scale + none[i]]
             g == [i \in DOMAIN none |-> Scale]
  <2>1. f \in Seq(Int) /\ Len(f) = 0 /\ g \in Seq(Int) /\ Len(g) = 0
    BY <1>1, ScaleIs, Factors
  <2> HIDE DEF f, g
  <2>2. Compounded(1, f)[0] = 1 /\ Compounded(1, g)[0] = 1
    <3>1. 1 \in Nat \ {0} /\ 0 \in 0..0 /\ 0 < 1
      OBVIOUS
    <3> QED
      BY <2>1, <3>1, Compounding
  <2> QED
    BY <2>2 DEF Growth, Basis, f, g
<1>3. ~LostAFifth(none) /\ ~LostFive(none)
  BY <1>1 DEF LostAFifth, LostFive
<1>4. /\ Streak(none, 1) /\ Since(none, 1) = {}
  BY <1>1 DEF Streak, Since
<1>5. Cardinality(Since(none, 1)) = 0
  BY <1>4, FS_EmptySet
<1> HIDE DEF none
<1>6. 0 + 1 = 1 /\ 1 * 1 = 1 /\ \A j \in 0..0 : j = 0
  OBVIOUS
<1> QED
  BY <1>1, <1>2, <1>3, <1>4, <1>5, <1>6 DEF Sums, InitialRisk, none

\* The streak of losses after one more return.
LEMMA StreakGrows ==
  ASSUME NEW returns \in Seq(Int), NEW ret \in Int,
         NEW s \in 1..(Len(returns) + 1), Streak(returns, s)
  PROVE  LET more == Append(returns, ret)
             lost == Cardinality(Since(returns, s))
             losses == CASE ret < 0 -> lost + 1 [] ret > 0 -> 0 [] OTHER -> lost
         IN /\ lost \in Nat /\ losses \in Nat
            /\ \E t \in 1..(Len(returns) + 2) : /\ Streak(more, t)
                                                /\ losses = Cardinality(Since(more, t))
<1> DEFINE more == Append(returns, ret)
           n == Len(returns)
           old == Since(returns, s)
           lost == Cardinality(old)
           losses == CASE ret < 0 -> lost + 1 [] ret > 0 -> 0 [] OTHER -> lost
<1>1. /\ n \in Nat /\ more \in Seq(Int) /\ Len(more) = n + 1
      /\ \A i \in 1..n : more[i] = returns[i] /\ returns[i] \in Int
      /\ more[n + 1] = ret /\ s \in 1..(n + 1)
  BY AppendProperties, LenProperties, ElementOfSeq
<1>2. /\ s > 1 => returns[s - 1] > 0
      /\ \A i \in s..n : returns[i] <= 0
      /\ old = {i \in s..n : returns[i] < 0}
  BY DEF Streak, Since
<1> HIDE DEF more, n, old
<1>3. IsFiniteSet(old) /\ lost \in Nat /\ n + 1 \notin old
  <2>1. IsFiniteSet(s..n)
    BY <1>1, FS_Interval
  <2>2. old \subseteq s..n /\ n + 1 \notin s..n
    BY <1>1, <1>2
  <2> QED
    BY <2>1, <2>2, FS_Subset, FS_CardinalityType
<1>4. losses \in Nat
  BY <1>3
<1>5. CASE ret > 0
  <2>1. Streak(more, n + 2)
    BY <1>1, <1>5 DEF Streak
  <2>2. Since(more, n + 2) = {}
    BY <1>1 DEF Since
  <2>3. losses = Cardinality(Since(more, n + 2))
    <3>1. ~(ret < 0) /\ losses = 0
      BY <1>5
    <3>2. Cardinality(Since(more, n + 2)) = 0
      BY <2>2, FS_EmptySet
    <3> QED
      BY <3>1, <3>2
  <2>4. n + 2 \in 1..(n + 2)
    BY <1>1
  <2> QED
    BY <1>3, <1>4, <2>1, <2>3, <2>4 DEF more, n, old
<1>6. CASE ~(ret > 0)
  <2>1. ret <= 0 /\ s \in 1..(n + 2) /\ s \in 1..((n + 1) + 1)
    BY <1>1, <1>6
  <2>2. Streak(more, s)
    <3>1. s > 1 => s - 1 \in 1..n
      BY <1>1
    <3>2. s > 1 => more[s - 1] > 0
      BY <1>1, <1>2, <3>1
    <3>3. ASSUME NEW i \in s..(n + 1) PROVE more[i] <= 0
      <4>1. CASE i = n + 1
        BY <1>1, <2>1, <4>1
      <4>2. CASE i # n + 1
        <5>1. i \in s..n /\ i \in 1..n
          BY <1>1, <4>2
        <5> QED
          BY <1>1, <1>2, <5>1
      <4> QED
        BY <4>1, <4>2
    <3> QED
      BY <1>1, <2>1, <3>2, <3>3 DEF Streak
  <2>3. Since(more, s) = IF ret < 0 THEN old \cup {n + 1} ELSE old
    <3>1. Since(more, s) = {i \in s..(n + 1) : more[i] < 0}
      BY <1>1 DEF Since
    <3>2. ASSUME NEW i
          PROVE  i \in Since(more, s) <=> (i \in old \/ (i = n + 1 /\ ret < 0))
      <4>1. i \in s..(n + 1) <=> i \in s..n \/ i = n + 1
        BY <1>1
      <4>2. i \in s..n => i \in 1..n
        BY <1>1
      <4>3. n + 1 \notin s..n
        BY <1>1
      <4> QED
        BY <1>1, <1>2, <3>1, <4>1, <4>2, <4>3
    <3> QED
      BY <3>2
  <2>4. losses = Cardinality(Since(more, s))
    <3>1. Cardinality(old \cup {n + 1}) = lost + 1
      BY <1>3, FS_AddElement
    <3>2. losses = IF ret < 0 THEN lost + 1 ELSE lost
      BY <1>6, <2>1
    <3> QED
      BY <2>3, <3>1, <3>2
  <2> QED
    BY <1>3, <1>4, <2>1, <2>2, <2>4 DEF more, n, old
<1> QED
  BY <1>5, <1>6

\* Five losses in the streak are five losses with no winner in between.
LEMMA StreakTells ==
  ASSUME NEW returns \in Seq(Int), NEW s \in 1..(Len(returns) + 1), Streak(returns, s),
         Len(returns) > 0
  PROVE  FiveNow(returns) <=> Cardinality(Since(returns, s)) >= 5
<1> DEFINE n == Len(returns)
<1>1. n \in Nat /\ n > 0 /\ s \in 1..(n + 1) /\ \A i \in 1..n : returns[i] \in Int
  BY LenProperties, ElementOfSeq
<1>2. /\ s > 1 => returns[s - 1] > 0
      /\ \A i \in s..n : returns[i] <= 0
  BY DEF Streak
<1>3. \A m : Since(returns, m) = {i \in m..n : returns[i] < 0}
  BY DEF Since
<1>4. FiveNow(returns) <=> \E m \in 1..n : /\ \A i \in m..n : returns[i] <= 0
                                           /\ Cardinality(Since(returns, m)) >= 5
  BY DEF FiveNow
<1> HIDE DEF n
<1>5. IsFiniteSet(Since(returns, s)) /\ Cardinality(Since(returns, s)) \in Nat
  <2>1. IsFiniteSet(s..n)
    BY <1>1, FS_Interval
  <2>2. Since(returns, s) \subseteq s..n
    BY <1>3
  <2> QED
    BY <2>1, <2>2, FS_Subset, FS_CardinalityType
<1>6. ASSUME NEW m \in 1..n, \A i \in m..n : returns[i] <= 0,
             Cardinality(Since(returns, m)) >= 5
      PROVE  Cardinality(Since(returns, s)) >= 5
  <2>1. s <= m
    <3>1. SUFFICES ASSUME m < s PROVE FALSE
      BY <1>1
    <3>2. s - 1 \in m..n /\ s > 1 /\ s - 1 \in 1..n
      BY <1>1, <3>1
    <3> QED
      BY <1>1, <1>2, <1>6, <3>2
  <2>2. Since(returns, m) \subseteq Since(returns, s)
    BY <1>1, <1>3, <2>1
  <2>3. /\ Cardinality(Since(returns, m)) <= Cardinality(Since(returns, s))
        /\ Cardinality(Since(returns, m)) \in Nat
    BY <1>5, <2>2, FS_Subset, FS_CardinalityType
  <2> QED
    BY <1>5, <1>6, <2>3
<1>7. ASSUME Cardinality(Since(returns, s)) >= 5
      PROVE  s \in 1..n
  <2>1. SUFFICES ASSUME s = n + 1 PROVE FALSE
    BY <1>1
  <2>2. Since(returns, s) = {}
    BY <1>1, <1>3, <2>1
  <2>3. Cardinality(Since(returns, s)) = 0
    BY <2>2, FS_EmptySet
  <2> QED
    BY <1>7, <2>3
<1> QED
  BY <1>2, <1>4, <1>6, <1>7

\* A fall of a fifth from the peak is one from some earlier point, where no equity before
\* was nothing: equity E, peak P over the worths W(j) of the units, growths G and bases B.
Falling(n, E, G, B, equity, peak) ==
  /\ n \in Nat /\ E \in [0..n -> Nat] /\ G \in [1..(n + 1) -> Nat]
  /\ B \in [1..(n + 1) -> Nat] /\ equity \in Nat /\ peak \in Nat
  /\ \A m \in 1..(n + 1) : E[m - 1] > 0 /\ equity = E[m - 1] * G[m]
  /\ E[0] = 1
  /\ \A j \in 0..n : E[j] * B[j + 1] <= peak
  /\ equity <= peak
  /\ peak = equity \/ \E j \in 0..n : peak = E[j] * B[j + 1]

LEMMA FallFromThePeak ==
  ASSUME NEW n, NEW E, NEW G, NEW B, NEW equity, NEW peak, Falling(n, E, G, B, equity, peak)
  PROVE  5 * (peak - equity) >= peak <=> \E m \in 1..(n + 1) : 5 * G[m] <= 4 * B[m]
<1>0. /\ n \in Nat /\ E \in [0..n -> Nat] /\ G \in [1..(n + 1) -> Nat]
      /\ B \in [1..(n + 1) -> Nat] /\ equity \in Nat /\ peak \in Nat
      /\ \A m \in 1..(n + 1) : E[m - 1] > 0 /\ equity = E[m - 1] * G[m]
      /\ E[0] = 1
      /\ \A j \in 0..n : E[j] * B[j + 1] <= peak
      /\ equity <= peak
      /\ peak = equity \/ \E j \in 0..n : peak = E[j] * B[j + 1]
  BY DEF Falling
<1>1. 5 * (peak - equity) >= peak <=> 5 * equity <= 4 * peak
  BY <1>0
<1>2. ASSUME NEW m \in 1..(n + 1)
      PROVE  /\ m - 1 \in 0..n /\ (m - 1) + 1 = m
             /\ E[m - 1] \in Nat \ {0} /\ G[m] \in Nat /\ B[m] \in Nat
             /\ E[m - 1] * B[m] \in Nat /\ E[m - 1] * B[m] <= peak
             /\ 5 * equity <= 4 * (E[m - 1] * B[m]) <=> 5 * G[m] <= 4 * B[m]
  <2>1. m - 1 \in 0..n /\ (m - 1) + 1 = m
    BY <1>0
  <2> DEFINE e == E[m - 1]
             g == G[m]
             b == B[m]
  <2>2. e \in Nat \ {0} /\ g \in Nat /\ b \in Nat /\ equity = e * g /\ e * b <= peak
    <3>1. E[m - 1] * B[(m - 1) + 1] <= peak
      BY <1>0, <2>1
    <3> QED
      BY <1>0, <2>1, <3>1
  <2> HIDE DEF e, g, b
  <2>3. e * b \in Nat
    BY <2>2
  <2>4. 5 * (e * g) <= 4 * (e * b) <=> 5 * g <= 4 * b
    <3> DEFINE x == 4 * b - 5 * g
    <3>1. x \in Int /\ 4 * (e * b) - 5 * (e * g) = e * x
      BY <2>2
    <3>2. 5 * g <= 4 * b <=> x >= 0
      BY <2>2
    <3>3. e * g \in Nat /\ e * b \in Nat
      BY <2>2
    <3>4. e * x >= 0 <=> x >= 0
      <4> HIDE DEF x
      <4>1. CASE x >= 0
        <5>1. e * x \in Nat
          BY <2>2, <3>1, <4>1
        <5> QED
          BY <4>1, <5>1
      <4>2. CASE x < 0
        <5> DEFINE y == -x
        <5>1. y \in Nat \ {0} /\ x = -y
          BY <3>1, <4>2
        <5> HIDE DEF y
        <5>2. e * y \in Nat \ {0} /\ e * x = -(e * y)
          BY <2>2, <5>1
        <5> DEFINE u == e * x
                   v == e * y
        <5>3. v \in Nat \ {0} /\ u = -v
          BY <5>2
        <5> HIDE DEF u, v
        <5>4. ~(u >= 0)
          BY <5>3
        <5> QED
          BY <3>1, <4>2, <5>4 DEF u
      <4> QED
        BY <3>1, <4>1, <4>2
    <3>5. 5 * (e * g) <= 4 * (e * b) <=> e * x >= 0
      <4> DEFINE u == e * g
                 v == e * b
                 w == e * x
      <4>1. u \in Nat /\ v \in Nat /\ w = 4 * v - 5 * u
        BY <3>1, <3>3
      <4> HIDE DEF u, v, w
      <4>2. 5 * u <= 4 * v <=> w >= 0
        BY <4>1
      <4> QED
        BY <4>2 DEF u, v, w
    <3> QED
      BY <3>2, <3>4, <3>5
  <2> QED
    BY <1>0, <2>1, <2>2, <2>3, <2>4 DEF e, g, b
<1>3. ASSUME NEW m \in 1..(n + 1), 5 * G[m] <= 4 * B[m]
      PROVE  5 * equity <= 4 * peak
  <2> DEFINE w == E[m - 1] * B[m]
  <2>1. w \in Nat /\ w <= peak /\ 5 * equity <= 4 * w
    BY <1>2, <1>3
  <2> HIDE DEF w
  <2> QED
    BY <1>0, <2>1
<1>4. ASSUME 5 * equity <= 4 * peak
      PROVE  \E m \in 1..(n + 1) : 5 * G[m] <= 4 * B[m]
  <2>1. CASE peak = equity
    <3>1. equity = 0
      BY <1>0, <1>4, <2>1
    <3>2. 1 \in 1..(n + 1) /\ 1 - 1 = 0
      BY <1>0
    <3>3. E[1 - 1] * B[1] \in Nat /\ 5 * equity <= 4 * (E[1 - 1] * B[1])
      <4> DEFINE w == E[1 - 1] * B[1]
      <4>1. w \in Nat
        BY <1>2, <3>2
      <4> HIDE DEF w
      <4>2. 5 * equity <= 4 * w
        BY <3>1, <4>1
      <4> QED
        BY <4>1, <4>2 DEF w
    <3> QED
      BY <1>2, <3>2, <3>3
  <2>2. CASE \E j \in 0..n : peak = E[j] * B[j + 1]
    <3>1. PICK j \in 0..n : peak = E[j] * B[j + 1]
      BY <2>2
    <3>2. j + 1 \in 1..(n + 1) /\ (j + 1) - 1 = j
      BY <1>0
    <3>3. 5 * equity <= 4 * (E[(j + 1) - 1] * B[j + 1])
      BY <1>4, <3>1, <3>2
    <3> QED
      BY <1>2, <3>2, <3>3
  <2> QED
    BY <1>0, <2>1, <2>2
<1> QED
  BY <1>1, <1>3, <1>4

\* settle_risk keeps the sums of the history.
LEMMA SumsKept ==
  ASSUME NEW returns \in Seq(Int), NEW ret \in Int, NEW account \in RiskState,
         account.peak_equity \in Nat, Sums(account, returns)
  PROVE  Sums(SettleRisk(account, ret), Append(returns, ret))
<1> DEFINE more == Append(returns, ret)
           n == Len(returns)
           after == SettleRisk(account, ret)
           E == [k \in 0..n |-> Growth(returns, 1)[k]]
           G == [m \in 1..(n + 1) |-> Growth(more, m)[n + 1]]
           B == [m \in 1..(n + 1) |-> Basis(more, m)[n + 1]]
           worth(j) == E[j] * Basis(returns, j + 1)[n]
           equity == Larger(0, account.equity * (Scale + ret))
           peak == Larger(account.peak_equity * Scale, equity)
           lost == account.consecutive_losses
           losses == CASE ret < 0 -> lost + 1 [] ret > 0 -> 0 [] OTHER -> lost
<1>1. /\ n \in Nat /\ more \in Seq(Int) /\ Len(more) = n + 1
      /\ \A m \in 1..(n + 2) : \A k \in 0..n :
           /\ Growth(more, m)[k] = Growth(returns, m)[k] /\ Growth(returns, m)[k] \in Nat
           /\ Basis(more, m)[k] = Basis(returns, m)[k] /\ Basis(returns, m)[k] \in Nat \ {0}
      /\ \A m \in 1..(n + 1) :
           /\ Growth(more, m)[n + 1] = Larger(0, Growth(returns, m)[n] * (Scale + ret))
           /\ Growth(more, m)[n + 1] \in Nat
           /\ Basis(more, m)[n + 1] = Basis(returns, m)[n] * Scale
           /\ Growth(more, 1)[n + 1] = Growth(returns, 1)[m - 1] * Growth(more, m)[n + 1]
      /\ Basis(more, n + 2)[n + 1] = 1
  BY OneMoreReturn
<1>2. /\ after.equity = equity /\ after.peak_equity = peak /\ after.consecutive_losses = losses
      /\ after.entries_paused <=> account.entries_paused \/ 5 * (peak - equity) >= peak
                                                         \/ losses >= 5
  BY DEF SettleRisk
<1>3. Scale \in Nat \ {0}
  BY ScaleIs
<1> HIDE DEF more, n, after
<1>4. /\ account.equity = E[n] /\ account.equity \in Nat /\ account.peak_equity \in Nat
      /\ \E j \in 0..n : account.peak_equity = worth(j)
      /\ \A j \in 0..n : worth(j) <= account.peak_equity
  <2>1. n \in 0..n /\ \A j \in 0..n : E[j] = Growth(returns, 1)[j]
    BY <1>1
  <2> QED
    BY <2>1 DEF Sums, RiskState, n
<1>5. /\ E \in [0..n -> Nat] /\ G \in [1..(n + 1) -> Nat]
      /\ B \in [1..(n + 1) -> Nat]
      /\ \A j \in 0..n : /\ j + 1 \in 1..(n + 1) /\ Basis(returns, j + 1)[n] \in Nat
                         /\ B[j + 1] = Basis(returns, j + 1)[n] * Scale
                         /\ E[j] = Growth(returns, 1)[j] /\ E[j] = Growth(more, 1)[j]
  <2>1. /\ \A j \in 0..n : j + 1 \in 1..(n + 1)
        /\ \A m \in 1..(n + 1) : m \in 1..(n + 2) /\ n \in 0..n
        /\ 1 \in 1..(n + 2)
    BY <1>1
  <2>2. \A k \in 0..n : Growth(returns, 1)[k] \in Nat /\ Growth(more, 1)[k] = Growth(returns, 1)[k]
    BY <1>1, <2>1
  <2>3. \A m \in 1..(n + 1) : Growth(more, m)[n + 1] \in Nat
    BY <1>1
  <2>4. \A m \in 1..(n + 1) : /\ Basis(more, m)[n + 1] = Basis(returns, m)[n] * Scale
                              /\ Basis(returns, m)[n] \in Nat
    BY <1>1, <2>1
  <2>5. \A m \in 1..(n + 1) : Basis(more, m)[n + 1] \in Nat
    <3> SUFFICES ASSUME NEW m \in 1..(n + 1) PROVE Basis(more, m)[n + 1] \in Nat
      OBVIOUS
    <3> DEFINE x == Basis(returns, m)[n]
    <3>1. x \in Nat /\ Basis(more, m)[n + 1] = x * Scale
      BY <2>4
    <3> HIDE DEF x
    <3>2. x * Scale \in Nat
      BY <1>3, <3>1
    <3> QED
      BY <3>1, <3>2
  <2>6. E \in [0..n -> Nat] /\ \A j \in 0..n : E[j] = Growth(returns, 1)[j]
    BY <2>2
  <2>7. G \in [1..(n + 1) -> Nat]
    BY <2>3
  <2>8. B \in [1..(n + 1) -> Nat] /\ \A m \in 1..(n + 1) : B[m] = Basis(more, m)[n + 1]
    BY <2>5
  <2> HIDE DEF E, G, B
  <2> QED
    BY <2>1, <2>2, <2>4, <2>6, <2>7, <2>8
<1>6. /\ equity = Growth(more, 1)[n + 1] /\ equity \in Nat
      /\ \A m \in 1..(n + 1) : equity = E[m - 1] * G[m]
  <2>1. 1 \in 1..(n + 1) /\ n \in 0..n /\ \A m \in 1..(n + 1) : m - 1 \in 0..n
    BY <1>1
  <2>2. equity = Growth(more, 1)[n + 1]
    BY <1>1, <1>4, <2>1
  <2> QED
    BY <1>1, <2>1, <2>2
<1>7. E[0] = 1
  <2>1. \A f \in Seq(Int) : Compounded(1, f)[0] = 1
    <3> SUFFICES ASSUME NEW f \in Seq(Int) PROVE Compounded(1, f)[0] = 1
      OBVIOUS
    <3>1. 1 \in Nat \ {0} /\ Len(f) \in Nat /\ 0 \in 0..Len(f) /\ 0 < 1
      BY LenProperties
    <3> QED
      BY <3>1, Compounding
  <2>2. [i \in DOMAIN returns |-> Scale + returns[i]] \in Seq(Int)
    <3>1. Scale \in Int
      BY <1>3
    <3> QED
      BY <3>1, Factors
  <2>3. Growth(returns, 1)[0] = 1
    BY <2>1, <2>2 DEF Growth
  <2> QED
    BY <1>1, <2>3
<1>8. ASSUME NEW j \in 0..n
      PROVE  /\ E[j] * B[j + 1] = worth(j) * Scale /\ worth(j) \in Nat
             /\ Growth(more, 1)[j] * Basis(more, j + 1)[n + 1] = E[j] * B[j + 1]
  <2> DEFINE x == E[j]
             y == Basis(returns, j + 1)[n]
  <2>1. x \in Nat /\ y \in Nat /\ B[j + 1] = y * Scale /\ x = Growth(more, 1)[j]
    BY <1>5
  <2>2. B[j + 1] = Basis(more, j + 1)[n + 1]
    BY <1>5
  <2> HIDE DEF x, y
  <2>3. x * (y * Scale) = (x * y) * Scale /\ x * y \in Nat
    BY <1>3, <2>1
  <2> QED
    BY <2>1, <2>2, <2>3 DEF x, y
<1>9. Growth(more, 1)[n + 1] * Basis(more, (n + 1) + 1)[n + 1] = equity
  <2>1. (n + 1) + 1 = n + 2
    BY <1>1
  <2>2. equity * 1 = equity
    BY <1>6
  <2> QED
    BY <1>1, <1>6, <2>1, <2>2
<1> HIDE DEF E, G, B, worth, equity
<1>10. /\ peak \in Nat /\ equity <= peak
       /\ \A j \in 0..n : E[j] * B[j + 1] <= peak
       /\ peak = equity \/ \E j \in 0..n : peak = E[j] * B[j + 1]
  <2> DEFINE p == account.peak_equity
             q == p * Scale
  <2>1. p \in Nat /\ q \in Nat /\ peak = Larger(q, equity)
    BY <1>3, <1>4
  <2>2. \A w \in Nat : w <= p => w * Scale <= q
    <3> SUFFICES ASSUME NEW w \in Nat, w <= p
                 PROVE  w * Scale <= q
      OBVIOUS
    <3> DEFINE d == p - w
    <3>1. d \in Nat /\ p = w + d
      BY <2>1
    <3> HIDE DEF d
    <3>2. p * Scale = w * Scale + d * Scale /\ d * Scale \in Nat /\ w * Scale \in Nat
      BY <1>3, <3>1
    <3> QED
      BY <3>2
  <2> HIDE DEF q, p, peak
  <2>3. peak \in Nat /\ equity <= peak /\ q <= peak /\ (peak = equity \/ peak = q)
    BY <1>6, <2>1 DEF Larger
  <2>4. ASSUME NEW j \in 0..n
        PROVE  E[j] * B[j + 1] <= peak
    <3> DEFINE v == E[j] * B[j + 1]
               w == worth(j)
    <3>1. w \in Nat /\ w <= p /\ v = w * Scale
      BY <1>4, <1>8 DEF p
    <3> HIDE DEF v, w
    <3>2. v <= q /\ v \in Nat
      <4>1. v <= q
        BY <2>2, <3>1
      <4>2. v \in Nat
        BY <1>3, <3>1
      <4> QED
        BY <4>1, <4>2
    <3>3. v <= peak
      BY <2>1, <2>3, <3>2
    <3> QED
      BY <3>3 DEF v
  <2>5. ASSUME peak = q
        PROVE  \E j \in 0..n : peak = E[j] * B[j + 1]
    <3>1. PICK j \in 0..n : p = worth(j)
      BY <1>4 DEF p
    <3>2. q = worth(j) * Scale
      BY <3>1 DEF q
    <3>3. E[j] * B[j + 1] = worth(j) * Scale
      BY <1>8
    <3> QED
      BY <2>5, <3>2, <3>3
  <2> QED
    BY <2>3, <2>4, <2>5
<1>11. PICK s \in 1..(n + 1) : Streak(returns, s) /\ lost = Cardinality(Since(returns, s))
  BY DEF Sums, n
<1>12. /\ lost \in Nat /\ losses \in Nat
       /\ \E t \in 1..(n + 2) : Streak(more, t) /\ losses = Cardinality(Since(more, t))
  BY <1>11, StreakGrows DEF more, n
<1> HIDE DEF peak, losses
<1>13. FiveNow(more) <=> losses >= 5
  <2>1. PICK t \in 1..(n + 2) : Streak(more, t) /\ losses = Cardinality(Since(more, t))
    BY <1>12
  <2>2. t \in 1..(Len(more) + 1) /\ Len(more) > 0
    BY <1>1
  <2>3. FiveNow(more) <=> Cardinality(Since(more, t)) >= 5
    BY <1>1, <2>1, <2>2, StreakTells
  <2> QED
    BY <2>1, <2>3
<1>14. FallsNow(more) <=> \E m \in 1..(n + 1) : 5 * G[m] <= 4 * B[m]
  BY <1>1 DEF FallsNow, G, B
<1>15. ASSUME ~LostAFifth(returns)
       PROVE  5 * (peak - equity) >= peak <=> FallsNow(more)
  <2>1. ASSUME NEW k \in 0..n
        PROVE  E[k] > 0
    <3> E[k] \in Nat
      BY <1>5
    <3>1. SUFFICES ASSUME E[k] = 0 PROVE FALSE
      OBVIOUS
    <3>2. k \in 1..n
      BY <1>7, <3>1
    <3>3. 1 \in 1..n /\ k \in 1..n /\ 1 \in 1..(n + 2)
      BY <1>1, <3>2
    <3>4. Growth(returns, 1)[k] = 0 /\ Basis(returns, 1)[k] \in Nat
      BY <1>1, <1>5, <3>1, <3>3
    <3>5. 5 * Growth(returns, 1)[k] <= 4 * Basis(returns, 1)[k]
      BY <3>4
    <3>6. n = Len(returns) /\ DOMAIN returns = 1..n
      BY LenProperties DEF n
    <3> QED
      BY <1>15, <3>3, <3>5, <3>6 DEF LostAFifth
  <2>2. \A m \in 1..(n + 1) : E[m - 1] > 0 /\ equity = E[m - 1] * G[m]
    <3>1. \A m \in 1..(n + 1) : m - 1 \in 0..n
      BY <1>1
    <3> QED
      BY <1>6, <2>1, <3>1
  <2>3. 5 * (peak - equity) >= peak <=> \E m \in 1..(n + 1) : 5 * G[m] <= 4 * B[m]
    <3>1. /\ n \in Nat /\ E \in [0..n -> Nat] /\ G \in [1..(n + 1) -> Nat]
          /\ B \in [1..(n + 1) -> Nat] /\ equity \in Nat /\ peak \in Nat
      BY <1>1, <1>5, <1>6, <1>10
    <3>2. /\ \A j \in 0..n : E[j] * B[j + 1] <= peak
          /\ equity <= peak
          /\ peak = equity \/ \E j \in 0..n : peak = E[j] * B[j + 1]
      BY <1>10
    <3>3. Falling(n, E, G, B, equity, peak)
      BY <1>7, <2>2, <3>1, <3>2 DEF Falling
    <3> QED
      BY <3>3, FallFromThePeak
  <2> QED
    BY <1>14, <2>3
<1>16. /\ LostAFifth(more) <=> LostAFifth(returns) \/ FallsNow(more)
       /\ LostFive(more) <=> LostFive(returns) \/ FiveNow(more)
  BY ExhaustedBy DEF more
<1>17. after.entries_paused <=> LostAFifth(more) \/ LostFive(more)
  <2>1. account.entries_paused <=> LostAFifth(returns) \/ LostFive(returns)
    BY DEF Sums
  <2> QED
    BY <1>2, <1>13, <1>15, <1>16, <2>1
<1>18. /\ \E j \in 0..(n + 1) : peak = Growth(more, 1)[j] * Basis(more, j + 1)[n + 1]
       /\ \A j \in 0..(n + 1) : Growth(more, 1)[j] * Basis(more, j + 1)[n + 1] <= peak
  <2>1. n + 1 \in 0..(n + 1) /\ \A j \in 0..(n + 1) : j \in 0..n \/ j = n + 1
    BY <1>1
  <2>2. \A j \in 0..n : j \in 0..(n + 1)
    BY <1>1
  <2>3. \A j \in 0..n : Growth(more, 1)[j] * Basis(more, j + 1)[n + 1] = E[j] * B[j + 1]
    BY <1>8
  <2> DEFINE V(j) == Growth(more, 1)[j] * Basis(more, j + 1)[n + 1]
             W(j) == E[j] * B[j + 1]
  <2>4. /\ \A j \in 0..n : V(j) = W(j) /\ W(j) <= peak
        /\ V(n + 1) = equity /\ equity <= peak
        /\ peak = equity \/ \E j \in 0..n : peak = W(j)
    BY <1>9, <1>10, <2>3
  <2> HIDE DEF V, W
  <2>5. /\ \E j \in 0..(n + 1) : peak = V(j)
        /\ \A j \in 0..(n + 1) : V(j) <= peak
    BY <2>1, <2>2, <2>4
  <2> QED
    BY <2>5 DEF V
<1>19. Len(more) = n + 1 /\ (n + 1) + 1 = n + 2
  BY <1>1
<1> QED
  <2>1. after.equity = Growth(more, 1)[n + 1]
    BY <1>2, <1>6
  <2>2. Sums(after, more)
    BY <1>2, <1>12, <1>17, <1>18, <1>19, <2>1 DEF Sums
  <2> QED
    BY <2>2 DEF after, more

-----------------------------------------------------------------------------
\* b is the list a of length n and x after it.
Longer(n, a, x, b) ==
  /\ n \in Nat /\ a \in Seq(Int) /\ Len(a) = n /\ x \in Int
  /\ b = [i \in 1..(n + 1) |-> b[i]]
  /\ \A i \in 1..n : b[i] = a[i]
  /\ b[n + 1] = x

LEMMA AppendIs ==
  ASSUME NEW n, NEW a, NEW x, NEW b, Longer(n, a, x, b)
  PROVE  b = Append(a, x)
<1>0. /\ n \in Nat /\ a \in Seq(Int) /\ Len(a) = n /\ x \in Int
      /\ b = [i \in 1..(n + 1) |-> b[i]]
      /\ \A i \in 1..n : b[i] = a[i]
      /\ b[n + 1] = x
  BY DEF Longer
<1> DEFINE c == Append(a, x)
<1>1. /\ n \in Nat /\ c \in Seq(Int) /\ Len(c) = n + 1
      /\ c[n + 1] = x /\ \A i \in 1..n : c[i] = a[i]
  BY <1>0, AppendProperties, LenProperties
<1>2. c = [i \in 1..(n + 1) |-> c[i]]
  BY <1>1, LenProperties
<1>3. \A i \in 1..(n + 1) : b[i] = c[i]
  <2> HIDE DEF c
  <2>1. \A i \in 1..(n + 1) : i \in 1..n \/ i = n + 1
    BY <1>1
  <2> QED
    BY <1>0, <1>1, <2>1
<1>4. b = [i \in 1..(n + 1) |-> b[i]]
  BY <1>0
<1> HIDE DEF c
<1>5. b = c
  BY <1>2, <1>3, <1>4
<1> QED
  BY <1>5 DEF c

Trade == [price : Int, net_return : Int]

LEMMA ReturnsIs ==
  ASSUME settlements \in Seq(Trade)
  PROVE  Returns \in Seq(Int) /\ Len(Returns) = Len(settlements)
<1> DEFINE n == Len(settlements)
<1>2. n \in Nat /\ DOMAIN settlements = 1..n /\ \A i \in 1..n : settlements[i].net_return \in Int
  <2>1. n \in Nat /\ DOMAIN settlements = 1..n /\ \A i \in 1..n : settlements[i] \in Trade
    BY LenProperties, ElementOfSeq
  <2> QED
    BY <2>1 DEF Trade
<1> HIDE DEF n
<1>3. Returns \in [1..n -> Int]
  BY <1>2 DEF Returns
<1>4. Returns \in Seq(Int) /\ Len(Returns) = n
  BY <1>2, <1>3
<1> QED
  BY <1>4 DEF n

LEMMA ReturnsAppend ==
  ASSUME settlements \in Seq(Trade), NEW trade \in Trade,
         settlements' = Append(settlements, trade)
  PROVE  Returns' = Append(Returns, trade.net_return)
<1> DEFINE n == Len(settlements)
           x == trade.net_return
           b == [i \in DOMAIN settlements' |-> settlements'[i].net_return]
<1>1. /\ n \in Nat /\ DOMAIN settlements = 1..n /\ DOMAIN settlements' = 1..(n + 1)
      /\ settlements'[n + 1] = trade /\ \A i \in 1..n : settlements'[i] = settlements[i]
  BY AppendProperties, LenProperties
<1>2. Returns \in Seq(Int) /\ Len(Returns) = n /\ x \in Int
  BY ReturnsIs DEF Trade
<1>3. Returns = [i \in 1..n |-> settlements[i].net_return] /\ Returns' = b
  BY <1>1 DEF Returns
<1> HIDE DEF n, x
<1>4. b = [i \in 1..(n + 1) |-> settlements'[i].net_return]
  BY <1>1
<1> HIDE DEF b
<1>5. /\ b = [i \in 1..(n + 1) |-> b[i]]
      /\ \A i \in 1..n : i \in 1..(n + 1) /\ b[i] = Returns[i]
      /\ b[n + 1] = x
  <2>1. \A i \in 1..n : i \in 1..(n + 1)
    BY <1>1
  <2>2. n + 1 \in 1..(n + 1)
    BY <1>1
  <2>3. \A i \in 1..n : b[i] = Returns[i]
    BY <1>1, <1>3, <1>4, <2>1
  <2>4. b[n + 1] = x
    BY <1>1, <1>4, <2>2 DEF x
  <2>5. b = [i \in 1..(n + 1) |-> b[i]]
    BY <1>4
  <2> QED
    BY <2>1, <2>3, <2>4, <2>5
<1>6. b = Append(Returns, x)
  <2>1. Longer(n, Returns, x, b)
    BY <1>1, <1>2, <1>5 DEF Longer
  <2> QED
    BY <2>1, AppendIs
<1> QED
  BY <1>3, <1>6 DEF x

LEMMA SettleSums ==
  ASSUME IInv, IInv', Sums(risk, Returns), NEW sig, NEW funding, Settle(sig, funding)
  PROVE  Sums(risk, Returns)'
<1>1. settlements \in Seq(Trade) /\ settlements' \in Seq(Trade) /\ risk \in RiskState
  BY DEF IInv, TypeOK, Trade
<1>2. CASE UNCHANGED <<risk, settlements>>
  <2>1. Returns' = Returns
    BY <1>2 DEF Returns
  <2> QED
    BY <1>2, <2>1
<1>3. ASSUME NEW ret, NEW price, risk' = SettleRisk(risk, ret),
             settlements' = Append(settlements, [price |-> price, net_return |-> ret])
      PROVE  Sums(risk, Returns)'
  <2> DEFINE trade == [price |-> price, net_return |-> ret]
  <2>1. trade \in Trade
    <3>1. Append(settlements, trade) \in Seq(Trade)
      BY <1>1, <1>3
    <3> DEFINE n == Len(settlements)
               more == Append(settlements, trade)
    <3>2. n \in Nat /\ DOMAIN settlements = 1..n
      BY <1>1, LenProperties
    <3>3. more = [i \in 1..(n + 1) |-> IF i \in 1..n THEN settlements[i] ELSE trade]
      BY <1>1, <3>2
    <3>4. n + 1 \in 1..(n + 1) /\ n + 1 \notin 1..n
      BY <3>2
    <3>5. more[n + 1] = trade /\ DOMAIN more = 1..(n + 1)
      <4> HIDE DEF n, trade
      <4> QED
        BY <3>3, <3>4
    <3>6. Len(more) = n + 1
      <4> HIDE DEF trade
      <4> QED
        BY <3>1, <3>2, <3>5, LenProperties
    <3> HIDE DEF more, trade, n
    <3> QED
      BY <3>1, <3>4, <3>5, <3>6, ElementOfSeq DEF more
  <2>2. ret \in Int
    BY <2>1 DEF Trade
  <2>3. Returns \in Seq(Int)
    BY <1>1, ReturnsIs
  <2>4. Returns' = Append(Returns, ret)
    <3>1. trade.net_return = ret
      OBVIOUS
    <3> HIDE DEF trade
    <3>2. settlements' = Append(settlements, trade)
      BY <1>3 DEF trade
    <3> QED
      BY <1>1, <2>1, <3>1, <3>2, ReturnsAppend
  <2>5. Sums(SettleRisk(risk, ret), Append(Returns, ret))
    <3>1. risk.peak_equity \in Nat
      BY <1>1 DEF RiskState
    <3> QED
      BY <1>1, <2>2, <2>3, <3>1, SumsKept
  <2> QED
    BY <1>3, <2>4, <2>5
<1>4. CASE SettleTrade(sig, funding)
  BY <1>2, <1>3, <1>4 DEF SettleTrade
<1> QED
  BY <1>2, <1>4 DEF Settle

LEMMA InitSums == Init => Sums(risk, Returns)
<1> SUFFICES ASSUME Init PROVE Sums(risk, Returns)
  OBVIOUS
<1>1. Returns = <<>> /\ risk = InitialRisk
  BY EmptySeq DEF Init, Returns
<1> QED
  BY <1>1, FirstSums

LEMMA NextSums == IInv /\ IInv' /\ Sums(risk, Returns) /\ [Next]_vars => Sums(risk, Returns)'
<1> SUFFICES ASSUME IInv, IInv', Sums(risk, Returns), [Next]_vars
             PROVE  Sums(risk, Returns)'
  OBVIOUS
<1>1. CASE UNCHANGED <<risk, settlements>>
  <2>1. Returns' = Returns
    BY <1>1 DEF Returns
  <2> QED
    BY <1>1, <2>1
<1>2. ASSUME NEW shape \in Shapes, NEW funding \in FundingPayments, Observe(shape, funding)
      PROVE  Sums(risk, Returns)'
  <2>1. UNCHANGED <<risk, settlements>> \/ \E sig : Settle(sig, funding)
    BY <1>2 DEF Observe, position
  <2> QED
    BY <1>1, <2>1, SettleSums
<1>3. ASSUME NEW price \in ExitPrices, NEW funding \in FundingPayments, RuleExit(price, funding)
      PROVE  Sums(risk, Returns)'
  <2>1. UNCHANGED <<risk, settlements>> \/ \E sig : Settle(sig, funding)
    BY <1>3 DEF RuleExit, position
  <2> QED
    BY <1>1, <2>1, SettleSums
<1>4. NextInstant \/ ManageStop \/ ExternalEntry \/ EntryIntent \/ UNCHANGED vars
        => UNCHANGED <<risk, settlements>>
  BY DEF NextInstant, ManageStop, ExternalEntry, EntryIntent, vars, position
<1> QED
  BY <1>1, <1>2, <1>3, <1>4 DEF Next

\* What settle_risk keeps is what the whole history of returns says: the equity is the
\* product of the returns, the peak its highest value so far on the same scale, and the
\* account is paused exactly when it is exhausted.
THEOREM AccountSumsUp == Spec => []Sums(risk, Returns)
<1>1. IInv /\ IInv' /\ Sums(risk, Returns) /\ [Next]_vars => Sums(risk, Returns)'
  BY NextSums
<1> QED
  BY <1>1, InitSums, CycleInvariance, PTL DEF Spec

\* Every intent is published exactly when the history of signals, settlements, entries
\* and of the author's other strategies allows it.
THEOREM EntriesEarned == Spec => EntriesAreEarned
<1>1. Sums(risk, Returns) => (risk.entries_paused <=> Exhausted)
  BY DEF Sums, Exhausted
<1>2. Sums(risk, Returns) /\ [intents' # intents /\ outcome' \in Refusals \cup {"published"}
               => ((outcome' = "published")
                     <=> active = <<>> /\ ~risk.entries_paused /\ QuotasAllow)]_vars
        => [intents' # intents /\ outcome' \in Refusals \cup {"published"}
               => ((outcome' = "published") <=> Earned)]_vars
  BY <1>1 DEF Earned
<1> QED
  BY <1>2, AccountSumsUp, EntriesHaveRoom, PTL DEF EntriesAreEarned
=============================================================================
