-------------------------- MODULE PortfolioProofs --------------------------
(***************************************************************************)
(* Theorems about PortfolioRun, RotationRun and DominanceRun, for any      *)
(* pool, steps, minimums, costs, capital, prices and number of days: cash  *)
(* is never borrowed, every snapshot is what its fills replay to, every    *)
(* rebalance lands where steps, minimums and cash let it, and the two      *)
(* strategies keep their rules.                                            *)
(***************************************************************************)
EXTENDS RotationRun, DominanceRun, SequenceTheorems, FiniteSetTheorems, WellFoundedInduction,
        TLAPS

-----------------------------------------------------------------------------
(***************************************************************************)
(* Recursion and sums.                                                     *)
(***************************************************************************)
\* A set that holds 0, and each number whose predecessor it holds, holds all up to top.
LEMMA AllUpTo ==
  ASSUME NEW top \in Nat, NEW S, 0 \in S, \A n \in 1..top : n - 1 \in S => n \in S
  PROVE  \A n \in 0..top : n \in S
<1> DEFINE R == {n \in 0..top : n \notin S}
<1>1. SUFFICES ASSUME R # {} PROVE FALSE OBVIOUS
<1>2. R \subseteq Nat OBVIOUS
<1>3. PICK n \in R : \A k \in R : ~(k < n)
  <2> HIDE DEF R
  <2>1. IsWellFoundedOn(OpToRel(<, Nat), Nat) BY NatLessThanWellFounded
  <2>2. PICK n \in R : \A k \in R : ~(<<k, n>> \in OpToRel(<, Nat))
    BY <1>1, <1>2, <2>1, WFMin
  <2>3. \A k \in R : ~(k < n) BY <1>2, <2>2 DEF OpToRel
  <2>. QED BY <2>3
<1>4. n \in 1..top /\ n \notin S BY <1>3
<1>5. n - 1 \in 0..top /\ n - 1 \notin R BY <1>3, <1>4
<1>. QED BY <1>4, <1>5

\* Steps of a typed function, one after another, from a start.
HasSteps(S, start, N, G) ==
  \E f \in [0..N -> S] : f[0] = start /\ \A n \in 1..N : f[n] = G[n][f[n - 1]]

LEMMA StepsExist ==
  ASSUME NEW S, NEW start \in S, NEW N \in Nat, NEW G \in [1..N -> [S -> S]]
  PROVE  HasSteps(S, start, N, G)
<1> DEFINE Goes(f, k) == f[0] = start /\ \A n \in 1..k : f[n] = G[n][f[n - 1]]
           Has(k) == \E f \in [0..k -> S] : Goes(f, k)
           T == {k \in 0..N : Has(k)}
<1>1. Has(0)
  <2> DEFINE g == [n \in 0..0 |-> start]
  <2>1. g \in [0..0 -> S] /\ Goes(g, 0) OBVIOUS
  <2>. QED BY <2>1
<1>2. ASSUME NEW k \in 1..N, Has(k - 1) PROVE Has(k)
  <2>1. PICK f \in [0..(k - 1) -> S] : Goes(f, k - 1) BY <1>2
  <2>2. f[k - 1] \in S /\ G[k] \in [S -> S] OBVIOUS
  <2> DEFINE v == G[k][f[k - 1]]
  <2>3. v \in S BY <2>2
  <2> HIDE DEF v
  <2> DEFINE g == [n \in 0..k |-> IF n <= k - 1 THEN f[n] ELSE v]
  <2>4. g \in [0..k -> S] BY <2>3
  <2>5. g[0] = start BY <2>1
  <2>6. ASSUME NEW n \in 1..k PROVE g[n] = G[n][g[n - 1]]
    <3>1. g[n - 1] = f[n - 1] OBVIOUS
    <3>2. CASE n <= k - 1
      <4>1. g[n] = f[n] /\ n \in 1..(k - 1) BY <3>2
      <4>2. f[n] = G[n][f[n - 1]] BY <2>1, <4>1
      <4> HIDE DEF g
      <4>. QED BY <3>1, <4>1, <4>2
    <3>3. CASE n = k
      <4>1. g[n] = v BY <3>3
      <4> HIDE DEF g
      <4>. QED BY <3>1, <3>3, <4>1 DEF v
    <3>. QED BY <3>2, <3>3
  <2> HIDE DEF g
  <2>7. Goes(g, k) BY <2>5, <2>6
  <2> HIDE DEF Goes
  <2>. QED BY <2>4, <2>7
<1>3. 0 \in T BY <1>1
<1>4. N \in T
  <2> HIDE DEF Has
  <2>1. \A k \in 1..N : k - 1 \in T => k \in T BY <1>2
  <2> HIDE DEF T
  <2>2. \A k \in 0..N : k \in T BY <1>3, <2>1, AllUpTo, Zenon
  <2>. QED BY <2>2
<1>. QED BY <1>4 DEF HasSteps

\* The sum of the first n values, given the sums before it.
SumStep(values, f, n) == IF n = 0 THEN 0 ELSE f[n - 1] + values[n]
Sums(values) == CHOOSE f : f = [n \in 0..Len(values) |-> SumStep(values, f, n)]

LEMMA TotalIsSum == ASSUME NEW values PROVE Total(values) = Sums(values)[Len(values)]
BY Zenon DEF Total, Sums, SumStep

LEMMA SumsAre ==
  ASSUME NEW values \in Seq(Int)
  PROVE  /\ Sums(values)[0] = 0
         /\ \A n \in 0..Len(values) : Sums(values)[n] \in Int
         /\ \A n \in 1..Len(values) : Sums(values)[n] = Sums(values)[n - 1] + values[n]
<1> DEFINE L == Len(values)
           G == [n \in 1..L |-> [a \in Int |-> a + values[n]]]
           f == Sums(values)
<1>1. L \in Nat /\ \A n \in 1..L : values[n] \in Int OBVIOUS
<1> HIDE DEF L
<1>2. G \in [1..L -> [Int -> Int]] BY <1>1
<1>3. PICK g \in [0..L -> Int] : g[0] = 0 /\ \A n \in 1..L : g[n] = G[n][g[n - 1]]
  <2>1. 0 \in Int OBVIOUS
  <2> HIDE DEF G
  <2>2. HasSteps(Int, 0, L, G) BY <1>1, <1>2, <2>1, StepsExist
  <2>. QED BY <2>2, Zenon DEF HasSteps
<1>4. ASSUME NEW n \in 0..L PROVE g[n] = SumStep(values, g, n)
  <2>1. CASE n = 0 BY <1>3, <2>1 DEF SumStep
  <2>2. CASE n # 0
    <3>1. n \in 1..L /\ n - 1 \in 0..L BY <1>1, <2>2
    <3>2. g[n - 1] \in Int BY <3>1
    <3>3. g[n] = g[n - 1] + values[n] BY <1>3, <3>1, <3>2
    <3>. QED BY <2>2, <3>3 DEF SumStep
  <2>. QED BY <2>1, <2>2
<1>5. g = [n \in 0..L |-> SumStep(values, g, n)] BY <1>4
<1>6. f = [n \in 0..L |-> SumStep(values, f, n)]
  <2>1. \E h : h = [n \in 0..Len(values) |-> SumStep(values, h, n)] BY <1>5 DEF L
  <2>. QED BY <2>1, Zenon DEF Sums, L
<1> HIDE DEF f
<1>7. \A n \in 0..L : f[n] = SumStep(values, f, n) BY <1>6
<1>8. f[0] = 0 BY <1>1, <1>7 DEF SumStep
<1>9. \A n \in 1..L : f[n] = f[n - 1] + values[n] BY <1>1, <1>7 DEF SumStep
<1>10. \A n \in 0..L : f[n] \in Int
  <2> DEFINE T == {n \in 0..L : f[n] \in Int}
  <2>1. 0 \in T BY <1>1, <1>8
  <2>2. ASSUME NEW n \in 1..L, n - 1 \in T PROVE n \in T
    <3>1. f[n - 1] \in Int /\ f[n] = f[n - 1] + values[n] /\ values[n] \in Int
      BY <1>1, <1>9, <2>2
    <3>. QED BY <1>1, <2>2, <3>1
  <2> HIDE DEF T
  <2>3. \A n \in 0..L : n \in T BY <1>1, <2>1, <2>2, AllUpTo
  <2>. QED BY <2>3 DEF T
<1>. QED BY <1>8, <1>9, <1>10 DEF f, L

\* The sum is what any running sum comes to.
LEMMA TotalIs ==
  ASSUME NEW values \in Seq(Int), NEW f, f[0] = 0,
         \A n \in 1..Len(values) : f[n] = f[n - 1] + values[n]
  PROVE  Total(values) = f[Len(values)] /\ \A n \in 0..Len(values) : f[n] = Sums(values)[n]
<1> DEFINE L == Len(values)
           g == Sums(values)
           S == {n \in 0..L : f[n] = g[n]}
<1>1. L \in Nat OBVIOUS
<1>2. g[0] = 0 /\ \A n \in 1..L : g[n] = g[n - 1] + values[n] BY SumsAre
<1>3. \A n \in 0..L : n \in S
  <2> HIDE DEF g
  <2>1. 0 \in S BY <1>1, <1>2
  <2>2. ASSUME NEW n \in 1..L, n - 1 \in S PROVE n \in S
    <3>1. f[n - 1] = g[n - 1] /\ g[n] = g[n - 1] + values[n] BY <1>1, <1>2, <2>2
    <3>. QED BY <1>1, <2>2, <3>1
  <2> HIDE DEF S, L
  <2>. QED BY <1>1, <2>1, <2>2, AllUpTo
<1>4. \A n \in 0..L : f[n] = g[n] BY <1>3
<1>5. L \in 0..L BY <1>1
<1>6. f[L] = g[L] BY <1>4, <1>5
<1>. QED BY <1>4, <1>6, TotalIsSum

LEMMA TotalInt == ASSUME NEW values \in Seq(Int) PROVE Total(values) \in Int
<1>1. Len(values) \in 0..Len(values) OBVIOUS
<1>. QED BY <1>1, SumsAre, TotalIsSum

LEMMA TotalEmpty == Total(<<>>) = 0
<1>1. <<>> \in Seq(Int) /\ Len(<<>>) = 0 OBVIOUS
<1>. QED BY <1>1, SumsAre, TotalIsSum

\* One value more.
LEMMA TotalMore ==
  ASSUME NEW values \in Seq(Int), NEW more \in Seq(Int), Len(more) = Len(values) + 1,
         \A n \in 1..Len(values) : more[n] = values[n]
  PROVE  Total(more) = Total(values) + more[Len(values) + 1]
<1> DEFINE L == Len(values)
           v == more[L + 1]
           g == Sums(values)
           f == [n \in 0..(L + 1) |-> IF n <= L THEN g[n] ELSE g[L] + v]
<1>1. /\ L \in Nat /\ Len(more) = L + 1 /\ \A n \in 1..L : more[n] = values[n]
  OBVIOUS
<1>2. g[0] = 0 /\ \A n \in 1..L : g[n] = g[n - 1] + values[n] BY SumsAre
<1> HIDE DEF g
<1>3. f[0] = 0 /\ \A n \in 1..(L + 1) : f[n] = f[n - 1] + more[n]
  <2>1. ASSUME NEW n \in 1..(L + 1) PROVE f[n] = f[n - 1] + more[n]
    <3>1. f[n - 1] = g[n - 1] BY <1>1
    <3>2. CASE n <= L
      <4>1. n \in 1..L /\ f[n] = g[n] BY <1>1, <3>2
      <4>. QED BY <1>1, <1>2, <3>1, <4>1
    <3>3. CASE n = L + 1
      <4>1. f[n] = g[L] + v BY <1>1, <3>3
      <4>. QED BY <1>1, <3>1, <3>3, <4>1
    <3>. QED BY <1>1, <3>2, <3>3
  <2>2. 0 \in 0..(L + 1) /\ 0 <= L /\ f[0] = g[0] BY <1>1
  <2>. QED BY <1>2, <2>1, <2>2
<1>4. Total(more) = f[L + 1]
  <2> HIDE DEF f
  <2>. QED BY <1>1, <1>3, TotalIs
<1>5. f[L + 1] = g[L] + v BY <1>1
<1>. QED BY <1>4, <1>5, TotalIsSum DEF g

LEMMA AppendIs ==
  ASSUME NEW S, NEW s \in Seq(S), NEW e \in S
  PROVE  /\ Append(s, e) \in Seq(S) /\ Len(Append(s, e)) = Len(s) + 1
         /\ Append(s, e)[Len(s) + 1] = e /\ \A i \in 1..Len(s) : Append(s, e)[i] = s[i]
         /\ Len(s) \in Nat
OBVIOUS

\* A sum of natural numbers is one, and no less than any of them.
LEMMA TotalNat ==
  ASSUME NEW values \in Seq(Nat)
  PROVE  /\ Total(values) \in Nat
         /\ \A i \in 1..Len(values) : values[i] <= Total(values)
<1> DEFINE L == Len(values)
           g == Sums(values)
           S == {n \in 0..L : g[n] \in Nat /\ \A i \in 1..n : values[i] <= g[n]}
<1>1. L \in Nat /\ L \in 0..L /\ values \in Seq(Int) /\ \A n \in 1..L : values[n] \in Nat OBVIOUS
<1>2. g[0] = 0 /\ \A n \in 1..L : g[n] = g[n - 1] + values[n] BY <1>1, SumsAre
<1> HIDE DEF g
<1>3. 0 \in S BY <1>1, <1>2
<1>4. ASSUME NEW n \in 1..L, n - 1 \in S PROVE n \in S
  <2>1. g[n - 1] \in Nat /\ values[n] \in Nat /\ g[n] = g[n - 1] + values[n] BY <1>1, <1>2, <1>4
  <2>2. ASSUME NEW i \in 1..n PROVE values[i] <= g[n]
    <3>1. CASE i = n BY <2>1, <3>1
    <3>2. CASE i # n
      <4>1. i \in 1..(n - 1) /\ values[i] \in Nat BY <1>1, <3>2
      <4>2. values[i] <= g[n - 1] BY <1>4, <4>1
      <4>. QED BY <2>1, <4>1, <4>2
    <3>. QED BY <3>1, <3>2
  <2>. QED BY <1>1, <2>1, <2>2
<1>5. L \in S
  <2> HIDE DEF S, L
  <2>1. \A n \in 0..L : n \in S BY <1>1, <1>3, <1>4, AllUpTo
  <2>. QED BY <1>1, <2>1
<1>. QED BY <1>5, TotalIsSum DEF g


LEMMA ProductNat == ASSUME NEW a \in Nat, NEW b \in Nat PROVE a * b \in Nat
OBVIOUS

LEMMA ProductAtLeast == ASSUME NEW a \in Nat, a >= 1, NEW b \in Nat PROVE a * b >= b
OBVIOUS

LEMMA ProductOver ==
  ASSUME NEW a \in Int, NEW b \in Int, NEW c \in Int
  PROVE  (a - b) * c = a * c - b * c /\ a * c \in Int /\ b * c \in Int
OBVIOUS

LEMMA ProductUp ==
  ASSUME NEW a \in Int, NEW b \in Int, NEW c \in Nat \ {0}
  PROVE  /\ a <= b <=> a * c <= b * c
         /\ a < b <=> a * c < b * c
OBVIOUS

LEMMA Regroup ==
  ASSUME NEW a \in Int, NEW b \in Int, NEW c \in Int
  PROVE  (a * b) * c = a * (c * b) /\ (a * b) * c = a * (b * c) /\ (a * b) * c = (a * c) * b
OBVIOUS

LEMMA Divides ==
  ASSUME NEW a \in Nat, NEW d \in Nat \ {0}
  PROVE  a \div d \in Nat /\ (a \div d) * d <= a /\ a - (a \div d) * d < d
OBVIOUS

LEMMA PartOf ==
  ASSUME NEW a \in Nat, NEW d \in Nat \ {0} PROVE a \div d \in 0..a
<1> DEFINE k == a \div d
           x == k * d
<1>1. k \in Nat /\ x <= a /\ x \in Int BY Divides
<1>2. k * d >= k
  <2> HIDE DEF k
  <2>1. d * k >= k BY <1>1, ProductAtLeast
  <2>. QED BY <1>1, <2>1
<1> HIDE DEF k
<1>3. x >= k BY <1>2
<1> HIDE DEF x
<1>4. k \in 0..a BY <1>1, <1>3
<1>. QED BY <1>4 DEF k

-----------------------------------------------------------------------------
(***************************************************************************)
(* Whole steps, and the lots a sale leaves.                                *)
(***************************************************************************)
Whole(q, step) == \E k \in Nat : q = k * step

LEMMA WholeMinus ==
  ASSUME NEW step \in Nat \ {0}, NEW a \in Nat, NEW b \in Nat, Whole(a, step), Whole(b, step), b <= a
  PROVE  Whole(a - b, step)
<1>1. PICK j \in Nat, k \in Nat : a = j * step /\ b = k * step BY DEF Whole
<1>2. k <= j BY <1>1, ProductUp
<1>3. (j - k) * step = a - b BY <1>1, ProductOver
<1>4. j - k \in Nat BY <1>2
<1>. QED BY <1>3, <1>4 DEF Whole

LEMMA WholePlus ==
  ASSUME NEW step \in Nat \ {0}, NEW a \in Nat, NEW b \in Nat, Whole(a, step), Whole(b, step)
  PROVE  Whole(a + b, step)
<1>1. PICK j \in Nat, k \in Nat : a = j * step /\ b = k * step BY DEF Whole
<1>2. (j - (-k)) * step = j * step - (-k) * step BY ProductOver
<1>3. (-k) * step = -(k * step) OBVIOUS
<1>4. (j + k) * step = a + b
  <2> DEFINE x == j * step
             y == k * step
  <2>1. x \in Nat /\ y \in Nat /\ a = x /\ b = y BY <1>1
  <2>2. j + k = j - (-k) OBVIOUS
  <2>3. (j + k) * step = x - (-y) BY <1>2, <1>3, <2>2
  <2> HIDE DEF x, y
  <2>. QED BY <2>1, <2>3
<1>5. j + k \in Nat OBVIOUS
<1>. QED BY <1>4, <1>5, Zenon DEF Whole

\* Less than a step is nothing.
LEMMA WholeUnder ==
  ASSUME NEW step \in Nat \ {0}, NEW a \in Nat, Whole(a, step), a < step
  PROVE  a = 0
<1>1. PICK k \in Nat : a = k * step BY DEF Whole
<1>2. k >= 1 => k * step >= step BY ProductAtLeast
<1>3. k = 0 BY <1>1, <1>2
<1>. QED BY <1>1, <1>3

LEMMA FloorIs ==
  ASSUME NEW amount \in Nat, NEW unit \in Nat \ {0}, NEW step \in Nat \ {0}
  PROVE  LET q == FloorSteps(amount, unit, step)
         IN /\ q \in Nat /\ Whole(q, step)
            /\ q * unit \in Nat /\ q * unit <= amount /\ amount - q * unit < unit * step
<1> DEFINE d == unit * step
           k == amount \div d
           q == k * step
<1>1. d \in Nat \ {0}
  <2>1. d \in Nat /\ d >= step BY ProductNat, ProductAtLeast
  <2>. QED BY <2>1
<1> HIDE DEF d
<1>2. k \in Nat /\ k * d <= amount /\ amount - k * d < d BY <1>1, Divides
<1> HIDE DEF k
<1>3. q \in Nat /\ q * unit \in Nat BY <1>2, ProductNat
<1>4. q * unit = k * d BY <1>2, Regroup DEF d
<1>5. Whole(q, step) BY <1>2 DEF Whole
<1>6. FloorSteps(amount, unit, step) = q BY DEF FloorSteps, k, d
<1> HIDE DEF q
<1>. QED BY <1>2, <1>3, <1>4, <1>5, <1>6 DEF d

LotRec == [opened_at : Int, qty : Nat \ {0}, price : Nat \ {0}]
LotsOf(step) == {lot \in LotRec : Whole(lot.qty, step)}
QtysOf(lots) == [i \in DOMAIN lots |-> lots[i].qty]

LEMMA QtysAre ==
  ASSUME NEW step \in Nat \ {0}, NEW lots \in Seq(LotsOf(step))
  PROVE  /\ QtysOf(lots) \in Seq(Nat) /\ QtysOf(lots) \in Seq(Int)
         /\ Len(QtysOf(lots)) = Len(lots) /\ Len(lots) \in Nat
         /\ \A i \in 1..Len(lots) : /\ lots[i] \in LotsOf(step) /\ QtysOf(lots)[i] = lots[i].qty
                                    /\ lots[i].qty \in Nat \ {0}
         /\ Total(QtysOf(lots)) \in Nat
<1>1. /\ DOMAIN lots = 1..Len(lots) /\ Len(lots) \in Nat
      /\ \A i \in 1..Len(lots) : lots[i] \in LotsOf(step)
  OBVIOUS
<1>2. \A i \in 1..Len(lots) : lots[i].qty \in Nat \ {0} BY <1>1 DEF LotsOf, LotRec
<1>3. QtysOf(lots) \in [1..Len(lots) -> Nat] BY <1>1, <1>2 DEF QtysOf
<1>4. QtysOf(lots) \in Seq(Nat) /\ QtysOf(lots) \in Seq(Int) BY <1>1, <1>3
<1>5. Total(QtysOf(lots)) \in Nat BY <1>4, TotalNat
<1>. QED BY <1>1, <1>2, <1>3, <1>4, <1>5 DEF QtysOf

\* A lot more.
LEMMA LotMore ==
  ASSUME NEW step \in Nat \ {0}, NEW lots \in Seq(LotsOf(step)), NEW lot \in LotsOf(step)
  PROVE  /\ Append(lots, lot) \in Seq(LotsOf(step))
         /\ Total(QtysOf(Append(lots, lot))) = Total(QtysOf(lots)) + lot.qty
<1> DEFINE more == Append(lots, lot)
           S == LotsOf(step)
<1>1. /\ more \in Seq(S) /\ Len(more) = Len(lots) + 1 /\ more[Len(lots) + 1] = lot
      /\ \A i \in 1..Len(lots) : more[i] = lots[i]
      /\ Len(lots) \in Nat
  <2> HIDE DEF S
  <2>. QED BY AppendIs DEF S
<1> HIDE DEF more
<1>2. /\ QtysOf(more) \in Seq(Int) /\ QtysOf(lots) \in Seq(Int)
      /\ Len(QtysOf(more)) = Len(lots) + 1 /\ Len(QtysOf(lots)) = Len(lots)
      /\ QtysOf(more)[Len(lots) + 1] = lot.qty
      /\ \A i \in 1..Len(lots) : QtysOf(more)[i] = QtysOf(lots)[i]
  <2>1. /\ QtysOf(more) \in Seq(Int) /\ QtysOf(lots) \in Seq(Int)
        /\ Len(QtysOf(more)) = Len(more) /\ Len(QtysOf(lots)) = Len(lots)
        /\ \A i \in 1..Len(more) : QtysOf(more)[i] = more[i].qty
        /\ \A i \in 1..Len(lots) : QtysOf(lots)[i] = lots[i].qty
    BY <1>1, QtysAre
  <2>2. /\ Len(lots) + 1 \in 1..Len(more)
        /\ \A i \in 1..Len(lots) : i \in 1..Len(more)
    BY <1>1
  <2>3. QtysOf(more)[Len(lots) + 1] = lot.qty BY <1>1, <2>1, <2>2
  <2>4. \A i \in 1..Len(lots) : QtysOf(more)[i] = QtysOf(lots)[i] BY <1>1, <2>1, <2>2
  <2>. QED BY <1>1, <2>1, <2>3, <2>4
<1>3. Total(QtysOf(more)) = Total(QtysOf(lots)) + lot.qty
  <2> DEFINE a == QtysOf(lots)
             b == QtysOf(more)
  <2>1. a \in Seq(Int) /\ b \in Seq(Int) /\ Len(b) = Len(a) + 1
        /\ \A i \in 1..Len(a) : b[i] = a[i]
    BY <1>2
  <2>2. b[Len(a) + 1] = lot.qty BY <1>2
  <2> HIDE DEF a, b
  <2>3. Total(b) = Total(a) + b[Len(a) + 1] BY <2>1, TotalMore
  <2>. QED BY <2>2, <2>3 DEF a, b
<1>. QED BY <1>1, <1>3 DEF more

LEMMA NoQtys == QtysOf(<<>>) = <<>> /\ Total(QtysOf(<<>>)) = 0
<1>1. QtysOf(<<>>) = <<>> BY DEF QtysOf
<1>. QED BY <1>1, TotalEmpty

\* What the lots of whole steps come to is whole.
LEMMA WholeTotal ==
  ASSUME NEW step \in Nat \ {0}, NEW lots \in Seq(LotsOf(step))
  PROVE  Whole(Total(QtysOf(lots)), step)
<1> DEFINE q == QtysOf(lots)
           L == Len(lots)
           S == {n \in 0..L : Sums(q)[n] \in Nat /\ Whole(Sums(q)[n], step)}
<1>1. q \in Seq(Int) /\ Len(q) = L /\ L \in Nat /\ \A i \in 1..L : q[i] \in Nat /\ Whole(q[i], step)
  BY QtysAre DEF LotsOf
<1> HIDE DEF q, L
<1>2. Sums(q)[0] = 0 /\ \A n \in 1..L : Sums(q)[n] = Sums(q)[n - 1] + q[n] BY <1>1, SumsAre
<1>3. 0 \in S
  <2>1. 0 = 0 * step /\ 0 \in Nat OBVIOUS
  <2>2. Whole(0, step) BY <2>1 DEF Whole
  <2>. QED BY <1>1, <1>2, <2>2
<1>4. ASSUME NEW n \in 1..L, n - 1 \in S PROVE n \in S
  <2>1. /\ Sums(q)[n - 1] \in Nat /\ Whole(Sums(q)[n - 1], step)
        /\ q[n] \in Nat /\ Whole(q[n], step) /\ Sums(q)[n] = Sums(q)[n - 1] + q[n]
    BY <1>1, <1>2, <1>4
  <2> DEFINE x == Sums(q)[n - 1]
             y == q[n]
  <2>2. x + y \in Nat /\ Whole(x + y, step)
    <3>1. x \in Nat /\ y \in Nat /\ Whole(x, step) /\ Whole(y, step) BY <2>1
    <3> HIDE DEF x, y
    <3>. QED BY <3>1, WholePlus
  <2>3. Sums(q)[n] \in Nat /\ Whole(Sums(q)[n], step)
    <3>1. Sums(q)[n] = x + y BY <2>1
    <3> HIDE DEF x, y
    <3>. QED BY <2>2, <3>1
  <2>. QED BY <1>1, <2>3
<1>5. L \in S
  <2> HIDE DEF S
  <2>1. \A n \in 0..L : n \in S BY <1>1, <1>3, <1>4, AllUpTo
  <2>. QED BY <1>1, <2>1
<1>6. Total(q) = Sums(q)[L] BY <1>1, TotalIsSum
<1>. QED BY <1>5, <1>6 DEF q

\* Between two lots of a sale.
Taking(step) == {acc \in [left : Nat, kept : Seq(LotsOf(step))] : Whole(acc.left, step)}

LEMMA TakeIs ==
  ASSUME NEW step \in Nat \ {0}, NEW acc \in Taking(step), NEW lot \in LotsOf(step)
  PROVE  LET m == TakeFrom(acc, lot)
         IN /\ m \in Taking(step) /\ m.left <= acc.left
            /\ Total(QtysOf(m.kept)) + (acc.left - m.left) = Total(QtysOf(acc.kept)) + lot.qty
            /\ m.left > 0 => m.kept = acc.kept
<1> DEFINE take == Lesser(acc.left, lot.qty)
           rest == [lot EXCEPT !.qty = @ - take]
           m == TakeFrom(acc, lot)
<1>1. /\ acc.left \in Nat /\ Whole(acc.left, step) /\ acc.kept \in Seq(LotsOf(step))
      /\ lot \in LotRec /\ lot.qty \in Nat \ {0} /\ Whole(lot.qty, step)
  BY DEF Taking, LotsOf, LotRec
<1>2. take \in Nat /\ take <= acc.left /\ take <= lot.qty /\ (take = acc.left \/ take = lot.qty)
  BY <1>1 DEF Lesser
<1>3. Whole(take, step) BY <1>1, <1>2
<1> HIDE DEF take
<1>4. acc.left - take \in Nat /\ Whole(acc.left - take, step) BY <1>1, <1>2, <1>3, WholeMinus
<1>5. Total(QtysOf(acc.kept)) \in Nat BY <1>1, QtysAre
<1>6. CASE take = lot.qty
  <2>1. m = [left |-> acc.left - take, kept |-> acc.kept] BY <1>6 DEF TakeFrom, take
  <2>2. m.left = acc.left - take /\ m.kept = acc.kept BY <2>1
  <2>3. m \in Taking(step) BY <1>1, <1>4, <2>1 DEF Taking
  <2> HIDE DEF m
  <2>. QED BY <1>1, <1>2, <1>5, <1>6, <2>2, <2>3 DEF m
<1>7. CASE take # lot.qty
  <2>1. m = [left |-> acc.left - take, kept |-> Append(acc.kept, rest)] BY <1>7 DEF TakeFrom, take
  <2>2. lot.qty - take \in Nat \ {0} /\ Whole(lot.qty - take, step)
    <3> DEFINE x == lot.qty
    <3>1. x \in Nat /\ Whole(x, step) /\ take <= x /\ take # x BY <1>1, <1>2, <1>7
    <3> HIDE DEF x
    <3>2. x - take \in Nat \ {0} BY <1>2, <3>1
    <3>3. Whole(x - take, step) BY <1>2, <1>3, <3>1, WholeMinus
    <3>. QED BY <3>2, <3>3 DEF x
  <2>3. rest \in LotsOf(step) /\ rest.qty = lot.qty - take BY <1>1, <2>2 DEF LotsOf, LotRec
  <2> HIDE DEF rest
  <2>4. /\ Append(acc.kept, rest) \in Seq(LotsOf(step))
        /\ Total(QtysOf(Append(acc.kept, rest))) = Total(QtysOf(acc.kept)) + rest.qty
    BY <1>1, <2>3, LotMore
  <2>5. m.left = acc.left - take /\ m.kept = Append(acc.kept, rest) BY <2>1
  <2>6. m \in Taking(step)
    <3> DEFINE k == Append(acc.kept, rest)
               S == LotsOf(step)
    <3>1. k \in Seq(S) BY <2>4
    <3> HIDE DEF k, S
    <3>2. m = [left |-> acc.left - take, kept |-> k] BY <2>1 DEF k
    <3>. QED BY <1>4, <3>1, <3>2 DEF Taking, S
  <2> HIDE DEF m
  <2>7. m.left = 0 BY <1>2, <1>7, <2>5
  <2>. QED BY <1>1, <1>2, <1>5, <1>7, <2>3, <2>4, <2>5, <2>6, <2>7 DEF m
<1>. QED BY <1>6, <1>7

FifoStep(lots, qty, f, n) ==
  IF n = 0 THEN [left |-> qty, kept |-> <<>>] ELSE TakeFrom(f[n - 1], lots[n])
FifoSteps(lots, qty) == CHOOSE f : f = [n \in 0..Len(lots) |-> FifoStep(lots, qty, f, n)]

LEMMA FifoIsSteps ==
  ASSUME NEW lots, NEW qty PROVE Fifo(lots, qty) = FifoSteps(lots, qty)[Len(lots)].kept
BY Zenon DEF Fifo, FifoSteps, FifoStep

LEMMA FifoStepsAre ==
  ASSUME NEW step \in Nat \ {0}, NEW lots \in Seq(LotsOf(step)), NEW qty \in Nat, Whole(qty, step)
  PROVE  LET f == FifoSteps(lots, qty)
         IN /\ f[0] = [left |-> qty, kept |-> <<>>]
            /\ \A n \in 1..Len(lots) : f[n] = TakeFrom(f[n - 1], lots[n])
<1> DEFINE L == Len(lots)
           S == Taking(step)
           start == [left |-> qty, kept |-> <<>>]
           G == [n \in 1..L |-> [acc \in S |-> TakeFrom(acc, lots[n])]]
           f == FifoSteps(lots, qty)
<1>1. L \in Nat /\ \A n \in 1..L : lots[n] \in LotsOf(step) OBVIOUS
<1> HIDE DEF L
<1>2. start \in S BY DEF Taking
<1>3. \A n \in 1..L : \A acc \in S : TakeFrom(acc, lots[n]) \in S BY <1>1, TakeIs
<1> HIDE DEF S
<1>4. G \in [1..L -> [S -> S]] BY <1>3
<1>5. PICK g \in [0..L -> S] : g[0] = start /\ \A n \in 1..L : g[n] = G[n][g[n - 1]]
  <2> HIDE DEF G, start
  <2>1. HasSteps(S, start, L, G) BY <1>1, <1>2, <1>4, StepsExist
  <2>. QED BY <2>1, Zenon DEF HasSteps
<1>6. ASSUME NEW n \in 0..L PROVE g[n] = FifoStep(lots, qty, g, n)
  <2>1. CASE n = 0 BY <1>5, <2>1 DEF FifoStep
  <2>2. CASE n # 0
    <3>1. n \in 1..L /\ n - 1 \in 0..L BY <1>1, <2>2
    <3>2. g[n - 1] \in S BY <3>1
    <3>3. G[n][g[n - 1]] = TakeFrom(g[n - 1], lots[n]) BY <3>1, <3>2
    <3>4. g[n] = TakeFrom(g[n - 1], lots[n]) BY <1>5, <3>1, <3>3, Zenon
    <3>. QED BY <2>2, <3>4 DEF FifoStep
  <2>. QED BY <2>1, <2>2
<1>7. g = [n \in 0..L |-> FifoStep(lots, qty, g, n)] BY <1>6
<1>8. f = [n \in 0..L |-> FifoStep(lots, qty, f, n)]
  <2>1. \E h : h = [n \in 0..Len(lots) |-> FifoStep(lots, qty, h, n)] BY <1>7 DEF L
  <2>. QED BY <2>1, Zenon DEF FifoSteps, L
<1> HIDE DEF f
<1>9. \A n \in 0..L : f[n] = FifoStep(lots, qty, f, n) BY <1>8
<1>10. f[0] = start BY <1>1, <1>9 DEF FifoStep
<1>11. ASSUME NEW n \in 1..L PROVE f[n] = TakeFrom(f[n - 1], lots[n])
  <2>1. n \in 0..L /\ n # 0 BY <1>1
  <2>2. f[n] = FifoStep(lots, qty, f, n) BY <1>9, <2>1
  <2>. QED BY <2>1, <2>2 DEF FifoStep
<1>. QED BY <1>10, <1>11 DEF f, L

\* A sale of what is held leaves the rest of it.
LEMMA FifoIs ==
  ASSUME NEW step \in Nat \ {0}, NEW lots \in Seq(LotsOf(step)), NEW qty \in Nat, Whole(qty, step),
         qty <= Total(QtysOf(lots))
  PROVE  /\ Fifo(lots, qty) \in Seq(LotsOf(step))
         /\ Total(QtysOf(Fifo(lots, qty))) = Total(QtysOf(lots)) - qty
<1> DEFINE L == Len(lots)
           f == FifoSteps(lots, qty)
           q == QtysOf(lots)
           sold(n) == /\ f[n] \in Taking(step) /\ f[n].left <= qty
                      /\ Total(QtysOf(f[n].kept)) + (qty - f[n].left) = Sums(q)[n]
                      /\ f[n].left > 0 => f[n].kept = <<>>
           S == {n \in 0..L : sold(n)}
<1>1. /\ L \in Nat /\ Len(q) = L /\ q \in Seq(Int)
      /\ \A n \in 1..L : lots[n] \in LotsOf(step) /\ q[n] = lots[n].qty /\ q[n] \in Nat
  BY QtysAre
<1>2. /\ f[0] = [left |-> qty, kept |-> <<>>]
      /\ \A n \in 1..L : f[n] = TakeFrom(f[n - 1], lots[n])
  BY FifoStepsAre
<1>3. /\ Sums(q)[0] = 0 /\ \A n \in 0..L : Sums(q)[n] \in Int
      /\ \A n \in 1..L : Sums(q)[n] = Sums(q)[n - 1] + q[n]
  BY <1>1, SumsAre
<1> HIDE DEF f, q, L
<1>4. 0 \in S
  <2>1. f[0].left = qty /\ f[0].kept = <<>> /\ f[0] \in Taking(step) BY <1>2 DEF Taking
  <2>2. sold(0) BY <1>3, <2>1, NoQtys
  <2>. QED BY <1>1, <2>2
<1>5. ASSUME NEW n \in 1..L, n - 1 \in S PROVE n \in S
  <2> DEFINE a == f[n - 1]
             m == f[n]
  <2>1. sold(n - 1) BY <1>5
  <2>2. a \in Taking(step) /\ a.left \in Nat /\ a.kept \in Seq(LotsOf(step)) BY <2>1 DEF Taking
  <2>3. m = TakeFrom(a, lots[n]) BY <1>2
  <2>4. /\ m \in Taking(step) /\ m.left <= a.left
        /\ Total(QtysOf(m.kept)) + (a.left - m.left) = Total(QtysOf(a.kept)) + lots[n].qty
        /\ m.left > 0 => m.kept = a.kept
    <3> HIDE DEF a, m
    <3>1. lots[n] \in LotsOf(step) BY <1>1
    <3>. QED BY <2>2, <2>3, <3>1, TakeIs
  <2>5. m.left \in Nat /\ m.kept \in Seq(LotsOf(step)) BY <2>4 DEF Taking
  <2>6. Total(QtysOf(m.kept)) \in Nat /\ Total(QtysOf(a.kept)) \in Nat BY <2>2, <2>5, QtysAre
  <2>7. /\ a.left <= qty /\ Total(QtysOf(a.kept)) + (qty - a.left) = Sums(q)[n - 1]
        /\ a.left > 0 => a.kept = <<>>
    BY <2>1
  <2>8. Sums(q)[n] = Sums(q)[n - 1] + lots[n].qty /\ lots[n].qty \in Nat
        /\ Sums(q)[n - 1] \in Int
    <3>1. n - 1 \in 0..L BY <1>1
    <3>2. q[n] = lots[n].qty /\ q[n] \in Nat BY <1>1
    <3>3. Sums(q)[n] = Sums(q)[n - 1] + q[n] BY <1>3
    <3>4. Sums(q)[n - 1] \in Int BY <1>3, <3>1
    <3>. QED BY <3>2, <3>3, <3>4
  <2> HIDE DEF a, m
  <2> DEFINE tm == Total(QtysOf(m.kept))
             ta == Total(QtysOf(a.kept))
             sn == Sums(q)[n]
             sp == Sums(q)[n - 1]
             x == lots[n].qty
             al == a.left
             ml == m.left
  <2>9. tm + (qty - m.left) = sn
    <3>1. /\ tm \in Nat /\ ta \in Nat /\ sp \in Int /\ x \in Nat /\ al \in Nat /\ ml \in Nat
          /\ sn = sp + x /\ ta + (qty - al) = sp /\ tm + (al - ml) = ta + x
      BY <2>2, <2>4, <2>5, <2>6, <2>7, <2>8
    <3> HIDE DEF tm, ta, sn, sp, x, al, ml
    <3>2. tm + (qty - ml) = sn BY <3>1
    <3>. QED BY <3>2 DEF ml
  <2>10. m.left > 0 => m.kept = <<>> BY <2>2, <2>4, <2>5, <2>7
  <2>11. sold(n) BY <2>2, <2>4, <2>5, <2>7, <2>9, <2>10 DEF m
  <2>. QED BY <1>1, <2>11
<1>6. L \in S
  <2> HIDE DEF S
  <2>1. \A n \in 0..L : n \in S BY <1>1, <1>4, <1>5, AllUpTo
  <2>. QED BY <1>1, <2>1
<1>7. Total(q) = Sums(q)[L] BY <1>1, TotalIsSum
<1>8. /\ f[L].left \in Nat /\ f[L].kept \in Seq(LotsOf(step)) /\ f[L].left <= qty
      /\ Total(QtysOf(f[L].kept)) + (qty - f[L].left) = Total(q)
      /\ f[L].left > 0 => f[L].kept = <<>>
  BY <1>6, <1>7 DEF Taking
<1>9. Total(QtysOf(f[L].kept)) \in Nat /\ Total(q) \in Nat /\ qty <= Total(q)
  BY <1>8, QtysAre DEF q
<1>10. f[L].left = 0
  <2>1. CASE f[L].left > 0
    <3>1. Total(QtysOf(f[L].kept)) = 0 BY <1>8, <2>1, NoQtys
    <3>. QED BY <1>8, <1>9, <2>1, <3>1
  <2>. QED BY <1>8, <2>1
<1>11. Fifo(lots, qty) = f[L].kept BY FifoIsSteps DEF f, L
<1>12. Total(QtysOf(f[L].kept)) = Total(q) - qty BY <1>8, <1>9, <1>10
<1>. QED BY <1>8, <1>11, <1>12 DEF q

-----------------------------------------------------------------------------
(***************************************************************************)
(* The ledger between two orders.                                          *)
(***************************************************************************)
OrderSides == {"buy", "sell"}
Minimums == {"below_min_qty", "below_min_notional"}
Reasons == Minimums \cup {"insufficient_cash", "below_qty_step", "no_next_open"}

FillRec ==
  [ts : Int, symbol : Symbols, side : OrderSides, qty : Nat \ {0}, price : Nat \ {0},
   fee : Nat, slippage : Nat]
RejRec ==
  [decision_ts : Int, ts : Int, symbol : Symbols \cup {""}, side : OrderSides \cup {""},
   reason : Reasons]
Books ==
  [cash : Nat, lots : [Symbols -> Seq(LotRec)], fills : Seq(FillRec), rejections : Seq(RejRec)]

\* Cash is not borrowed and lots are of whole steps.
BookOK(b) == b \in Books /\ \A s \in Symbols : b.lots[s] \in Seq(LotsOf(QtyStep[s]))

LEMMA Parameters ==
  ASSUME PortfolioAssumption
  PROVE  /\ Scale \in Nat \ {0} /\ FeeRate \in Nat /\ SlippageRate \in Nat
         /\ FeeRate + SlippageRate < Scale /\ InitialCash \in Nat \ {0}
         /\ Len(Pool) \in Nat \ {0}
         /\ \A s \in Symbols : QtyStep[s] \in Nat \ {0} /\ MinQty[s] \in Nat /\ MinNotional[s] \in Nat
<1>1. /\ Len(Pool) \in 1..30 /\ QtyStep \in [Symbols -> Nat \ {0}]
      /\ MinQty \in [Symbols -> Nat] /\ MinNotional \in [Symbols -> Nat]
      /\ Scale \in Nat \ {0} /\ FeeRate \in Nat /\ SlippageRate \in Nat
      /\ FeeRate + SlippageRate < Scale /\ InitialCash \in Nat \ {0}
  BY DEF PortfolioAssumption
<1> DEFINE l == Len(Pool)
<1>2. l \in Nat \ {0}
  <2>1. l \in 1..30 BY <1>1
  <2> HIDE DEF l
  <2>. QED BY <2>1
<1>. QED BY <1>1, <1>2

LEMMA BookIs ==
  ASSUME PortfolioAssumption, NEW b, BookOK(b)
  PROVE  /\ b.cash \in Nat /\ b.lots \in [Symbols -> Seq(LotRec)]
         /\ b.fills \in Seq(FillRec) /\ b.rejections \in Seq(RejRec)
BY DEF BookOK, Books

LEMMA QuantityIs ==
  ASSUME PortfolioAssumption, NEW b, BookOK(b), NEW s \in Symbols
  PROVE  /\ Quantity(b, s) = Total(QtysOf(b.lots[s]))
         /\ Quantity(b, s) \in Nat /\ Whole(Quantity(b, s), QtyStep[s])
         /\ b.lots[s] \in Seq(LotsOf(QtyStep[s])) /\ QtyStep[s] \in Nat \ {0}
<1>1. b.lots[s] \in Seq(LotsOf(QtyStep[s])) /\ QtyStep[s] \in Nat \ {0} BY Parameters DEF BookOK
<1>2. Total(QtysOf(b.lots[s])) \in Nat /\ Whole(Total(QtysOf(b.lots[s])), QtyStep[s])
  BY <1>1, QtysAre, WholeTotal
<1>3. Quantity(b, s) = Total(QtysOf(b.lots[s])) BY DEF Quantity, QtysOf
<1>. QED BY <1>1, <1>2, <1>3

LEMMA SumOfThree ==
  ASSUME NEW a \in Int, NEW b \in Int, NEW c \in Int, NEW d \in Int
  PROVE  /\ a * (b + c + d) = b * a + a * c + a * d
         /\ a * (b - c - d) = b * a - a * c - a * d
OBVIOUS

\* What an order moves: what it costs, and what a sale brings in.
LEMMA CostsAre ==
  ASSUME PortfolioAssumption, NEW qty \in Nat, NEW price \in Nat \ {0}
  PROVE  LET gross == qty * price
         IN /\ gross \in Nat /\ gross * FeeRate \in Nat /\ gross * SlippageRate \in Nat
            /\ Scale * gross \in Nat /\ UnitCost(price) \in Nat \ {0}
            /\ qty * UnitCost(price) = Scale * gross + gross * FeeRate + gross * SlippageRate
            /\ Scale * gross - gross * FeeRate - gross * SlippageRate \in Nat
<1> DEFINE gross == qty * price
           all == Scale + FeeRate + SlippageRate
           net == Scale - FeeRate - SlippageRate
<1>1. /\ Scale \in Nat \ {0} /\ FeeRate \in Nat /\ SlippageRate \in Nat
      /\ FeeRate + SlippageRate < Scale
  BY Parameters
<1>2. all \in Nat /\ all >= 1 /\ net \in Nat BY <1>1
<1>3. gross \in Nat BY ProductNat
<1>4. gross * FeeRate \in Nat /\ gross * SlippageRate \in Nat /\ Scale * gross \in Nat
  <2> HIDE DEF gross
  <2>. QED BY <1>1, <1>3, ProductNat
<1>5. gross * all = Scale * gross + gross * FeeRate + gross * SlippageRate
  <2> HIDE DEF gross
  <2>. QED BY <1>1, <1>3, SumOfThree
<1>6. gross * net = Scale * gross - gross * FeeRate - gross * SlippageRate
  <2> HIDE DEF gross
  <2>. QED BY <1>1, <1>3, SumOfThree
<1>7. gross * net \in Nat
  <2> HIDE DEF gross, net
  <2>. QED BY <1>2, <1>3, ProductNat
<1>8. price * all \in Nat /\ price * all >= 1
  <2> HIDE DEF all
  <2>1. all * price >= price /\ all * price = price * all BY <1>2, ProductAtLeast
  <2>. QED BY <1>2, <2>1, ProductNat
<1>9. qty * (price * all) = gross * all
  <2> HIDE DEF all
  <2>. QED BY <1>2, Regroup
<1>10. UnitCost(price) = price * all BY DEF UnitCost
<1>. QED BY <1>3, <1>4, <1>5, <1>6, <1>7, <1>8, <1>9, <1>10

Charged(side, s, qty, price, at) ==
  [ts |-> at, symbol |-> s, side |-> side, qty |-> qty, price |-> price,
   fee |-> qty * price * FeeRate, slippage |-> qty * price * SlippageRate]

LEMMA SignedFlow ==
  ASSUME NEW a \in Int, NEW q \in Int, NEW p \in Int
  PROVE  /\ 1 * a * q * p = a * (q * p) /\ (-1) * a * q * p = -(a * (q * p))
OBVIOUS

LEMMA FlowIs ==
  ASSUME PortfolioAssumption, NEW side \in OrderSides, NEW s \in Symbols, NEW qty \in Nat \ {0},
         NEW price \in Nat \ {0}, NEW at \in Int
  PROVE  LET f == Charged(side, s, qty, price, at)
         IN /\ f \in FillRec
            /\ side = "buy" => CashFlow(f) = -(qty * UnitCost(price)) /\ Signed(f) = 1
            /\ side = "sell" => /\ CashFlow(f) = Scale * (qty * price) - qty * price * FeeRate
                                                   - qty * price * SlippageRate
                                /\ CashFlow(f) \in Nat /\ Signed(f) = -1
<1> DEFINE f == Charged(side, s, qty, price, at)
           gross == qty * price
           fee == gross * FeeRate
           slip == gross * SlippageRate
           paid == Scale * gross
<1>1. /\ gross \in Nat /\ fee \in Nat /\ slip \in Nat /\ paid \in Nat
      /\ qty * UnitCost(price) = paid + fee + slip /\ paid - fee - slip \in Nat
      /\ UnitCost(price) \in Nat \ {0}
  BY CostsAre
<1>2. /\ f.ts = at /\ f.symbol = s /\ f.side = side /\ f.qty = qty /\ f.price = price
      /\ f.fee = fee /\ f.slippage = slip
  BY DEF Charged
<1>3. f \in FillRec
  <2> HIDE DEF fee, slip
  <2>. QED BY <1>1 DEF Charged, FillRec, fee, slip
<1>4. 1 * Scale * qty * price = paid /\ (-1) * Scale * qty * price = -paid
  BY Parameters, SignedFlow
<1> HIDE DEF f
<1>5. ASSUME side = "buy" PROVE CashFlow(f) = -(qty * UnitCost(price)) /\ Signed(f) = 1
  <2>1. Signed(f) = 1 BY <1>2, <1>5 DEF Signed
  <2>2. CashFlow(f) = -(1 * Scale * qty * price) - fee - slip BY <1>2, <2>1 DEF CashFlow
  <2> HIDE DEF paid, fee, slip
  <2>3. CashFlow(f) = -paid - fee - slip BY <1>4, <2>2
  <2>. QED BY <1>1, <2>1, <2>3
<1>6. ASSUME side = "sell" PROVE CashFlow(f) = paid - fee - slip /\ Signed(f) = -1
  <2>1. Signed(f) = -1 BY <1>2, <1>6 DEF Signed
  <2>2. CashFlow(f) = -((-1) * Scale * qty * price) - fee - slip BY <1>2, <2>1 DEF CashFlow
  <2> HIDE DEF paid, fee, slip
  <2>3. CashFlow(f) = -(-paid) - fee - slip BY <1>4, <2>2
  <2>. QED BY <1>1, <2>1, <2>3
<1>. QED BY <1>1, <1>3, <1>5, <1>6 DEF f

\* What a fill does to a ledger.
Trades(b, m, s, f) ==
  /\ m.fills = Append(b.fills, f) /\ m.rejections = b.rejections
  /\ m.cash = b.cash + CashFlow(f)
  /\ Quantity(m, s) = Quantity(b, s) + Signed(f) * f.qty
  /\ \A z \in Symbols \ {s} : m.lots[z] = b.lots[z]

LEMMA FillIs ==
  ASSUME PortfolioAssumption, NEW b, BookOK(b), NEW side \in OrderSides, NEW s \in Symbols,
         NEW qty \in Nat \ {0}, Whole(qty, QtyStep[s]), NEW price \in Nat \ {0}, NEW at \in Int,
         side = "buy" => qty * UnitCost(price) <= b.cash,
         side = "sell" => qty <= Quantity(b, s)
  PROVE  LET m == Fill(b, side, s, qty, price, at)
         IN BookOK(m) /\ Trades(b, m, s, Charged(side, s, qty, price, at))
<1> DEFINE m == Fill(b, side, s, qty, price, at)
           f == Charged(side, s, qty, price, at)
           bought == [opened_at |-> at, qty |-> qty, price |-> price]
           lots == b.lots[s]
           after == IF side = "buy" THEN Append(lots, bought) ELSE Fifo(lots, qty)
           cash == b.cash + CashFlow(f)
           step == QtyStep[s]
           gross == qty * price
           fee == gross * FeeRate
           slip == gross * SlippageRate
           paid == Scale * gross
<1>1. /\ b.cash \in Nat /\ b.lots \in [Symbols -> Seq(LotRec)]
      /\ b.fills \in Seq(FillRec) /\ b.rejections \in Seq(RejRec)
      /\ b = [cash |-> b.cash, lots |-> b.lots, fills |-> b.fills, rejections |-> b.rejections]
  BY DEF BookOK, Books
<1>2. /\ Quantity(b, s) = Total(QtysOf(lots)) /\ Quantity(b, s) \in Nat
      /\ lots \in Seq(LotsOf(step)) /\ step \in Nat \ {0}
  BY QuantityIs
<1>3. /\ f \in FillRec
      /\ side = "buy" => CashFlow(f) = -(qty * UnitCost(price)) /\ Signed(f) = 1
      /\ side = "sell" => /\ CashFlow(f) = paid - fee - slip
                          /\ CashFlow(f) \in Nat /\ Signed(f) = -1
  BY FlowIs
<1>4. /\ gross \in Nat /\ fee \in Nat /\ slip \in Nat /\ paid \in Nat
      /\ qty * UnitCost(price) = paid + fee + slip
  BY CostsAre
<1>5. f.qty = qty BY DEF Charged
<1>6. cash \in Nat /\ cash = IF side = "buy" THEN b.cash - (paid + fee + slip)
                             ELSE b.cash + (paid - fee - slip)
  <2> DEFINE c == b.cash
             flow == CashFlow(f)
             cost == qty * UnitCost(price)
  <2>1. /\ c \in Nat /\ cost = paid + fee + slip
        /\ side = "buy" => cost <= c
        /\ side = "buy" => flow = -cost
        /\ side = "sell" => flow = paid - fee - slip /\ flow \in Nat
        /\ gross \in Nat /\ fee \in Nat /\ slip \in Nat /\ paid \in Nat
    BY <1>1, <1>3, <1>4
  <2> HIDE DEF f, paid, fee, slip, c, flow, cost
  <2>2. ASSUME side = "buy" PROVE c + flow \in Nat /\ c + flow = c - (paid + fee + slip)
    BY <2>1, <2>2
  <2>3. ASSUME side = "sell" PROVE c + flow \in Nat /\ c + flow = c + (paid - fee - slip)
    BY <2>1, <2>3
  <2>4. side = "buy" \/ (side = "sell" /\ side # "buy") BY DEF OrderSides
  <2>5. cash = c + flow BY DEF c, flow
  <2>. QED BY <2>2, <2>3, <2>4, <2>5 DEF c
<1>7. /\ after \in Seq(LotsOf(step)) /\ after \in Seq(LotRec)
      /\ Total(QtysOf(after)) = Total(QtysOf(lots)) + Signed(f) * f.qty
  <2>1. CASE side = "buy"
    <3>1. bought \in LotsOf(step) /\ bought.qty = qty BY DEF LotsOf, LotRec
    <3> HIDE DEF bought, lots, f, step
    <3>2. /\ Append(lots, bought) \in Seq(LotsOf(step))
          /\ Total(QtysOf(Append(lots, bought))) = Total(QtysOf(lots)) + qty
      BY <1>2, <3>1, LotMore
    <3>3. Signed(f) * f.qty = qty BY <1>3, <1>5, <2>1
    <3>4. after = Append(lots, bought) BY <2>1
    <3> HIDE DEF after
    <3>5. after \in Seq(LotsOf(step)) BY <3>2, <3>4
    <3>6. after \in Seq(LotRec) BY <3>5 DEF LotsOf
    <3>. QED BY <3>2, <3>3, <3>4, <3>5, <3>6
  <2>2. CASE side = "sell"
    <3> HIDE DEF lots, f, step
    <3>1. /\ Fifo(lots, qty) \in Seq(LotsOf(step))
          /\ Total(QtysOf(Fifo(lots, qty))) = Total(QtysOf(lots)) - qty
      BY <1>2, <2>2, FifoIs DEF step
    <3>2. Signed(f) * f.qty = -qty BY <1>3, <1>5, <2>2
    <3>3. after = Fifo(lots, qty) BY <2>2
    <3> HIDE DEF after
    <3>4. after \in Seq(LotsOf(step)) BY <3>1, <3>3
    <3>5. after \in Seq(LotRec) BY <3>4 DEF LotsOf
    <3>6. Total(QtysOf(lots)) \in Nat BY <1>2
    <3>. QED BY <3>1, <3>2, <3>3, <3>4, <3>5, <3>6
  <2>. QED BY <2>1, <2>2 DEF OrderSides
<1>8. m = [cash |-> cash, lots |-> [b.lots EXCEPT ![s] = after], fills |-> Append(b.fills, f),
           rejections |-> b.rejections]
  <2>1. m = [b EXCEPT !.cash = IF side = "buy" THEN @ - (paid + fee + slip)
                                ELSE @ + (paid - fee - slip),
                      !.lots[s] = IF side = "buy" THEN Append(@, bought) ELSE Fifo(@, qty),
                      !.fills = Append(@, f)]
    BY DEF Fill, Charged
  <2> DEFINE c == IF side = "buy" THEN b.cash - (paid + fee + slip)
                  ELSE b.cash + (paid - fee - slip)
             fills == Append(b.fills, f)
  <2>2. m = [b EXCEPT !.cash = c, !.lots = [b.lots EXCEPT ![s] = after], !.fills = fills]
    BY <1>1, <2>1
  <2>3. c = cash BY <1>6
  <2> HIDE DEF m, c, fills, cash, after
  <2>. QED BY <1>1, <2>2, <2>3 DEF fills
<1>9. /\ Append(b.fills, f) \in Seq(FillRec)
      /\ [b.lots EXCEPT ![s] = after] \in [Symbols -> Seq(LotRec)]
      /\ [b.lots EXCEPT ![s] = after][s] = after
      /\ \A z \in Symbols \ {s} : [b.lots EXCEPT ![s] = after][z] = b.lots[z]
  <2> HIDE DEF f, after
  <2>. QED BY <1>1, <1>3, <1>7, AppendIs
<1>10. /\ m.cash = cash /\ m.lots = [b.lots EXCEPT ![s] = after] /\ m.fills = Append(b.fills, f)
       /\ m.rejections = b.rejections
  BY <1>8
<1>11. m \in Books
  <2> DEFINE l == [b.lots EXCEPT ![s] = after]
             fills == Append(b.fills, f)
  <2>1. l \in [Symbols -> Seq(LotRec)] /\ fills \in Seq(FillRec) BY <1>9
  <2> HIDE DEF l, fills, cash, m
  <2>2. m = [cash |-> cash, lots |-> l, fills |-> fills, rejections |-> b.rejections]
    BY <1>8 DEF l, fills
  <2>. QED BY <1>1, <1>6, <2>1, <2>2 DEF Books
<1> HIDE DEF m, f, cash, after
<1>12. ASSUME NEW z \in Symbols PROVE m.lots[z] \in Seq(LotsOf(QtyStep[z]))
  <2>1. CASE z = s BY <1>7, <1>9, <1>10, <2>1
  <2>2. CASE z # s
    <3>1. m.lots[z] = b.lots[z] BY <1>9, <1>10, <2>2
    <3>. QED BY <3>1 DEF BookOK
  <2>. QED BY <2>1, <2>2
<1>13. BookOK(m) BY <1>11, <1>12 DEF BookOK
<1>14. Quantity(m, s) = Total(QtysOf(after))
  <2>1. Quantity(m, s) = Total(QtysOf(m.lots[s])) BY <1>13, QuantityIs
  <2>. QED BY <1>9, <1>10, <2>1
<1>15. Quantity(m, s) = Quantity(b, s) + Signed(f) * f.qty BY <1>2, <1>7, <1>14
<1>16. \A z \in Symbols \ {s} : m.lots[z] = b.lots[z] BY <1>9, <1>10
<1>17. Trades(b, m, s, f) BY <1>10, <1>15, <1>16 DEF Trades, cash
<1>. QED BY <1>13, <1>17 DEF m, f

-----------------------------------------------------------------------------
(***************************************************************************)
(* One order.                                                              *)
(***************************************************************************)
\* The reading goes on: what was there stays where it was.
Grown(a, b) == Len(a) <= Len(b) /\ \A i \in 1..Len(a) : b[i] = a[i]

\* A minimum kept the order from being sent.
Refused(b, at, s, side) ==
  \E i \in 1..Len(b.rejections) :
    LET r == b.rejections[i]
    IN r.ts = at /\ r.symbol = s /\ r.side = side /\ r.reason \in Minimums

LEMMA RefusedStays ==
  ASSUME NEW b, NEW m, Grown(b.rejections, m.rejections), Len(b.rejections) \in Nat,
         Len(m.rejections) \in Nat, NEW at, NEW s, NEW side, Refused(b, at, s, side)
  PROVE  Refused(m, at, s, side)
<1>1. PICK i \in 1..Len(b.rejections) :
        LET r == b.rejections[i]
        IN r.ts = at /\ r.symbol = s /\ r.side = side /\ r.reason \in Minimums
  BY DEF Refused
<1>2. i \in 1..Len(m.rejections) /\ m.rejections[i] = b.rejections[i] BY DEF Grown
<1>. QED BY <1>1, <1>2 DEF Refused

\* What an order does to the money, the lots and the fills, if anything.
Traded(b, m, s, side, at) ==
  \/ m.cash = b.cash /\ m.lots = b.lots /\ m.fills = b.fills
  \/ \E f \in FillRec :
       /\ f.ts = at /\ f.symbol = s /\ f.side = side
       /\ m.fills = Append(b.fills, f) /\ m.cash = b.cash + CashFlow(f)
       /\ Quantity(m, s) = Quantity(b, s) + Signed(f) * f.qty
       /\ \A z \in Symbols \ {s} : m.lots[z] = b.lots[z]

\* Value of one unit, in the unit of the gaps.
Unit(price) == price * Scale * Scale

LEMMA UnitIs ==
  ASSUME PortfolioAssumption, NEW price \in Nat \ {0} PROVE Unit(price) \in Nat \ {0}
<1>1. Scale \in Nat /\ Scale >= 1 BY Parameters
<1>2. price * Scale \in Nat /\ price * Scale >= 1 BY <1>1, ProductNat, ProductAtLeast
<1> DEFINE x == price * Scale
<1> HIDE DEF x
<1>3. x * Scale \in Nat /\ x * Scale >= 1 BY <1>1, <1>2, ProductNat, ProductAtLeast DEF x
<1>. QED BY <1>3 DEF Unit, x

LEMMA GapIs ==
  ASSUME PortfolioAssumption, NEW b, BookOK(b), NEW s \in Symbols, NEW nav \in Nat,
         NEW weight \in Nat, NEW price \in Nat \ {0}
  PROVE  /\ Gap(b, s, nav, weight, price) = nav * weight - Quantity(b, s) * Unit(price)
         /\ nav * weight \in Nat /\ Quantity(b, s) * Unit(price) \in Nat
         /\ Gap(b, s, nav, weight, price) \in Int
<1> DEFINE q == Quantity(b, s)
           x == price * Scale
           u == Unit(price)
           w == nav * weight
<1>1. q \in Nat /\ u \in Nat /\ Scale \in Nat /\ x \in Nat /\ w \in Nat
  BY QuantityIs, UnitIs, Parameters, ProductNat
<1> HIDE DEF q
<1>2. q * price * Scale = q * x BY <1>1, Regroup
<1>3. q * x * Scale = q * u
  <2>1. u = x * Scale BY DEF Unit
  <2> HIDE DEF x, u
  <2>. QED BY <1>1, <2>1, Regroup
<1>4. q * price * Scale * Scale = q * u BY <1>2, <1>3
<1>5. Gap(b, s, nav, weight, price) = w - q * u BY <1>4 DEF Gap, q
<1> HIDE DEF u, w
<1>6. q * u \in Nat BY <1>1, ProductNat
<1>. QED BY <1>1, <1>5, <1>6 DEF q, u, w

\* Why an order is not sent.
LEMMA RejectionIs ==
  ASSUME NEW b, NEW side, NEW s, NEW price, NEW qty \in Nat
  PROVE  LET reason == Rejection(b, side, s, price, qty)
         IN /\ reason \in Reasons \cup {"none"}
            /\ reason = "none" => qty # 0
            /\ reason # "none" /\ qty # 0 => reason \in Minimums
<1>1. CASE qty = 0 BY <1>1 DEF Rejection, Reasons
<1>2. CASE qty > 0 /\ qty < MinQty[s] BY <1>2 DEF Rejection, Reasons, Minimums
<1>3. CASE qty > 0 /\ ~(qty < MinQty[s])
  <2>1. qty # 0 BY <1>3
  <2>2. Rejection(b, side, s, price, qty)
          \in {"below_min_notional", "none"} BY <1>3 DEF Rejection
  <2>. QED BY <2>1, <2>2 DEF Reasons, Minimums
<1>. QED BY <1>1, <1>2, <1>3

\* An order that is not sent changes the rejections only.
LEMMA RejectIs ==
  ASSUME PortfolioAssumption, NEW b, BookOK(b), NEW r \in RejRec
  PROVE  LET m == [b EXCEPT !.rejections = Append(@, r)]
         IN /\ BookOK(m) /\ m.cash = b.cash /\ m.lots = b.lots /\ m.fills = b.fills
            /\ Grown(b.rejections, m.rejections)
            /\ m.rejections[Len(m.rejections)] = r /\ Len(m.rejections) \in Nat \ {0}
            /\ \A s \in Symbols : Quantity(m, s) = Quantity(b, s)
<1> DEFINE more == Append(b.rejections, r)
           m == [b EXCEPT !.rejections = more]
<1>1. /\ b.rejections \in Seq(RejRec) /\ b \in Books
      /\ \A s \in Symbols : b.lots[s] \in Seq(LotsOf(QtyStep[s]))
  BY BookIs DEF BookOK
<1>2. /\ more \in Seq(RejRec) /\ Len(more) = Len(b.rejections) + 1 /\ Len(b.rejections) \in Nat
      /\ more[Len(b.rejections) + 1] = r
      /\ \A i \in 1..Len(b.rejections) : more[i] = b.rejections[i]
  BY <1>1, AppendIs
<1> HIDE DEF more
<1>3. /\ m \in Books /\ m.cash = b.cash /\ m.lots = b.lots /\ m.fills = b.fills
      /\ m.rejections = more
  BY <1>1, <1>2 DEF Books
<1> HIDE DEF m
<1>4. BookOK(m) BY <1>1, <1>3 DEF BookOK
<1>5. Grown(b.rejections, m.rejections) BY <1>2, <1>3 DEF Grown
<1>6. m.rejections[Len(m.rejections)] = r /\ Len(m.rejections) \in Nat \ {0} BY <1>2, <1>3
<1>7. \A s \in Symbols : Quantity(m, s) = Quantity(b, s) BY <1>3 DEF Quantity
<1>. QED BY <1>3, <1>4, <1>5, <1>6, <1>7 DEF m, more

\* What an order of a book is.
OrderFor(b, side, s, weights, prices, nav) ==
  /\ PortfolioAssumption /\ BookOK(b) /\ side \in OrderSides /\ s \in Symbols
  /\ weights \in [Symbols -> 0..Scale] /\ prices \in [Symbols -> Nat \ {0}] /\ nav \in Nat

\* The quantity an order asks for, and the one it is sent with.
Wanted(b, s, weights, prices, nav) ==
  LET gap == Gap(b, s, nav, weights[s], prices[s])
  IN FloorSteps(IF gap > 0 THEN gap ELSE -gap, Unit(prices[s]), QtyStep[s])
Sent(b, side, s, weights, prices, nav) ==
  LET wanted == Wanted(b, s, weights, prices, nav)
  IN IF side = "buy" THEN Affordable(b, s, prices[s], wanted) ELSE wanted

LEMMA OrderUnfolds ==
  ASSUME NEW b, NEW side, NEW s, NEW weights, NEW prices, NEW nav, NEW decided, NEW at
  PROVE  LET gap == Gap(b, s, nav, weights[s], prices[s])
             qty == Sent(b, side, s, weights, prices, nav)
             reason == Rejection(b, side, s, prices[s], qty)
         IN Order(b, side, s, weights, prices, nav, decided, at) =
              IF (side = "buy" /\ gap <= 0) \/ (side = "sell" /\ gap >= 0) THEN b
              ELSE IF reason # "none"
              THEN [b EXCEPT !.rejections = Append(@,
                      [decision_ts |-> decided, ts |-> at, symbol |-> s, side |-> side,
                       reason |-> reason])]
              ELSE Fill(b, side, s, qty, prices[s], at)
BY Zenon DEF Order, Sent, Wanted, Unit

\* What an order is sent with: whole steps, held or paid for, and less than a step from
\* what is wanted, unless the cash pays for no other one.
LEMMA SentIs ==
  ASSUME NEW b, NEW side, NEW s, NEW weights, NEW prices, NEW nav,
         OrderFor(b, side, s, weights, prices, nav),
         LET gap == Gap(b, s, nav, weights[s], prices[s])
         IN (side = "buy" /\ gap > 0) \/ (side = "sell" /\ gap < 0)
  PROVE  LET gap == Gap(b, s, nav, weights[s], prices[s])
             unit == Unit(prices[s])
             cost == UnitCost(prices[s])
             step == QtyStep[s]
             qty == Sent(b, side, s, weights, prices, nav)
         IN /\ qty \in Nat /\ Whole(qty, step)
            /\ gap \in Int /\ qty * unit \in Nat /\ qty * cost \in Nat
            /\ side = "sell" => qty <= Quantity(b, s) /\ qty * unit <= -gap
                                /\ -gap - qty * unit < unit * step
            /\ side = "buy" => /\ qty * cost <= b.cash /\ qty * unit <= gap
                               /\ \/ gap - qty * unit < unit * step
                                  \/ b.cash - qty * cost < cost * step
<1> DEFINE gap == Gap(b, s, nav, weights[s], prices[s])
           price == prices[s]
           unit == Unit(price)
           cost == UnitCost(price)
           step == QtyStep[s]
           amount == IF gap > 0 THEN gap ELSE -gap
           wanted == Wanted(b, s, weights, prices, nav)
           qty == Sent(b, side, s, weights, prices, nav)
           q == Quantity(b, s)
           cash == b.cash
<1>1. /\ PortfolioAssumption /\ BookOK(b) /\ side \in OrderSides /\ s \in Symbols
      /\ weights[s] \in Nat /\ price \in Nat \ {0} /\ nav \in Nat
  BY DEF OrderFor
<1>2. /\ gap = nav * weights[s] - q * unit /\ nav * weights[s] \in Nat /\ q * unit \in Nat
      /\ gap \in Int
  <2> DEFINE w == weights[s]
  <2>1. w \in Nat /\ gap = Gap(b, s, nav, w, price) BY <1>1
  <2> HIDE DEF w, price, gap
  <2>2. /\ Gap(b, s, nav, w, price) = nav * w - Quantity(b, s) * Unit(price)
        /\ nav * w \in Nat /\ Quantity(b, s) * Unit(price) \in Nat
        /\ Gap(b, s, nav, w, price) \in Int
    BY <1>1, <2>1, GapIs
  <2>. QED BY <2>1, <2>2 DEF w
<1>3. unit \in Nat \ {0} /\ step \in Nat \ {0} /\ q \in Nat /\ cost \in Nat \ {0} /\ cash \in Nat
  BY <1>1, UnitIs, QuantityIs, CostsAre, BookIs
<1> HIDE DEF gap
<1>4. amount \in Nat BY <1>2
<1>5. wanted = FloorSteps(amount, unit, step) BY DEF Wanted, gap
<1> HIDE DEF amount, unit, step, cost, q, cash
<1>6. /\ wanted \in Nat /\ Whole(wanted, step) /\ wanted * unit \in Nat
      /\ wanted * unit <= amount /\ amount - wanted * unit < unit * step
  BY <1>3, <1>4, <1>5, FloorIs
<1> HIDE DEF wanted
<1>7. CASE side = "sell"
  <2>1. qty = wanted BY <1>7 DEF Sent, wanted
  <2>2. gap < 0 BY <1>7 DEF gap
  <2>3. amount = -gap BY <1>2, <2>2 DEF amount
  <2>4. wanted * unit <= q * unit BY <1>2, <1>6, <2>3
  <2>5. wanted <= q BY <1>3, <1>6, <2>4, ProductUp
  <2>6. wanted * cost \in Nat BY <1>3, <1>6, ProductNat
  <2>. QED BY <1>2, <1>6, <1>7, <2>1, <2>3, <2>5, <2>6 DEF gap, unit, step, cost, q, cash
<1>8. CASE side = "buy"
  <2> DEFINE most == FloorSteps(cash, cost, step)
  <2>1. /\ most \in Nat /\ Whole(most, step) /\ most * cost \in Nat
        /\ most * cost <= cash /\ cash - most * cost < cost * step
    BY <1>3, FloorIs
  <2>2. gap > 0 BY <1>8 DEF gap
  <2>3. amount = gap BY <2>2 DEF amount
  <2>4. qty = Lesser(wanted, most)
    BY <1>8 DEF Sent, Affordable, wanted, cash, cost, step
  <2> HIDE DEF most
  <2>5. /\ qty \in Nat /\ qty <= wanted /\ qty <= most /\ (qty = wanted \/ qty = most)
    BY <1>6, <2>1, <2>4 DEF Lesser
  <2>6. Whole(qty, step) BY <1>6, <2>1, <2>5
  <2> HIDE DEF qty
  <2>7. qty * unit \in Nat /\ qty * cost \in Nat BY <1>3, <2>5, ProductNat
  <2>8. qty * unit <= wanted * unit /\ qty * cost <= most * cost BY <1>3, <1>6, <2>1, <2>5, ProductUp
  <2>9. qty * unit <= gap /\ qty * cost <= cash
    <3> DEFINE a == qty * unit
               w == wanted * unit
               c == qty * cost
               d == most * cost
    <3>1. a \in Nat /\ w \in Nat /\ c \in Nat /\ d \in Nat /\ a <= w /\ c <= d /\ w <= gap /\ d <= cash
      BY <1>6, <2>1, <2>3, <2>7, <2>8
    <3> HIDE DEF a, w, c, d
    <3>2. a <= gap /\ c <= cash BY <1>2, <1>3, <3>1
    <3>. QED BY <3>2 DEF a, c
  <2>10. gap - qty * unit < unit * step \/ cash - qty * cost < cost * step
    <3>1. CASE qty = wanted BY <1>6, <2>3, <3>1
    <3>2. CASE qty = most BY <2>1, <3>2
    <3>. QED BY <2>5, <3>1, <3>2
  <2>. QED BY <1>2, <1>8, <2>5, <2>6, <2>7, <2>9, <2>10 DEF gap, unit, step, cost, q, cash, qty
<1>. QED BY <1>1, <1>7, <1>8 DEF OrderSides

LEMMA GapMoves ==
  ASSUME PortfolioAssumption, NEW b, BookOK(b), NEW m, BookOK(m), NEW s \in Symbols, NEW nav \in Nat,
         NEW weight \in Nat, NEW price \in Nat \ {0}, NEW d \in Int,
         Quantity(m, s) = Quantity(b, s) + d
  PROVE  Gap(m, s, nav, weight, price) = Gap(b, s, nav, weight, price) - d * Unit(price)
<1> DEFINE q == Quantity(b, s)
           u == Unit(price)
           w == nav * weight
<1>1. /\ q \in Nat /\ u \in Nat /\ w \in Nat
      /\ Gap(b, s, nav, weight, price) = w - q * u
      /\ Gap(m, s, nav, weight, price) = w - Quantity(m, s) * u
  <2>1. q \in Nat /\ u \in Nat /\ w \in Nat BY QuantityIs, UnitIs, ProductNat
  <2>2. Gap(b, s, nav, weight, price) = w - q * u BY GapIs
  <2>3. Gap(m, s, nav, weight, price) = w - Quantity(m, s) * u BY GapIs
  <2>. QED BY <2>1, <2>2, <2>3
<1>2. (q - (-d)) * u = q * u - (-d) * u /\ q * u \in Int
  <2> HIDE DEF q, u
  <2>. QED BY <1>1, ProductOver
<1>3. (-d) * u = -(d * u)
  <2> HIDE DEF u
  <2>. QED BY <1>1
<1>4. d * u \in Int
  <2> HIDE DEF u
  <2>. QED BY <1>1
<1>5. Quantity(m, s) = q - (-d) BY <1>1
<1>6. Gap(m, s, nav, weight, price) = w - (q - (-d)) * u BY <1>1, <1>5
<1> DEFINE x == q * u
           y == d * u
           n == (-d) * u
           p == (q - (-d)) * u
<1>7. /\ x \in Int /\ y \in Int /\ n = -y /\ p = x - n /\ w \in Nat
      /\ Gap(b, s, nav, weight, price) = w - x /\ Gap(m, s, nav, weight, price) = w - p
  BY <1>1, <1>2, <1>3, <1>4, <1>6
<1> HIDE DEF x, y, n, p, w
<1>8. Gap(m, s, nav, weight, price) = Gap(b, s, nav, weight, price) - y BY <1>7
<1>. QED BY <1>8 DEF y, u

\* The other side of the target is never reached, and what is left of the gap is less
\* than a step or for a reason.
Lands(b, m, side, s, weights, prices, nav, at) ==
  LET gap == Gap(b, s, nav, weights[s], prices[s])
      left == Gap(m, s, nav, weights[s], prices[s])
      step == Unit(prices[s]) * QtyStep[s]
  IN IF side = "buy"
     THEN /\ gap <= 0 => m = b
          /\ gap > 0 => /\ left >= 0
                        /\ \/ left < step
                           \/ Refused(m, at, s, side)
                           \/ m.cash < UnitCost(prices[s]) * QtyStep[s]
     ELSE /\ gap >= 0 => m = b
          /\ gap < 0 => left <= 0 /\ (-left < step \/ Refused(m, at, s, side))

Outcome(b, m, side, s, weights, prices, nav, at) ==
  /\ BookOK(m) /\ Traded(b, m, s, side, at) /\ Grown(b.rejections, m.rejections)
  /\ \A z \in Symbols \ {s} : m.lots[z] = b.lots[z]
  /\ side = "buy" => m.cash <= b.cash
  /\ Lands(b, m, side, s, weights, prices, nav, at)

LEMMA GrownSelf == ASSUME NEW a, Len(a) \in Nat PROVE Grown(a, a)
BY DEF Grown

LEMMA OrderFills ==
  ASSUME NEW b, NEW side, NEW s, NEW weights, NEW prices, NEW nav, NEW at \in Int,
         OrderFor(b, side, s, weights, prices, nav),
         LET gap == Gap(b, s, nav, weights[s], prices[s])
         IN (side = "buy" /\ gap > 0) \/ (side = "sell" /\ gap < 0),
         Sent(b, side, s, weights, prices, nav) # 0
  PROVE  Outcome(b, Fill(b, side, s, Sent(b, side, s, weights, prices, nav), prices[s], at),
                 side, s, weights, prices, nav, at)
<1> DEFINE gap == Gap(b, s, nav, weights[s], prices[s])
           w == weights[s]
           price == prices[s]
           unit == Unit(price)
           cost == UnitCost(price)
           step == QtyStep[s]
           qty == Sent(b, side, s, weights, prices, nav)
           m == Fill(b, side, s, qty, price, at)
           f == Charged(side, s, qty, price, at)
           left == Gap(m, s, nav, w, price)
           q == Quantity(b, s)
<1>1. /\ PortfolioAssumption /\ BookOK(b) /\ side \in OrderSides /\ s \in Symbols
      /\ w \in Nat /\ price \in Nat \ {0} /\ nav \in Nat
  BY DEF OrderFor
<1>2. /\ qty \in Nat \ {0} /\ Whole(qty, step)
      /\ gap \in Int /\ qty * unit \in Nat /\ qty * cost \in Nat
      /\ side = "sell" => qty <= q /\ qty * unit <= -gap /\ -gap - qty * unit < unit * step
      /\ side = "buy" => /\ qty * cost <= b.cash /\ qty * unit <= gap
                         /\ gap - qty * unit < unit * step \/ b.cash - qty * cost < cost * step
  BY SentIs
<1> HIDE DEF qty, price
<1>3. BookOK(m) /\ Trades(b, m, s, f)
  <2> HIDE DEF m, f
  <2>. QED BY <1>1, <1>2, FillIs DEF m, f
<1>4. /\ f \in FillRec
      /\ side = "buy" => CashFlow(f) = -(qty * cost) /\ Signed(f) = 1
      /\ side = "sell" => Signed(f) = -1
  BY <1>1, <1>2, FlowIs
<1>5. f.ts = at /\ f.symbol = s /\ f.side = side /\ f.qty = qty BY DEF Charged
<1> HIDE DEF m, f
<1>6. /\ m.fills = Append(b.fills, f) /\ m.rejections = b.rejections
      /\ m.cash = b.cash + CashFlow(f)
      /\ Quantity(m, s) = q + Signed(f) * f.qty
      /\ \A z \in Symbols \ {s} : m.lots[z] = b.lots[z]
  BY <1>3 DEF Trades
<1>7. Traded(b, m, s, side, at) BY <1>4, <1>5, <1>6 DEF Traded
<1>8. Grown(b.rejections, m.rejections)
  <2>1. Len(b.rejections) \in Nat BY <1>1, BookIs
  <2>. QED BY <1>6, <2>1, GrownSelf
<1>9. b.cash \in Nat /\ unit \in Nat \ {0} /\ step \in Nat \ {0} BY <1>1, BookIs, UnitIs, QuantityIs
<1>10. CASE side = "buy"
  <2>1. m.cash = b.cash - qty * cost
    <3> DEFINE c == qty * cost
               k == b.cash
    <3>1. c \in Nat /\ k \in Nat /\ m.cash = k + (-c) BY <1>2, <1>4, <1>6, <1>9, <1>10
    <3> HIDE DEF c, k
    <3>2. m.cash = k - c BY <3>1
    <3>. QED BY <3>2 DEF c, k
  <2>2. Quantity(m, s) = q + qty
    <3>1. Signed(f) * f.qty = qty BY <1>2, <1>4, <1>5, <1>10
    <3>. QED BY <1>6, <3>1
  <2>3. left = gap - qty * unit
    <3> HIDE DEF q
    <3>1. Gap(m, s, nav, w, price) = Gap(b, s, nav, w, price) - qty * Unit(price)
      BY <1>1, <1>2, <1>3, <2>2, GapMoves DEF q
    <3>. QED BY <3>1 DEF price
  <2>4. gap > 0 BY <1>10
  <2>5. /\ left >= 0 /\ m.cash <= b.cash
        /\ left < unit * step \/ m.cash < cost * step
    <3> DEFINE a == qty * unit
               c == qty * cost
               k == b.cash
               l == unit * step
               d == cost * step
    <3>1. /\ a \in Nat /\ c \in Nat /\ k \in Nat /\ gap \in Int /\ a <= gap
          /\ gap - a < l \/ k - c < d
          /\ m.cash = k - c /\ left = gap - a
      BY <1>2, <1>9, <1>10, <2>1, <2>3
    <3> HIDE DEF a, c, k, l, d, gap, left
    <3>2. left >= 0 /\ m.cash <= k /\ (left < l \/ m.cash < d) BY <3>1
    <3>. QED BY <3>2 DEF k, l, d
  <2>6. Lands(b, m, side, s, weights, prices, nav, at)
    <3>1. ~(gap <= 0) BY <1>2, <2>4
    <3> HIDE DEF left, gap
    <3>. QED BY <1>10, <2>4, <2>5, <3>1 DEF Lands, left, gap, price
  <2>. QED BY <1>3, <1>6, <1>7, <1>8, <2>5, <2>6 DEF Outcome, m, qty, price
<1>11. CASE side = "sell"
  <2>1. Quantity(m, s) = q + (-qty)
    <3>1. Signed(f) * f.qty = -qty BY <1>2, <1>4, <1>5, <1>11
    <3>. QED BY <1>6, <3>1
  <2>2. left = gap - (-qty) * unit
    <3> HIDE DEF q
    <3>1. -qty \in Int BY <1>2
    <3>2. Gap(m, s, nav, w, price) = Gap(b, s, nav, w, price) - (-qty) * Unit(price)
      BY <1>1, <1>2, <1>3, <2>1, <3>1, GapMoves DEF q
    <3>. QED BY <3>2 DEF price
  <2>3. (-qty) * unit = -(qty * unit)
    <3> HIDE DEF unit
    <3>. QED BY <1>2, <1>9
  <2>4. gap < 0 BY <1>11
  <2>5. left <= 0 /\ -left < unit * step
    <3> DEFINE a == qty * unit
               n == (-qty) * unit
               l == unit * step
    <3>1. /\ a \in Nat /\ gap \in Int /\ a <= -gap /\ -gap - a < l
          /\ n = -a /\ left = gap - n
      BY <1>2, <1>11, <2>2, <2>3
    <3> HIDE DEF a, n, l, gap, left
    <3>2. left <= 0 /\ -left < l BY <3>1
    <3>. QED BY <3>2 DEF l
  <2>6. Lands(b, m, side, s, weights, prices, nav, at)
    <3>1. ~(gap >= 0) BY <1>2, <2>4
    <3> HIDE DEF left, gap
    <3>. QED BY <1>11, <2>4, <2>5, <3>1 DEF Lands, left, gap, price
  <2>. QED BY <1>3, <1>6, <1>7, <1>8, <1>11, <2>6 DEF Outcome, m, qty, price
<1>. QED BY <1>1, <1>10, <1>11 DEF OrderSides

LEMMA OrderIs ==
  ASSUME NEW b, NEW side, NEW s, NEW weights, NEW prices, NEW nav, NEW at \in Int,
         NEW decided \in Int, OrderFor(b, side, s, weights, prices, nav)
  PROVE  Outcome(b, Order(b, side, s, weights, prices, nav, decided, at),
                 side, s, weights, prices, nav, at)
<1> DEFINE gap == Gap(b, s, nav, weights[s], prices[s])
           qty == Sent(b, side, s, weights, prices, nav)
           reason == Rejection(b, side, s, prices[s], qty)
           r == [decision_ts |-> decided, ts |-> at, symbol |-> s, side |-> side,
                 reason |-> reason]
           m == Order(b, side, s, weights, prices, nav, decided, at)
           wrongSide == (side = "buy" /\ gap <= 0) \/ (side = "sell" /\ gap >= 0)
<1>1. m = IF wrongSide THEN b
          ELSE IF reason # "none" THEN [b EXCEPT !.rejections = Append(@, r)]
          ELSE Fill(b, side, s, qty, prices[s], at)
  BY OrderUnfolds, Zenon
<1>2. /\ PortfolioAssumption /\ BookOK(b) /\ side \in OrderSides /\ s \in Symbols
      /\ weights[s] \in Nat /\ prices[s] \in Nat \ {0} /\ nav \in Nat
  BY DEF OrderFor
<1>3. gap \in Int
  <2> DEFINE w == weights[s]
             p == prices[s]
  <2>1. w \in Nat /\ p \in Nat \ {0} BY <1>2
  <2> HIDE DEF w, p
  <2>2. Gap(b, s, nav, w, p) \in Int BY <1>2, <2>1, GapIs
  <2>. QED BY <2>2 DEF w, p
<1>4. b.cash \in Nat /\ Len(b.rejections) \in Nat BY <1>2, BookIs
<1> HIDE DEF m, gap
<1>5. CASE wrongSide
  <2>1. m = b BY <1>1, <1>5
  <2>2. Traded(b, m, s, side, at) /\ Grown(b.rejections, m.rejections) BY <1>4, <2>1, GrownSelf DEF Traded
  <2>3. Lands(b, m, side, s, weights, prices, nav, at)
    <3>1. side = "buy" => ~(gap > 0) BY <1>3, <1>5
    <3>2. side # "buy" => ~(gap < 0) BY <1>2, <1>3, <1>5 DEF OrderSides
    <3>. QED BY <2>1, <3>1, <3>2 DEF Lands, gap
  <2>4. m.cash <= b.cash BY <1>4, <2>1
  <2>. QED BY <1>2, <2>1, <2>2, <2>3, <2>4 DEF Outcome, m
<1>6. CASE ~wrongSide
  <2>1. (side = "buy" /\ gap > 0) \/ (side = "sell" /\ gap < 0) BY <1>2, <1>3, <1>6 DEF OrderSides
  <2>2. qty \in Nat BY <2>1, SentIs DEF gap
  <2>3. /\ reason \in Reasons \cup {"none"}
        /\ reason = "none" => qty # 0
        /\ reason # "none" /\ qty # 0 => reason \in Minimums
    <3> HIDE DEF qty
    <3>. QED BY <2>2, RejectionIs
  <2>4. CASE reason = "none"
    <3>1. m = Fill(b, side, s, qty, prices[s], at) BY <1>1, <1>6, <2>4
    <3>2. qty # 0 BY <2>3, <2>4
    <3>3. Outcome(b, Fill(b, side, s, qty, prices[s], at), side, s, weights, prices, nav, at)
      BY <2>1, <3>2, OrderFills DEF gap
    <3>. QED BY <3>1, <3>3, Zenon DEF m
  <2>5. CASE reason # "none"
    <3>1. r \in RejRec BY <1>2, <2>3, <2>5 DEF RejRec
    <3>2. m = [b EXCEPT !.rejections = Append(@, r)] BY <1>1, <1>6, <2>5
    <3>3. r.ts = at /\ r.symbol = s /\ r.side = side /\ r.reason = reason OBVIOUS
    <3> HIDE DEF r, reason
    <3>4. /\ BookOK(m) /\ m.cash = b.cash /\ m.lots = b.lots /\ m.fills = b.fills
          /\ Grown(b.rejections, m.rejections)
          /\ m.rejections[Len(m.rejections)] = r /\ Len(m.rejections) \in Nat \ {0}
          /\ Quantity(m, s) = Quantity(b, s)
      <4>1. LET x == [b EXCEPT !.rejections = Append(@, r)]
            IN /\ BookOK(x) /\ x.cash = b.cash /\ x.lots = b.lots /\ x.fills = b.fills
               /\ Grown(b.rejections, x.rejections)
               /\ x.rejections[Len(x.rejections)] = r /\ Len(x.rejections) \in Nat \ {0}
               /\ \A z \in Symbols : Quantity(x, z) = Quantity(b, z)
        BY <1>2, <3>1, RejectIs
      <4>. QED BY <1>2, <3>2, <4>1, Zenon
    <3>5. Traded(b, m, s, side, at) BY <3>4 DEF Traded
    <3>6. Gap(m, s, nav, weights[s], prices[s]) = gap BY <3>4 DEF gap, Gap
    <3>7. qty # 0 => Refused(m, at, s, side)
      <4>1. ASSUME qty # 0 PROVE Refused(m, at, s, side)
        <5> DEFINE n == Len(m.rejections)
        <5>1. n \in 1..Len(m.rejections) /\ m.rejections[n] = r BY <3>4
        <5>2. r.reason \in Minimums BY <2>3, <2>5, <3>3, <4>1
        <5>. QED BY <3>3, <5>1, <5>2 DEF Refused
      <4>. QED BY <4>1
    <3>8. qty = 0 => IF side = "buy" THEN \/ gap < Unit(prices[s]) * QtyStep[s]
                                          \/ b.cash < UnitCost(prices[s]) * QtyStep[s]
                     ELSE -gap < Unit(prices[s]) * QtyStep[s]
      <4> DEFINE unit == Unit(prices[s])
                 cost == UnitCost(prices[s])
                 step == QtyStep[s]
      <4>1. ASSUME qty = 0
            PROVE  IF side = "buy" THEN gap < unit * step \/ b.cash < cost * step
                   ELSE -gap < unit * step
        <5>1. /\ side = "sell" => -gap - qty * unit < unit * step
              /\ side = "buy" => \/ gap - qty * unit < unit * step
                                 \/ b.cash - qty * cost < cost * step
          BY <2>1, SentIs DEF gap
        <5>2. unit \in Nat /\ cost \in Nat BY <1>2, UnitIs, CostsAre
        <5> HIDE DEF unit, cost, step
        <5>3. qty * unit = 0 /\ qty * cost = 0 BY <4>1, <5>2
        <5> DEFINE k == b.cash
                   l == unit * step
                   d == cost * step
        <5>4. /\ side = "sell" => -gap - 0 < l
              /\ side = "buy" => gap - 0 < l \/ k - 0 < d
              /\ k \in Nat
          BY <1>4, <5>1, <5>3
        <5> HIDE DEF k, l, d
        <5>5. /\ side = "sell" => -gap < l
              /\ side = "buy" => gap < l \/ k < d
          BY <1>3, <5>4
        <5>. QED BY <1>2, <5>5 DEF k, l, d, OrderSides
      <4>. QED BY <4>1
    <3>9. Lands(b, m, side, s, weights, prices, nav, at)
      <4>1. ASSUME side = "buy" PROVE Lands(b, m, side, s, weights, prices, nav, at)
        <5>1. gap > 0 /\ gap >= 0 /\ ~(gap <= 0) BY <1>3, <2>1, <4>1
        <5>. QED BY <3>4, <3>6, <3>7, <3>8, <4>1, <5>1 DEF Lands, gap
      <4>2. ASSUME side = "sell" PROVE Lands(b, m, side, s, weights, prices, nav, at)
        <5>1. gap < 0 /\ gap <= 0 /\ ~(gap >= 0) BY <1>3, <2>1, <4>2
        <5>. QED BY <3>4, <3>6, <3>7, <3>8, <4>2, <5>1 DEF Lands, gap
      <4>. QED BY <1>2, <4>1, <4>2 DEF OrderSides
    <3>10. m.cash <= b.cash /\ \A z \in Symbols \ {s} : m.lots[z] = b.lots[z] BY <1>4, <3>4
    <3>. QED BY <3>4, <3>5, <3>9, <3>10 DEF Outcome, m
  <2>. QED BY <2>4, <2>5
<1>. QED BY <1>5, <1>6

-----------------------------------------------------------------------------
(***************************************************************************)
(* The books replayed from their fills.                                    *)
(***************************************************************************)
Flows(fills, n) == [i \in 1..n |-> CashFlow(fills[i])]
Moves(fills, n, s) == [i \in 1..n |-> Moved(fills[i], s)]
CashAfter(fills, n) == Scale * InitialCash + Total(Flows(fills, n))
QtyAfter(fills, n, s) == Total(Moves(fills, n, s))

\* Cash and quantities are what the fills come to, and no fill borrowed.
Balanced(b) ==
  /\ b.cash = CashAfter(b.fills, Len(b.fills))
  /\ \A s \in Symbols : Quantity(b, s) = QtyAfter(b.fills, Len(b.fills), s)
  /\ \A n \in 0..Len(b.fills) :
       CashAfter(b.fills, n) >= 0 /\ \A s \in Symbols : QtyAfter(b.fills, n, s) >= 0

LEMMA FlowInt ==
  ASSUME PortfolioAssumption, NEW f \in FillRec, NEW s
  PROVE  CashFlow(f) \in Int /\ Moved(f, s) \in Int
<1> DEFINE q == f.qty
           p == f.price
           fee == f.fee
           slip == f.slippage
           e == Signed(f)
           x == e * Scale
           y == x * q
           v == y * p
<1>1. q \in Nat /\ p \in Nat /\ fee \in Nat /\ slip \in Nat BY DEF FillRec
<1>2. e \in {1, -1} BY DEF Signed
<1>3. CashFlow(f) = -v - fee - slip BY DEF CashFlow
<1>4. Moved(f, s) = IF f.symbol = s THEN e * q ELSE 0 BY DEF Moved
<1> HIDE DEF e, q, p, fee, slip
<1>5. x \in Int BY <1>2, Parameters
<1> HIDE DEF x
<1>6. y \in Int BY <1>1, <1>5
<1> HIDE DEF y
<1>7. v \in Int BY <1>1, <1>6
<1> HIDE DEF v
<1>8. -v - fee - slip \in Int BY <1>1, <1>7
<1>9. e * q \in Int BY <1>1, <1>2
<1>. QED BY <1>3, <1>4, <1>8, <1>9

LEMMA AfterIs ==
  ASSUME PortfolioAssumption, NEW fills \in Seq(FillRec), NEW n \in 0..Len(fills), NEW s
  PROVE  /\ Flows(fills, n) \in Seq(Int) /\ Len(Flows(fills, n)) = n
         /\ Moves(fills, n, s) \in Seq(Int) /\ Len(Moves(fills, n, s)) = n
         /\ CashAfter(fills, n) \in Int /\ QtyAfter(fills, n, s) \in Int
<1>1. n \in Nat /\ \A i \in 1..n : fills[i] \in FillRec OBVIOUS
<1>2. \A i \in 1..n : CashFlow(fills[i]) \in Int /\ Moved(fills[i], s) \in Int BY <1>1, FlowInt
<1>3. Flows(fills, n) \in [1..n -> Int] /\ Moves(fills, n, s) \in [1..n -> Int]
  BY <1>2 DEF Flows, Moves
<1>4. /\ Flows(fills, n) \in Seq(Int) /\ Len(Flows(fills, n)) = n
      /\ Moves(fills, n, s) \in Seq(Int) /\ Len(Moves(fills, n, s)) = n
  BY <1>1, <1>3
<1>5. Total(Flows(fills, n)) \in Int /\ Total(Moves(fills, n, s)) \in Int BY <1>4, TotalInt
<1>6. Scale * InitialCash \in Int BY Parameters, ProductNat
<1>. QED BY <1>4, <1>5, <1>6 DEF CashAfter, QtyAfter

\* Fills to come change nothing about the earlier ones.
LEMMA AfterSame ==
  ASSUME NEW a, NEW b, Len(a) \in Nat, Grown(a, b), NEW n \in 0..Len(a), NEW s
  PROVE  CashAfter(b, n) = CashAfter(a, n) /\ QtyAfter(b, n, s) = QtyAfter(a, n, s)
<1>1. \A i \in 1..n : b[i] = a[i] BY DEF Grown
<1>2. Flows(b, n) = Flows(a, n) /\ Moves(b, n, s) = Moves(a, n, s) BY <1>1 DEF Flows, Moves
<1>. QED BY <1>2 DEF CashAfter, QtyAfter

LEMMA AfterMore ==
  ASSUME PortfolioAssumption, NEW fills \in Seq(FillRec), NEW f \in FillRec, NEW s
  PROVE  LET more == Append(fills, f)
             n == Len(fills)
         IN /\ Grown(fills, more) /\ Len(more) = n + 1 /\ n \in Nat /\ more[n + 1] = f
            /\ more \in Seq(FillRec)
            /\ CashAfter(more, n + 1) = CashAfter(fills, n) + CashFlow(f)
            /\ QtyAfter(more, n + 1, s) = QtyAfter(fills, n, s) + Moved(f, s)
<1> DEFINE more == Append(fills, f)
           n == Len(fills)
<1>1. /\ more \in Seq(FillRec) /\ Len(more) = n + 1 /\ n \in Nat /\ more[n + 1] = f
      /\ \A i \in 1..n : more[i] = fills[i]
  BY AppendIs
<1> HIDE DEF more, n
<1>2. Grown(fills, more) BY <1>1 DEF Grown, n
<1>3. n \in 0..Len(fills) /\ n + 1 \in 0..Len(more) BY <1>1 DEF n
<1>4. /\ Flows(fills, n) \in Seq(Int) /\ Len(Flows(fills, n)) = n
      /\ Moves(fills, n, s) \in Seq(Int) /\ Len(Moves(fills, n, s)) = n
  BY <1>3, AfterIs
<1>5. /\ Flows(more, n + 1) \in Seq(Int) /\ Len(Flows(more, n + 1)) = n + 1
      /\ Moves(more, n + 1, s) \in Seq(Int) /\ Len(Moves(more, n + 1, s)) = n + 1
  BY <1>1, <1>3, AfterIs
<1>6. /\ \A i \in 1..n : Flows(more, n + 1)[i] = Flows(fills, n)[i]
      /\ Flows(more, n + 1)[n + 1] = CashFlow(f)
  BY <1>1 DEF Flows
<1>7. /\ \A i \in 1..n : Moves(more, n + 1, s)[i] = Moves(fills, n, s)[i]
      /\ Moves(more, n + 1, s)[n + 1] = Moved(f, s)
  BY <1>1 DEF Moves
<1>8. Total(Flows(more, n + 1)) = Total(Flows(fills, n)) + CashFlow(f)
  <2> DEFINE a == Flows(fills, n)
             b == Flows(more, n + 1)
  <2>1. a \in Seq(Int) /\ b \in Seq(Int) /\ Len(b) = Len(a) + 1 /\ Len(a) = n
        /\ \A i \in 1..Len(a) : b[i] = a[i]
    BY <1>4, <1>5, <1>6
  <2> HIDE DEF a, b
  <2>2. Total(b) = Total(a) + b[Len(a) + 1] BY <2>1, TotalMore
  <2>. QED BY <1>6, <2>1, <2>2 DEF a, b
<1>9. Total(Moves(more, n + 1, s)) = Total(Moves(fills, n, s)) + Moved(f, s)
  <2> DEFINE a == Moves(fills, n, s)
             b == Moves(more, n + 1, s)
  <2>1. a \in Seq(Int) /\ b \in Seq(Int) /\ Len(b) = Len(a) + 1 /\ Len(a) = n
        /\ \A i \in 1..Len(a) : b[i] = a[i]
    BY <1>4, <1>5, <1>7
  <2> HIDE DEF a, b
  <2>2. Total(b) = Total(a) + b[Len(a) + 1] BY <2>1, TotalMore
  <2>. QED BY <1>7, <2>1, <2>2 DEF a, b
<1>10. CashAfter(more, n + 1) = CashAfter(fills, n) + CashFlow(f)
  <2> DEFINE a == Total(Flows(fills, n))
             b == Total(Flows(more, n + 1))
             c == Scale * InitialCash
             v == CashFlow(f)
  <2>1. a \in Int /\ b = a + v /\ c \in Int /\ v \in Int
    <3>1. a \in Int BY <1>4, TotalInt
    <3>2. v \in Int BY FlowInt
    <3>3. c \in Int BY Parameters, ProductNat
    <3>. QED BY <1>8, <3>1, <3>2, <3>3
  <2> HIDE DEF a, b, c, v
  <2>2. c + b = c + a + v BY <2>1
  <2>. QED BY <2>2 DEF CashAfter, a, b, c, v
<1>11. QtyAfter(more, n + 1, s) = QtyAfter(fills, n, s) + Moved(f, s) BY <1>9 DEF QtyAfter
<1>. QED BY <1>1, <1>2, <1>10, <1>11 DEF more, n

LEMMA BalanceKeeps ==
  ASSUME PortfolioAssumption, NEW b, BookOK(b), Balanced(b), NEW m, BookOK(m),
         NEW s \in Symbols, NEW side, NEW at, Traded(b, m, s, side, at)
  PROVE  Balanced(m)
<1>1. b.fills \in Seq(FillRec) /\ Len(b.fills) \in Nat /\ m.cash \in Nat BY BookIs
<1>2. CASE m.cash = b.cash /\ m.lots = b.lots /\ m.fills = b.fills
  <2>1. \A z \in Symbols : Quantity(m, z) = Quantity(b, z) BY <1>2 DEF Quantity
  <2>. QED BY <1>2, <2>1 DEF Balanced
<1>3. CASE \E f \in FillRec :
             /\ f.ts = at /\ f.symbol = s /\ f.side = side
             /\ m.fills = Append(b.fills, f) /\ m.cash = b.cash + CashFlow(f)
             /\ Quantity(m, s) = Quantity(b, s) + Signed(f) * f.qty
             /\ \A z \in Symbols \ {s} : m.lots[z] = b.lots[z]
  <2>1. PICK f \in FillRec :
             /\ f.ts = at /\ f.symbol = s /\ f.side = side
             /\ m.fills = Append(b.fills, f) /\ m.cash = b.cash + CashFlow(f)
             /\ Quantity(m, s) = Quantity(b, s) + Signed(f) * f.qty
             /\ \A z \in Symbols \ {s} : m.lots[z] = b.lots[z]
    BY <1>3
  <2> DEFINE n == Len(b.fills)
  <2>2. ASSUME NEW z
        PROVE  /\ Grown(b.fills, m.fills) /\ Len(m.fills) = n + 1 /\ n \in Nat
               /\ CashAfter(m.fills, n + 1) = CashAfter(b.fills, n) + CashFlow(f)
               /\ QtyAfter(m.fills, n + 1, z) = QtyAfter(b.fills, n, z) + Moved(f, z)
    BY <1>1, <2>1, AfterMore
  <2>3. m.cash = CashAfter(m.fills, n + 1) BY <2>1, <2>2 DEF Balanced
  <2>4. ASSUME NEW z \in Symbols PROVE Quantity(m, z) = QtyAfter(m.fills, n + 1, z)
    <3>1. Quantity(b, z) = QtyAfter(b.fills, n, z) BY DEF Balanced
    <3>2. QtyAfter(m.fills, n + 1, z) = Quantity(b, z) + Moved(f, z) BY <2>2, <3>1
    <3>3. CASE z = s BY <2>1, <3>2, <3>3 DEF Moved
    <3>4. CASE z # s
      <4>1. Moved(f, z) = 0 BY <2>1, <3>4 DEF Moved
      <4>2. Quantity(m, z) = Quantity(b, z) BY <2>1, <3>4 DEF Quantity
      <4>3. Quantity(b, z) \in Nat BY QuantityIs
      <4>. QED BY <3>2, <4>1, <4>2, <4>3
    <3>. QED BY <3>3, <3>4
  <2>5. ASSUME NEW k \in 0..n + 1
        PROVE  CashAfter(m.fills, k) >= 0 /\ \A z \in Symbols : QtyAfter(m.fills, k, z) >= 0
    <3>1. CASE k = n + 1
      <4>1. CashAfter(m.fills, k) >= 0 BY <1>1, <2>3, <3>1
      <4>2. ASSUME NEW z \in Symbols PROVE QtyAfter(m.fills, k, z) >= 0
        <5>1. Quantity(m, z) \in Nat BY QuantityIs
        <5>. QED BY <2>4, <3>1, <5>1
      <4>. QED BY <4>1, <4>2
    <3>2. CASE k # n + 1
      <4>1. k \in 0..n BY <2>2, <3>2
      <4>2. ASSUME NEW z \in Symbols
            PROVE  /\ CashAfter(m.fills, k) = CashAfter(b.fills, k)
                   /\ QtyAfter(m.fills, k, z) = QtyAfter(b.fills, k, z)
        BY <1>1, <2>2, <4>1, AfterSame
      <4>3. CashAfter(b.fills, k) >= 0 /\ \A z \in Symbols : QtyAfter(b.fills, k, z) >= 0
        BY <4>1 DEF Balanced
      <4>. QED BY <4>2, <4>3
    <3>. QED BY <3>1, <3>2
  <2>6. Len(m.fills) = n + 1 BY <2>2
  <2> HIDE DEF n
  <2>. QED BY <2>3, <2>4, <2>5, <2>6 DEF Balanced
<1>. QED BY <1>2, <1>3 DEF Traded

-----------------------------------------------------------------------------
(***************************************************************************)
(* A rebalance, order after order.                                         *)
(***************************************************************************)
RebalanceStep(b, decided, weights, at, prices, f, n) ==
  IF n = 0 THEN b
  ELSE Order(f[n - 1], Orders[n].side, Orders[n].symbol, weights, prices, Equity(b, prices),
             decided, at)
RebalanceSteps(b, decided, weights, at, prices) ==
  CHOOSE f : f = [n \in 0..2 * Len(Pool) |-> RebalanceStep(b, decided, weights, at, prices, f, n)]

LEMMA RebalanceIsSteps ==
  ASSUME NEW b, NEW decided, NEW weights, NEW at, NEW prices
  PROVE  Rebalance(b, decided, weights, at, prices)
           = RebalanceSteps(b, decided, weights, at, prices)[2 * Len(Pool)]
BY Zenon DEF Rebalance, RebalanceSteps, RebalanceStep

LEMMA EquityIs ==
  ASSUME PortfolioAssumption, NEW b, BookOK(b), NEW prices \in [Symbols -> Nat \ {0}]
  PROVE  Equity(b, prices) \in Nat
<1> DEFINE worth == [s \in Symbols |-> Quantity(b, s) * prices[s]]
           values == [i \in 1..Len(Pool) |-> worth[Pool[i]]]
<1>1. Len(Pool) \in Nat BY Parameters
<1>2. ASSUME NEW s \in Symbols PROVE worth[s] \in Nat
  <2>1. Quantity(b, s) \in Nat /\ prices[s] \in Nat BY QuantityIs
  <2>. QED BY <2>1, ProductNat
<1>3. \A i \in 1..Len(Pool) : Pool[i] \in Symbols BY DEF Symbols
<1> HIDE DEF worth
<1>4. values \in [1..Len(Pool) -> Nat] BY <1>2, <1>3
<1>5. values \in Seq(Nat) BY <1>1, <1>4
<1> HIDE DEF values
<1>6. Total(values) \in Nat BY <1>5, TotalNat
<1>7. Scale * Total(values) \in Nat BY <1>6, Parameters, ProductNat
<1>8. b.cash \in Nat BY BookIs
<1>9. Equity(b, prices) = b.cash + Scale * Total(values) BY DEF Equity, SumOver, values, worth
<1> DEFINE x == Scale * Total(values)
<1> HIDE DEF x
<1>10. b.cash + x \in Nat BY <1>7, <1>8 DEF x
<1>. QED BY <1>9, <1>10 DEF x

\* A rebalance of a book that may be made.
RebalanceFor(b, weights, prices) ==
  /\ PortfolioAssumption /\ BookOK(b)
  /\ weights \in [Symbols -> 0..Scale] /\ prices \in [Symbols -> Nat \ {0}]

LEMMA OrdersAre ==
  ASSUME PortfolioAssumption, NEW n \in 1..2 * Len(Pool)
  PROVE  LET o == Orders[n]
             L == Len(Pool)
         IN /\ L \in Nat \ {0} /\ o.side \in OrderSides /\ o.symbol \in Symbols
            /\ n <= L => o.side = "sell" /\ o.symbol = Pool[n] /\ n \in 1..L
            /\ n > L => o.side = "buy" /\ o.symbol = Pool[n - L] /\ n - L \in 1..L
<1> DEFINE L == Len(Pool)
<1>1. L \in Nat \ {0} BY Parameters
<1>2. \A i \in 1..L : Pool[i] \in Symbols BY DEF Symbols
<1> HIDE DEF L
<1>3. Orders[n] = IF n <= L THEN [side |-> "sell", symbol |-> Pool[n]]
                  ELSE [side |-> "buy", symbol |-> Pool[n - L]]
  BY DEF Orders, L
<1>4. CASE n <= L
  <2>1. n \in 1..L /\ ~(n > L) BY <1>1, <1>4
  <2>. QED BY <1>1, <1>2, <1>3, <1>4, <2>1 DEF OrderSides, L
<1>5. CASE ~(n <= L)
  <2>1. n > L /\ n - L \in 1..L BY <1>1, <1>5 DEF L
  <2>. QED BY <1>1, <1>2, <1>3, <1>5, <2>1 DEF OrderSides, L
<1>. QED BY <1>4, <1>5

LEMMA RebalanceStepsAre ==
  ASSUME NEW b, NEW weights, NEW prices, RebalanceFor(b, weights, prices),
         NEW decided \in Int, NEW at \in Int
  PROVE  LET f == RebalanceSteps(b, decided, weights, at, prices)
             nav == Equity(b, prices)
         IN /\ f[0] = b
            /\ \A n \in 1..2 * Len(Pool) :
                 f[n] = Order(f[n - 1], Orders[n].side, Orders[n].symbol, weights, prices, nav,
                              decided, at)
<1> DEFINE L == 2 * Len(Pool)
           nav == Equity(b, prices)
           Step(x, n) == Order(x, Orders[n].side, Orders[n].symbol, weights, prices, nav, decided, at)
           S == {x \in Books : BookOK(x)}
           G == [n \in 1..L |-> [x \in S |-> Step(x, n)]]
           f == RebalanceSteps(b, decided, weights, at, prices)
<1>1. /\ PortfolioAssumption /\ BookOK(b) /\ weights \in [Symbols -> 0..Scale]
      /\ prices \in [Symbols -> Nat \ {0}] /\ nav \in Nat
  BY EquityIs DEF RebalanceFor
<1>2. L \in Nat BY <1>1, Parameters
<1>3. b \in S BY <1>1 DEF BookOK
<1>4. ASSUME NEW n \in 1..L, NEW x \in S PROVE Step(x, n) \in S
  <2> DEFINE side == Orders[n].side
             s == Orders[n].symbol
  <2>1. side \in OrderSides /\ s \in Symbols BY <1>1, OrdersAre
  <2> HIDE DEF nav, side, s
  <2>2. OrderFor(x, side, s, weights, prices, nav) BY <1>1, <2>1 DEF OrderFor
  <2>3. Outcome(x, Order(x, side, s, weights, prices, nav, decided, at),
                side, s, weights, prices, nav, at)
    BY <2>2, OrderIs
  <2>4. BookOK(Order(x, side, s, weights, prices, nav, decided, at)) BY <2>3 DEF Outcome
  <2>. QED BY <2>4 DEF BookOK, side, s
<1> HIDE DEF Step, S, L
<1>5. G \in [1..L -> [S -> S]] BY <1>4
<1>6. PICK g \in [0..L -> S] : g[0] = b /\ \A n \in 1..L : g[n] = G[n][g[n - 1]]
  <2> HIDE DEF G
  <2>1. HasSteps(S, b, L, G) BY <1>2, <1>3, <1>5, StepsExist
  <2>. QED BY <2>1, Zenon DEF HasSteps
<1> DEFINE R(h, n) == RebalanceStep(b, decided, weights, at, prices, h, n)
<1>7. ASSUME NEW n \in 0..L PROVE g[n] = R(g, n)
  <2>1. CASE n = 0 BY <1>6, <2>1 DEF RebalanceStep
  <2>2. CASE n # 0
    <3>1. n \in 1..L /\ n - 1 \in 0..L BY <1>2, <2>2
    <3>2. g[n - 1] \in S BY <3>1
    <3>3. G[n][g[n - 1]] = Step(g[n - 1], n) BY <3>1, <3>2
    <3>4. g[n] = Step(g[n - 1], n) BY <1>6, <3>1, <3>3, Zenon
    <3>. QED BY <2>2, <3>4 DEF RebalanceStep, Step
  <2>. QED BY <2>1, <2>2
<1> HIDE DEF R
<1>8. g = [n \in 0..L |-> R(g, n)] BY <1>7
<1>9. f = [n \in 0..L |-> R(f, n)]
  <2>1. \E h : h = [n \in 0..L |-> R(h, n)] BY <1>8
  <2>. QED BY <2>1, Zenon DEF RebalanceSteps, L, R
<1> HIDE DEF f
<1>10. \A n \in 0..L : f[n] = R(f, n) BY <1>9
<1>11. f[0] = b BY <1>2, <1>10 DEF R, RebalanceStep
<1>12. ASSUME NEW n \in 1..L PROVE f[n] = Step(f[n - 1], n)
  <2>1. n \in 0..L /\ n # 0 BY <1>2
  <2>2. f[n] = R(f, n) BY <1>10, <2>1
  <2>. QED BY <2>1, <2>2 DEF R, RebalanceStep, Step
<1>. QED BY <1>11, <1>12 DEF f, L, Step, nav

\* Where a symbol stands before its sale's turn, between its turns and after both.
Before(b, m, z) == m.lots[z] = b.lots[z]

HasSold(b, m, z, weights, prices, nav, at) ==
  LET came == Gap(b, z, nav, weights[z], prices[z])
      gap == Gap(m, z, nav, weights[z], prices[z])
  IN /\ came >= 0 => m.lots[z] = b.lots[z]
     /\ came < 0 => gap <= 0 /\ (-gap < Unit(prices[z]) * QtyStep[z] \/ Refused(m, at, z, "sell"))

Landed(b, m, z, weights, prices, nav, at) ==
  LET came == Gap(b, z, nav, weights[z], prices[z])
      gap == Gap(m, z, nav, weights[z], prices[z])
      step == Unit(prices[z]) * QtyStep[z]
  IN /\ came >= 0 => gap >= 0
     /\ came <= 0 => gap <= 0
     /\ came < 0 => -gap < step \/ Refused(m, at, z, "sell")
     /\ came > 0 => \/ gap < step
                    \/ Refused(m, at, z, "buy")
                    \/ m.cash < UnitCost(prices[z]) * QtyStep[z]

\* An order for another symbol leaves it there, a buy once it has landed.
LEMMA OthersStay ==
  ASSUME PortfolioAssumption, NEW b, BookOK(b), NEW x, BookOK(x), NEW m,
         NEW side, NEW s, NEW weights, NEW prices \in [Symbols -> Nat \ {0}], NEW nav, NEW at,
         Outcome(x, m, side, s, weights, prices, nav, at), NEW z \in Symbols, z # s
  PROVE  /\ Before(b, x, z) => Before(b, m, z)
         /\ HasSold(b, x, z, weights, prices, nav, at) => HasSold(b, m, z, weights, prices, nav, at)
         /\ Landed(b, x, z, weights, prices, nav, at) /\ side = "buy"
              => Landed(b, m, z, weights, prices, nav, at)
<1>1. /\ BookOK(m) /\ Grown(x.rejections, m.rejections) /\ m.lots[z] = x.lots[z]
      /\ side = "buy" => m.cash <= x.cash
  BY DEF Outcome
<1>2. Len(x.rejections) \in Nat /\ Len(m.rejections) \in Nat /\ x.cash \in Nat /\ m.cash \in Nat
  BY <1>1, BookIs
<1>3. \A k \in OrderSides : Refused(x, at, z, k) => Refused(m, at, z, k)
  BY <1>1, <1>2, RefusedStays
<1>4. "sell" \in OrderSides /\ "buy" \in OrderSides BY DEF OrderSides
<1>5. Quantity(m, z) = Quantity(x, z) BY <1>1 DEF Quantity
<1>6. Gap(m, z, nav, weights[z], prices[z]) = Gap(x, z, nav, weights[z], prices[z])
  BY <1>5 DEF Gap
<1>7. ASSUME side = "buy", x.cash < UnitCost(prices[z]) * QtyStep[z]
      PROVE  m.cash < UnitCost(prices[z]) * QtyStep[z]
  <2> DEFINE d == UnitCost(prices[z]) * QtyStep[z]
             c == x.cash
             e == m.cash
  <2>1. c \in Nat /\ e \in Nat /\ e <= c /\ c < d BY <1>1, <1>2, <1>7
  <2>2. d \in Nat
    <3>1. UnitCost(prices[z]) \in Nat /\ QtyStep[z] \in Nat BY CostsAre, Parameters
    <3>. QED BY <3>1, ProductNat
  <2> HIDE DEF c, d, e
  <2>3. e < d BY <2>1, <2>2
  <2>. QED BY <2>3 DEF d, e
<1>8. Before(b, x, z) => Before(b, m, z) BY <1>1 DEF Before
<1>9. HasSold(b, x, z, weights, prices, nav, at) => HasSold(b, m, z, weights, prices, nav, at)
  BY <1>1, <1>3, <1>4, <1>6 DEF HasSold
<1>10. ASSUME Landed(b, x, z, weights, prices, nav, at), side = "buy"
       PROVE  Landed(b, m, z, weights, prices, nav, at)
  BY <1>3, <1>4, <1>6, <1>7, <1>10 DEF Landed
<1>. QED BY <1>8, <1>9, <1>10

\* The sale's turn, and the buy's.
LEMMA OwnSale ==
  ASSUME PortfolioAssumption, NEW b, BookOK(b), NEW x, NEW m, NEW s \in Symbols,
         NEW weights \in [Symbols -> 0..Scale], NEW prices \in [Symbols -> Nat \ {0}],
         NEW nav \in Nat, NEW at, Before(b, x, s),
         Outcome(x, m, "sell", s, weights, prices, nav, at)
  PROVE  HasSold(b, m, s, weights, prices, nav, at)
<1> DEFINE came == Gap(b, s, nav, weights[s], prices[s])
           w == weights[s]
           p == prices[s]
<1>1. Quantity(x, s) = Quantity(b, s) BY DEF Before, Quantity
<1>2. Gap(x, s, nav, weights[s], prices[s]) = came BY <1>1 DEF Gap
<1>3. came \in Int
  <2>1. w \in Nat /\ p \in Nat \ {0} BY Parameters
  <2> HIDE DEF w, p
  <2>2. Gap(b, s, nav, w, p) \in Int BY <2>1, GapIs
  <2>. QED BY <2>2 DEF w, p
<1> HIDE DEF came
<1>4. /\ came >= 0 => m = x
      /\ came < 0 => LET left == Gap(m, s, nav, weights[s], prices[s])
                     IN left <= 0 /\ (-left < Unit(prices[s]) * QtyStep[s] \/ Refused(m, at, s, "sell"))
  <2>1. Lands(x, m, "sell", s, weights, prices, nav, at) BY DEF Outcome
  <2>. QED BY <1>2, <2>1 DEF Lands
<1>5. came >= 0 => m.lots[s] = b.lots[s] BY <1>4 DEF Before
<1>. QED BY <1>4, <1>5 DEF HasSold, came

LEMMA OwnBuy ==
  ASSUME PortfolioAssumption, NEW b, BookOK(b), NEW x, BookOK(x), NEW m, NEW s \in Symbols,
         NEW weights \in [Symbols -> 0..Scale], NEW prices \in [Symbols -> Nat \ {0}],
         NEW nav \in Nat, NEW at, HasSold(b, x, s, weights, prices, nav, at),
         Outcome(x, m, "buy", s, weights, prices, nav, at)
  PROVE  Landed(b, m, s, weights, prices, nav, at)
<1> DEFINE came == Gap(b, s, nav, weights[s], prices[s])
           gap == Gap(x, s, nav, weights[s], prices[s])
           left == Gap(m, s, nav, weights[s], prices[s])
           step == Unit(prices[s]) * QtyStep[s]
           w == weights[s]
           p == prices[s]
<1>1. BookOK(m) /\ Lands(x, m, "buy", s, weights, prices, nav, at) BY DEF Outcome
<1>2. came \in Int /\ gap \in Int /\ left \in Int
  <2>1. w \in Nat /\ p \in Nat \ {0} BY Parameters
  <2> HIDE DEF w, p
  <2>2. Gap(b, s, nav, w, p) \in Int /\ Gap(x, s, nav, w, p) \in Int /\ Gap(m, s, nav, w, p) \in Int
    BY <1>1, <2>1, GapIs
  <2>. QED BY <2>2 DEF w, p
<1>3. /\ gap <= 0 => m = x
      /\ gap > 0 => /\ left >= 0
                    /\ \/ left < step
                       \/ Refused(m, at, s, "buy")
                       \/ m.cash < UnitCost(prices[s]) * QtyStep[s]
  BY <1>1 DEF Lands
<1>4. came >= 0 => gap = came
  <2>1. came >= 0 => Quantity(x, s) = Quantity(b, s) BY DEF HasSold, Quantity
  <2>. QED BY <2>1 DEF Gap
<1>5. came < 0 => gap <= 0 /\ (-gap < step \/ Refused(x, at, s, "sell")) BY DEF HasSold
<1>6. gap <= 0 => left = gap BY <1>3
<1> HIDE DEF came, gap, left, step
<1>7. CASE came < 0
  <2>1. m = x /\ left = gap /\ gap <= 0 BY <1>3, <1>5, <1>6, <1>7
  <2>2. -left < step \/ Refused(m, at, s, "sell") BY <1>5, <1>7, <2>1
  <2>3. ~(came >= 0) /\ ~(came > 0) /\ left <= 0 BY <1>2, <1>7, <2>1
  <2>. QED BY <2>2, <2>3 DEF Landed, came, left, step
<1>8. CASE came = 0
  <2>1. left = 0 BY <1>2, <1>3, <1>4, <1>6, <1>8
  <2>2. left >= 0 /\ left <= 0 /\ ~(came < 0) /\ ~(came > 0) BY <1>8, <2>1
  <2>. QED BY <2>2 DEF Landed, came, left, step
<1>9. CASE came > 0
  <2>1. gap > 0 /\ ~(came < 0) /\ ~(came <= 0) BY <1>2, <1>4, <1>9
  <2>. QED BY <1>3, <2>1 DEF Landed, came, left, step
<1>. QED BY <1>2, <1>7, <1>8, <1>9

\* The fills of a rebalance are of its day, and only what is to be held is bought.
Filled(b, m, weights, at) ==
  /\ Grown(b.fills, m.fills)
  /\ \A i \in 1..Len(m.fills) : i > Len(b.fills) =>
       /\ m.fills[i].ts = at
       /\ m.fills[i].side = "buy" => weights[m.fills[i].symbol] > 0

LEMMA GapOfNothing ==
  ASSUME PortfolioAssumption, NEW b, BookOK(b), NEW s \in Symbols, NEW nav \in Nat,
         NEW weight \in Nat, NEW price \in Nat \ {0}, weight = 0
  PROVE  Gap(b, s, nav, weight, price) <= 0
<1> DEFINE u == Quantity(b, s) * Unit(price)
           v == nav * weight
           g == Gap(b, s, nav, weight, price)
<1>1. g = v - u /\ u \in Nat /\ v \in Nat BY GapIs
<1>2. v = 0 OBVIOUS
<1> HIDE DEF g, u, v
<1>3. g <= 0 BY <1>1, <1>2
<1>. QED BY <1>3 DEF g

LEMMA OrderFilled ==
  ASSUME NEW b, Len(b.fills) \in Nat, NEW x, NEW m, NEW side, NEW s, NEW weights, NEW prices,
         NEW nav, NEW at,
         OrderFor(x, side, s, weights, prices, nav), Filled(b, x, weights, at),
         Outcome(x, m, side, s, weights, prices, nav, at)
  PROVE  Filled(b, m, weights, at)
<1>1. /\ PortfolioAssumption /\ BookOK(x) /\ side \in OrderSides /\ s \in Symbols
      /\ weights[s] \in Nat /\ prices[s] \in Nat \ {0} /\ nav \in Nat
  BY DEF OrderFor
<1>2. /\ Traded(x, m, s, side, at) /\ Lands(x, m, side, s, weights, prices, nav, at)
      /\ x.fills \in Seq(FillRec) /\ Len(x.fills) \in Nat
  BY <1>1, BookIs DEF Outcome
<1>3. CASE m.fills = x.fills BY <1>3 DEF Filled
<1>4. CASE m.fills # x.fills
  <2>1. PICK f \in FillRec :
             f.ts = at /\ f.symbol = s /\ f.side = side /\ m.fills = Append(x.fills, f)
    BY <1>2, <1>4 DEF Traded
  <2> DEFINE n == Len(x.fills)
  <2>2. /\ Len(m.fills) = n + 1 /\ m.fills[n + 1] = f
        /\ \A i \in 1..n : m.fills[i] = x.fills[i]
    BY <1>2, <2>1, AppendIs
  <2>3. side = "buy" => weights[s] > 0
    <3>1. ASSUME side = "buy", weights[s] = 0 PROVE FALSE
      <4>1. /\ PortfolioAssumption /\ BookOK(x) /\ s \in Symbols /\ nav \in Nat
            /\ weights[s] \in Nat /\ prices[s] \in Nat \ {0} /\ weights[s] = 0
        BY <1>1, <3>1
      <4> DEFINE g == Gap(x, s, nav, weights[s], prices[s])
      <4>4. g <= 0 BY <4>1, GapOfNothing
      <4>5. g <= 0 => m = x BY <1>2, <3>1 DEF Lands
      <4>. QED BY <1>4, <4>4, <4>5
    <3>. QED BY <1>1, <3>1
  <2>4. /\ Len(b.fills) <= n /\ \A i \in 1..Len(b.fills) : x.fills[i] = b.fills[i]
        /\ \A i \in 1..n : i > Len(b.fills) =>
             /\ x.fills[i].ts = at
             /\ x.fills[i].side = "buy" => weights[x.fills[i].symbol] > 0
    BY DEF Filled, Grown
  <2> HIDE DEF n
  <2>5. n \in Nat BY <1>2 DEF n
  <2>6. Grown(b.fills, m.fills) BY <2>2, <2>4, <2>5 DEF Grown
  <2>7. ASSUME NEW i \in 1..Len(m.fills), i > Len(b.fills)
        PROVE  /\ m.fills[i].ts = at
               /\ m.fills[i].side = "buy" => weights[m.fills[i].symbol] > 0
    <3>1. CASE i = n + 1 BY <2>1, <2>2, <2>3, <3>1
    <3>2. CASE i # n + 1
      <4>1. i \in 1..n BY <2>2, <2>5, <3>2
      <4>. QED BY <2>2, <2>4, <2>7, <4>1
    <3>. QED BY <3>1, <3>2
  <2>. QED BY <2>6, <2>7 DEF Filled
<1>. QED BY <1>3, <1>4

LEMMA GrownOn ==
  ASSUME NEW a, NEW b, NEW c, Len(a) \in Nat, Len(b) \in Nat, Len(c) \in Nat,
         Grown(a, b), Grown(b, c)
  PROVE  Grown(a, c)
BY DEF Grown

\* What a rebalance makes of a book.
Rebalanced(b, m, weights, prices, at) ==
  /\ BookOK(m) /\ (Balanced(b) => Balanced(m))
  /\ Grown(b.rejections, m.rejections) /\ Filled(b, m, weights, at)
  /\ \A z \in Symbols : Landed(b, m, z, weights, prices, Equity(b, prices), at)

\* Halfway: after n of its orders.
Underway(b, m, n, weights, prices, nav, at) ==
  /\ BookOK(m) /\ (Balanced(b) => Balanced(m))
  /\ Grown(b.rejections, m.rejections) /\ Filled(b, m, weights, at)
  /\ \A j \in 1..Len(Pool) :
       /\ n < j => Before(b, m, Pool[j])
       /\ n >= j /\ n < Len(Pool) + j => HasSold(b, m, Pool[j], weights, prices, nav, at)
       /\ n >= Len(Pool) + j => Landed(b, m, Pool[j], weights, prices, nav, at)

LEMMA NextOrder ==
  ASSUME NEW b, NEW weights, NEW prices, RebalanceFor(b, weights, prices), NEW nav \in Nat,
         NEW decided \in Int, NEW at \in Int, NEW n \in 1..2 * Len(Pool),
         NEW x, Underway(b, x, n - 1, weights, prices, nav, at)
  PROVE  Underway(b, Order(x, Orders[n].side, Orders[n].symbol, weights, prices, nav, decided, at),
                  n, weights, prices, nav, at)
<1> DEFINE side == Orders[n].side
           s == Orders[n].symbol
           m == Order(x, side, s, weights, prices, nav, decided, at)
           L == Len(Pool)
<1>1. /\ PortfolioAssumption /\ BookOK(b) /\ weights \in [Symbols -> 0..Scale]
      /\ prices \in [Symbols -> Nat \ {0}]
  BY DEF RebalanceFor
<1>2. /\ L \in Nat \ {0} /\ side \in OrderSides /\ s \in Symbols
      /\ n <= L => side = "sell" /\ s = Pool[n] /\ n \in 1..L
      /\ n > L => side = "buy" /\ s = Pool[n - L] /\ n - L \in 1..L
  BY <1>1, OrdersAre
<1>3. /\ \A j \in 1..L : Pool[j] \in Symbols
      /\ \A i, j \in 1..L : Pool[i] = Pool[j] => i = j
  BY <1>1 DEF Symbols, PortfolioAssumption
<1>4. /\ BookOK(x) /\ (Balanced(b) => Balanced(x))
      /\ Grown(b.rejections, x.rejections) /\ Filled(b, x, weights, at)
  BY DEF Underway
<1>5. /\ x.rejections \in Seq(RejRec) /\ Len(x.rejections) \in Nat /\ Len(b.rejections) \in Nat
      /\ Len(b.fills) \in Nat
  BY <1>1, <1>4, BookIs
<1> HIDE DEF side, s
<1>6. OrderFor(x, side, s, weights, prices, nav) BY <1>1, <1>2, <1>4 DEF OrderFor
<1>7. Outcome(x, m, side, s, weights, prices, nav, at) BY <1>6, OrderIs
<1> HIDE DEF m
<1>8. BookOK(m) /\ Traded(x, m, s, side, at) /\ Grown(x.rejections, m.rejections)
  BY <1>7 DEF Outcome
<1>9. Balanced(b) => Balanced(m) BY <1>1, <1>2, <1>4, <1>8, BalanceKeeps
<1>10. Grown(b.rejections, m.rejections)
  <2>1. Len(m.rejections) \in Nat BY <1>1, <1>8, BookIs
  <2>. QED BY <1>4, <1>5, <1>8, <2>1, GrownOn
<1>11. Filled(b, m, weights, at) BY <1>4, <1>5, <1>6, <1>7, OrderFilled
<1>12. ASSUME NEW j \in 1..L
       PROVE  /\ n < j => Before(b, m, Pool[j])
              /\ n >= j /\ n < L + j => HasSold(b, m, Pool[j], weights, prices, nav, at)
              /\ n >= L + j => Landed(b, m, Pool[j], weights, prices, nav, at)
  <2> DEFINE z == Pool[j]
  <2>1. z \in Symbols BY <1>3
  <2>2. /\ n - 1 < j => Before(b, x, z)
        /\ n - 1 >= j /\ n - 1 < L + j => HasSold(b, x, z, weights, prices, nav, at)
        /\ n - 1 >= L + j => Landed(b, x, z, weights, prices, nav, at)
    BY DEF Underway
  <2>3. CASE n = j
    <3>1. n <= L /\ s = z /\ side = "sell" BY <1>2, <2>3
    <3>2. Before(b, x, s) BY <2>2, <2>3, <3>1
    <3>3. HasSold(b, m, s, weights, prices, nav, at) BY <1>1, <1>2, <1>7, <3>1, <3>2, OwnSale
    <3>4. ~(n < j) /\ ~(n >= L + j) BY <1>2, <2>3
    <3>. QED BY <3>1, <3>3, <3>4
  <2>4. CASE n = L + j
    <3>1. n > L /\ n - L = j BY <1>2, <2>4
    <3>2. s = z /\ side = "buy" BY <1>2, <3>1
    <3>3. n - 1 >= j /\ n - 1 < L + j BY <1>2, <2>4
    <3>4. HasSold(b, x, s, weights, prices, nav, at) BY <2>2, <3>2, <3>3
    <3>5. Landed(b, m, s, weights, prices, nav, at)
      BY <1>1, <1>2, <1>4, <1>7, <3>2, <3>4, OwnBuy
    <3>6. ~(n < j) /\ ~(n < L + j) BY <1>2, <2>4
    <3>. QED BY <3>2, <3>5, <3>6
  <2>5. CASE n # j /\ n # L + j
    <3>1. s # z
      <4>1. CASE n <= L BY <1>2, <1>3, <2>5, <4>1
      <4>2. CASE n > L
        <5>1. n - L # j /\ n - L \in 1..L /\ s = Pool[n - L] BY <1>2, <2>5, <4>2
        <5>. QED BY <1>3, <5>1
      <4>. QED BY <1>2, <4>1, <4>2
    <3>2. /\ Before(b, x, z) => Before(b, m, z)
          /\ HasSold(b, x, z, weights, prices, nav, at) => HasSold(b, m, z, weights, prices, nav, at)
          /\ Landed(b, x, z, weights, prices, nav, at) /\ side = "buy"
               => Landed(b, m, z, weights, prices, nav, at)
      BY <1>1, <1>4, <1>7, <2>1, <3>1, OthersStay
    <3>3. n < j => n - 1 < j OBVIOUS
    <3>4. n >= j /\ n < L + j => n - 1 >= j /\ n - 1 < L + j BY <1>2, <2>5
    <3>5. n >= L + j => n - 1 >= L + j /\ side = "buy"
      <4>1. n >= L + j => n > L /\ n - 1 >= L + j BY <1>2, <2>5
      <4>. QED BY <1>2, <4>1
    <3>. QED BY <2>2, <3>2, <3>3, <3>4, <3>5
  <2>. QED BY <2>3, <2>4, <2>5
<1>13. Underway(b, m, n, weights, prices, nav, at) BY <1>8, <1>9, <1>10, <1>11, <1>12 DEF Underway
<1>. QED BY <1>13 DEF m, side, s

\* Every rebalance keeps the books and lands.
LEMMA RebalanceIs ==
  ASSUME NEW b, NEW weights, NEW prices, RebalanceFor(b, weights, prices),
         NEW decided \in Int, NEW at \in Int
  PROVE  Rebalanced(b, Rebalance(b, decided, weights, at, prices), weights, prices, at)
<1> DEFINE L == Len(Pool)
           N == 2 * L
           nav == Equity(b, prices)
           f == RebalanceSteps(b, decided, weights, at, prices)
           On(n) == Underway(b, f[n], n, weights, prices, nav, at)
           T == {n \in 0..N : On(n)}
<1>1. /\ PortfolioAssumption /\ BookOK(b) /\ nav \in Nat /\ L \in Nat \ {0}
  BY EquityIs, Parameters DEF RebalanceFor
<1>2. /\ f[0] = b
      /\ \A n \in 1..N : f[n] = Order(f[n - 1], Orders[n].side, Orders[n].symbol, weights, prices,
                                      nav, decided, at)
  BY RebalanceStepsAre
<1>3. N \in Nat BY <1>1
<1> HIDE DEF f, nav
<1>4. On(0)
  <2>1. Len(b.fills) \in Nat /\ Len(b.rejections) \in Nat BY <1>1, BookIs
  <2>2. Grown(b.rejections, b.rejections) /\ Grown(b.fills, b.fills) BY <2>1, GrownSelf
  <2>3. Filled(b, b, weights, at) BY <2>1, <2>2 DEF Filled
  <2>4. \A j \in 1..L : 0 < j /\ ~(0 >= j) /\ ~(0 >= L + j) /\ Before(b, b, Pool[j])
    BY <1>1 DEF Before
  <2>. QED BY <1>1, <1>2, <2>2, <2>3, <2>4 DEF Underway
<1>5. ASSUME NEW n \in 1..N, On(n - 1) PROVE On(n)
  <2> DEFINE x == f[n - 1]
  <2>1. Underway(b, x, n - 1, weights, prices, nav, at) BY <1>5
  <2> HIDE DEF x
  <2>2. Underway(b, Order(x, Orders[n].side, Orders[n].symbol, weights, prices, nav, decided, at),
                 n, weights, prices, nav, at)
    BY <1>1, <2>1, NextOrder
  <2>. QED BY <1>2, <2>2 DEF x
<1> HIDE DEF On, N
<1>6. On(N)
  <2>1. 0 \in T BY <1>3, <1>4
  <2>2. \A n \in 1..N : n - 1 \in T => n \in T BY <1>3, <1>5
  <2> HIDE DEF T
  <2>3. \A n \in 0..N : n \in T BY <1>3, <2>1, <2>2, AllUpTo
  <2>4. N \in T BY <1>3, <2>3
  <2>. QED BY <2>4 DEF T
<1>7. Rebalance(b, decided, weights, at, prices) = f[N] BY RebalanceIsSteps DEF f, N
<1>8. Underway(b, f[N], N, weights, prices, nav, at) BY <1>6 DEF On
<1>9. ASSUME NEW z \in Symbols PROVE Landed(b, f[N], z, weights, prices, nav, at)
  <2>1. PICK j \in 1..L : z = Pool[j] BY DEF Symbols
  <2>2. N >= L + j BY <1>1 DEF N
  <2>. QED BY <1>8, <2>1, <2>2 DEF Underway
<1>. QED BY <1>7, <1>8, <1>9 DEF Underway, Rebalanced, nav

-----------------------------------------------------------------------------
(***************************************************************************)
(* A run of the portfolio, whoever decides.                                *)
(***************************************************************************)
Market == [Symbols -> Nat \ {0}]
Weights == [Symbols -> 0..Scale]

SnapRec ==
  [ts : Int, cash : Nat, quantities : [Symbols -> Nat], prices : Market, equity : Int]

\* The first n fills are those a snapshot of that day has read.
ReadOf(fills, n, at) ==
  /\ \A i \in 1..n : fills[i].ts <= at
  /\ n < Len(fills) => fills[n + 1].ts > at

Reconciled(snap, fills) ==
  \E n \in 0..Len(fills) :
    /\ ReadOf(fills, n, snap.ts)
    /\ snap.cash = CashAfter(fills, n)
    /\ \A s \in Symbols : snap.quantities[s] = QtyAfter(fills, n, s)
    /\ snap.equity = CashAfter(fills, n)
         + Scale * SumOver([s \in Symbols |-> QtyAfter(fills, n, s) * snap.prices[s]])

\* Fills of later days take nothing from a snapshot.
LEMMA ReconciledStays ==
  ASSUME NEW snap, NEW fills, NEW more, Len(fills) \in Nat, Len(more) \in Nat, Grown(fills, more),
         NEW at \in Int, snap.ts \in Int, snap.ts < at,
         \A i \in 1..Len(more) : i > Len(fills) => more[i].ts = at,
         Reconciled(snap, fills)
  PROVE  Reconciled(snap, more)
<1>1. PICK n \in 0..Len(fills) :
        /\ ReadOf(fills, n, snap.ts)
        /\ snap.cash = CashAfter(fills, n)
        /\ \A s \in Symbols : snap.quantities[s] = QtyAfter(fills, n, s)
        /\ snap.equity = CashAfter(fills, n)
             + Scale * SumOver([s \in Symbols |-> QtyAfter(fills, n, s) * snap.prices[s]])
  BY DEF Reconciled
<1>2. CashAfter(more, n) = CashAfter(fills, n) /\ \A s : QtyAfter(more, n, s) = QtyAfter(fills, n, s)
  BY AfterSame
<1>3. ReadOf(more, n, snap.ts)
  <2>1. \A i \in 1..n : more[i].ts <= snap.ts BY <1>1 DEF ReadOf, Grown
  <2>2. ASSUME n < Len(more) PROVE more[n + 1].ts > snap.ts
    <3>1. CASE n < Len(fills)
      <4>1. n + 1 \in 1..Len(fills) BY <3>1
      <4>. QED BY <1>1, <3>1, <4>1 DEF ReadOf, Grown
    <3>2. CASE n = Len(fills)
      <4>1. n + 1 \in 1..Len(more) /\ n + 1 > Len(fills) BY <2>2, <3>2
      <4>2. more[n + 1].ts = at BY <4>1
      <4>. QED BY <4>2
    <3>. QED BY <3>1, <3>2
  <2>. QED BY <2>1, <2>2 DEF ReadOf
<1>4. n \in 0..Len(more) BY DEF Grown
<1>5. [s \in Symbols |-> QtyAfter(more, n, s) * snap.prices[s]]
        = [s \in Symbols |-> QtyAfter(fills, n, s) * snap.prices[s]]
  BY <1>2
<1>. QED BY <1>1, <1>2, <1>3, <1>4, <1>5 DEF Reconciled

Marked(b, prices, at) ==
  [ts |-> at, cash |-> b.cash, quantities |-> [s \in Symbols |-> Quantity(b, s)],
   prices |-> prices, equity |-> Equity(b, prices)]

\* A book is what it replays to at any close after its last fill.
LEMMA MarkIs ==
  ASSUME PortfolioAssumption, NEW b, BookOK(b), Balanced(b), NEW prices \in Market,
         NEW at \in Int, \A i \in 1..Len(b.fills) : b.fills[i].ts <= at
  PROVE  Marked(b, prices, at) \in SnapRec /\ Reconciled(Marked(b, prices, at), b.fills)
<1> DEFINE snap == Marked(b, prices, at)
           n == Len(b.fills)
<1>1. /\ b.cash \in Nat /\ Equity(b, prices) \in Nat /\ \A s \in Symbols : Quantity(b, s) \in Nat
      /\ b.fills \in Seq(FillRec) /\ n \in Nat
  BY BookIs, EquityIs, QuantityIs DEF Market
<1>2. /\ snap.ts = at /\ snap.cash = b.cash /\ snap.quantities = [s \in Symbols |-> Quantity(b, s)]
      /\ snap.prices = prices /\ snap.equity = Equity(b, prices)
  BY DEF Marked
<1>3. snap \in SnapRec
  <2>1. [s \in Symbols |-> Quantity(b, s)] \in [Symbols -> Nat] BY <1>1
  <2>2. Equity(b, prices) \in Int BY <1>1
  <2>. QED BY <1>1, <2>1, <2>2 DEF Marked, SnapRec
<1> HIDE DEF snap
<1>4. ReadOf(b.fills, n, snap.ts) BY <1>2 DEF ReadOf
<1>5. b.cash = CashAfter(b.fills, n) /\ \A s \in Symbols : Quantity(b, s) = QtyAfter(b.fills, n, s)
  BY DEF Balanced
<1>6. [s \in Symbols |-> Quantity(b, s) * prices[s]]
        = [s \in Symbols |-> QtyAfter(b.fills, n, s) * snap.prices[s]]
  BY <1>2, <1>5
<1>7. snap.equity = CashAfter(b.fills, n)
         + Scale * SumOver([s \in Symbols |-> QtyAfter(b.fills, n, s) * snap.prices[s]])
  BY <1>2, <1>5, <1>6 DEF Equity
<1>8. \A s \in Symbols : snap.quantities[s] = QtyAfter(b.fills, n, s) BY <1>2, <1>5
<1>9. n \in 0..n BY <1>1
<1>10. Reconciled(snap, b.fills)
  <2> HIDE DEF n
  <2>1. n \in 0..Len(b.fills) BY <1>9 DEF n
  <2>. QED BY <1>2, <1>4, <1>5, <1>7, <1>8, <2>1 DEF Reconciled
<1>. QED BY <1>3, <1>10 DEF snap

\* The latest rebalance, and where it left its symbols.
OpeningOK(o) ==
  /\ opened = <<o>>
  /\ BookOK(o.before) /\ o.weights \in Weights /\ o.prices \in Market
  /\ o.at \in Int /\ o.at <= day /\ (phase = "open" => o.at < day)
  /\ phase = "close" /\ o.at = day =>
       \A z \in Symbols :
         Landed(o.before, book, z, o.weights, o.prices, Equity(o.before, o.prices), day)

\* What every step of a run keeps.
RunOK ==
  /\ phase \in {"open", "close", "done"} /\ day \in 0..LastDay
  /\ phase = "done" => day = LastDay
  /\ BookOK(book) /\ Balanced(book)
  /\ target = NoTarget \/ (target \in Weights /\ phase = "open")
  /\ snapshots \in Seq(SnapRec)
  /\ Len(snapshots) = (IF phase = "done" THEN day + 1 ELSE day)
  /\ \A i \in 1..Len(snapshots) :
       snapshots[i].ts = i - 1 /\ Reconciled(snapshots[i], book.fills)
  /\ \A i \in 1..Len(book.fills) :
       book.fills[i].ts <= day /\ (phase = "open" => book.fills[i].ts < day)
  /\ opened = <<>> \/ \E o : OpeningOK(o)

LEMMA EmptyBookIs ==
  ASSUME PortfolioAssumption
  PROVE  /\ BookOK(EmptyPortfolio) /\ Balanced(EmptyPortfolio)
         /\ Len(EmptyPortfolio.fills) = 0 /\ \A s \in Symbols : Quantity(EmptyPortfolio, s) = 0
<1> DEFINE b == EmptyPortfolio
<1>1. /\ b.cash = Scale * InitialCash /\ b.lots = [s \in Symbols |-> <<>>]
      /\ b.fills = <<>> /\ b.rejections = <<>>
  BY DEF EmptyPortfolio
<1>2. Scale * InitialCash \in Nat BY Parameters, ProductNat
<1>3. BookOK(b)
  <2>1. b.lots \in [Symbols -> Seq(LotRec)] /\ \A s \in Symbols : b.lots[s] \in Seq(LotsOf(QtyStep[s]))
    BY <1>1
  <2>2. b.fills \in Seq(FillRec) /\ b.rejections \in Seq(RejRec) BY <1>1
  <2>3. b \in Books BY <1>1, <1>2, <2>1, <2>2 DEF Books, EmptyPortfolio
  <2>. QED BY <2>1, <2>3 DEF BookOK
<1>4. Len(b.fills) = 0 BY <1>1
<1>5. ASSUME NEW s PROVE CashAfter(b.fills, 0) = Scale * InitialCash /\ QtyAfter(b.fills, 0, s) = 0
  <2>1. Flows(b.fills, 0) = <<>> /\ Moves(b.fills, 0, s) = <<>> BY DEF Flows, Moves
  <2>2. CashAfter(b.fills, 0) = Scale * InitialCash + 0 /\ QtyAfter(b.fills, 0, s) = 0
    BY <2>1, TotalEmpty DEF CashAfter, QtyAfter
  <2>. QED BY <1>2, <2>2
<1>6. ASSUME NEW s \in Symbols PROVE Quantity(b, s) = 0
  <2>1. [i \in DOMAIN b.lots[s] |-> b.lots[s][i].qty] = <<>> BY <1>1
  <2>. QED BY <2>1, TotalEmpty DEF Quantity
<1>7. Balanced(b)
  <2>1. CashAfter(b.fills, 0) = b.cash /\ b.cash \in Nat BY <1>1, <1>2, <1>5
  <2>2. \A s \in Symbols : QtyAfter(b.fills, 0, s) = 0 /\ Quantity(b, s) = 0 BY <1>5, <1>6
  <2> HIDE DEF b
  <2>3. \A n \in 0..Len(b.fills) : n = 0 BY <1>4
  <2>. QED BY <1>4, <2>1, <2>2, <2>3 DEF Balanced
<1>. QED BY <1>3, <1>4, <1>6, <1>7

LEMMA InitOK ==
  ASSUME PortfolioAssumption, LastDay \in Nat, Init PROVE RunOK
<1>1. phase = "open" /\ day = 0 /\ book = EmptyPortfolio /\ target = NoTarget BY DEF Init
<1>2. snapshots = <<>> /\ opened = <<>> BY DEF Init
<1>3. snapshots \in Seq(SnapRec) /\ Len(snapshots) = 0 BY <1>2
<1>4. BookOK(book) /\ Balanced(book) /\ Len(book.fills) = 0 BY <1>1, EmptyBookIs
<1>. QED BY <1>1, <1>2, <1>4 DEF RunOK

LEMMA OpenKeeps ==
  ASSUME PortfolioAssumption, LastDay \in Nat, RunOK, NEW prices \in Market, Open(prices)
  PROVE  /\ RunOK'
         /\ target = NoTarget => book' = book
         /\ target # NoTarget => Rebalanced(book, book', target, prices, day)
<1>1. /\ phase = "open" /\ phase' = "close" /\ day' = day /\ snapshots' = snapshots
      /\ day \in Int /\ BookOK(book) /\ Balanced(book)
  BY DEF Open, RunOK
<1>2. /\ \A i \in 1..Len(snapshots) : snapshots[i].ts = i - 1 /\ Reconciled(snapshots[i], book.fills)
      /\ \A i \in 1..Len(book.fills) : book.fills[i].ts < day
      /\ Len(book.fills) \in Nat /\ Len(snapshots) = day
  BY <1>1, BookIs DEF RunOK
<1>3. CASE target = NoTarget
  <2>1. book' = book /\ target' = target /\ opened' = opened BY <1>3 DEF Open
  <2>2. ASSUME NEW o, OpeningOK(o) PROVE OpeningOK(o)'
    <3>1. /\ opened = <<o>> /\ BookOK(o.before) /\ o.weights \in Weights /\ o.prices \in Market
          /\ o.at \in Int /\ o.at < day
      BY <1>1, <2>2 DEF OpeningOK
    <3>2. o.at <= day' /\ ~(o.at = day') BY <1>1, <3>1
    <3>. QED BY <1>1, <2>1, <3>1, <3>2 DEF OpeningOK
  <2>3. (opened = <<>> \/ \E o : OpeningOK(o))' BY <2>1, <2>2 DEF RunOK
  <2>4. \A i \in 1..Len(book.fills) : book.fills[i].ts <= day BY DEF RunOK
  <2>5. RunOK' BY <1>1, <1>2, <1>3, <2>1, <2>3, <2>4 DEF RunOK
  <2>. QED BY <1>3, <2>1, <2>5
<1>4. CASE target # NoTarget
  <2>1. /\ book' = Rebalance(book, day - 1, target, day, prices) /\ target' = NoTarget
        /\ opened' = <<[at |-> day, before |-> book, weights |-> target, prices |-> prices]>>
    BY <1>4 DEF Open
  <2>2. target \in Weights BY <1>4 DEF RunOK
  <2>3. RebalanceFor(book, target, prices) BY <1>1, <2>2 DEF RebalanceFor, Weights, Market
  <2>4. day - 1 \in Int BY <1>1
  <2>5. Rebalanced(book, book', target, prices, day) BY <1>1, <2>1, <2>3, <2>4, RebalanceIs
  <2>6. /\ BookOK(book') /\ Balanced(book') /\ Filled(book, book', target, day)
        /\ \A z \in Symbols : Landed(book, book', z, target, prices, Equity(book, prices), day)
    BY <1>1, <2>5 DEF Rebalanced
  <2>7. Len(book'.fills) \in Nat BY <2>6, BookIs
  <2>8. /\ Grown(book.fills, book'.fills)
        /\ \A i \in 1..Len(book'.fills) : i > Len(book.fills) => book'.fills[i].ts = day
    BY <2>6 DEF Filled
  <2>9. \A i \in 1..Len(book'.fills) : book'.fills[i].ts <= day
    <3>1. ASSUME NEW i \in 1..Len(book'.fills) PROVE book'.fills[i].ts <= day
      <4>1. CASE i <= Len(book.fills)
        <5>1. i \in 1..Len(book.fills) BY <1>2, <4>1
        <5>2. book'.fills[i] = book.fills[i] BY <2>8, <5>1 DEF Grown
        <5>3. book.fills[i].ts <= day BY <5>1 DEF RunOK
        <5>. QED BY <5>2, <5>3
      <4>2. CASE i > Len(book.fills)
        <5>1. book'.fills[i].ts = day BY <2>8, <4>2
        <5>. QED BY <1>1, <5>1
      <4>. QED BY <1>2, <4>1, <4>2
    <3>. QED BY <3>1
  <2>10. ASSUME NEW i \in 1..Len(snapshots) PROVE Reconciled(snapshots[i], book'.fills)
    <3> DEFINE snap == snapshots[i]
    <3>1. snap.ts \in Int /\ snap.ts < day /\ Reconciled(snap, book.fills)
      <4>1. snap.ts = i - 1 /\ i \in 1..day /\ Reconciled(snap, book.fills) BY <1>2
      <4>. QED BY <1>1, <4>1
    <3> HIDE DEF snap
    <3>2. Reconciled(snap, book'.fills)
      BY <1>1, <1>2, <2>7, <2>8, <3>1, ReconciledStays
    <3>. QED BY <3>2 DEF snap
  <2>11. (\E o : OpeningOK(o))'
    <3>1. PICK o : /\ opened' = <<o>>
                   /\ o.at = day /\ o.before = book /\ o.weights = target /\ o.prices = prices
      BY <2>1
    <3>3. /\ BookOK(o.before) /\ o.weights \in Weights /\ o.prices \in Market
          /\ o.at \in Int /\ o.at <= day' /\ ~(phase' = "open")
      BY <1>1, <2>2, <3>1
    <3>4. \A z \in Symbols :
            Landed(o.before, book', z, o.weights, o.prices, Equity(o.before, o.prices), day')
      BY <1>1, <2>6, <3>1
    <3>5. OpeningOK(o)' BY <3>1, <3>3, <3>4 DEF OpeningOK
    <3>. QED BY <3>5
  <2>12. RunOK'
    <3>1. day' \in 0..LastDay /\ snapshots' \in Seq(SnapRec) BY <1>1 DEF RunOK
    <3>2. Len(snapshots') = day' /\ phase' # "done" /\ phase' # "open" BY <1>1, <1>2
    <3>3. \A i \in 1..Len(snapshots') :
             snapshots'[i].ts = i - 1 /\ Reconciled(snapshots'[i], book'.fills)
      BY <1>1, <1>2, <2>10
    <3>. QED BY <1>1, <2>1, <2>6, <2>9, <2>11, <3>1, <3>2, <3>3 DEF RunOK
  <2>. QED BY <1>4, <2>5, <2>12
<1>. QED BY <1>3, <1>4

LEMMA CloseKeeps ==
  ASSUME PortfolioAssumption, LastDay \in Nat, RunOK, NEW prices \in Market,
         NEW decision, decision = NoTarget \/ decision \in Weights, Close(prices, decision)
  PROVE  /\ RunOK'
         /\ book'.fills = book.fills /\ book'.lots = book.lots
         /\ Grown(book.rejections, book'.rejections)
         /\ snapshots' = Append(snapshots, Marked(book, prices, day))
<1>1. /\ phase = "close" /\ BookOK(book) /\ Balanced(book) /\ day \in Int /\ day \in 0..LastDay
      /\ target = NoTarget /\ opened' = opened
      /\ Len(snapshots) = day /\ snapshots \in Seq(SnapRec)
      /\ snapshots' = Append(snapshots, Marked(book, prices, day))
  <2>1. phase = "close" /\ opened' = opened BY DEF Close
  <2>2. /\ BookOK(book) /\ Balanced(book) /\ day \in Int /\ day \in 0..LastDay
        /\ target = NoTarget /\ Len(snapshots) = day /\ snapshots \in Seq(SnapRec)
    BY <2>1 DEF RunOK
  <2>3. snapshots' = Append(snapshots, Marked(book, prices, day)) BY Zenon DEF Close, Marked
  <2>. QED BY <2>1, <2>2, <2>3
<1>2. /\ \A i \in 1..Len(snapshots) : snapshots[i].ts = i - 1 /\ Reconciled(snapshots[i], book.fills)
      /\ \A i \in 1..Len(book.fills) : book.fills[i].ts <= day
  BY DEF RunOK
<1>3. /\ book.fills \in Seq(FillRec) /\ book.rejections \in Seq(RejRec) /\ Len(book.fills) \in Nat
      /\ Len(book.rejections) \in Nat
  BY <1>1, BookIs
<1>4. /\ book'.fills = book.fills /\ book'.lots = book.lots /\ book'.cash = book.cash
      /\ Grown(book.rejections, book'.rejections) /\ BookOK(book')
  <2>1. CASE book' = book BY <1>1, <1>3, <2>1, GrownSelf
  <2>2. CASE book' # book
    <3> DEFINE r == [decision_ts |-> day, ts |-> day, symbol |-> "", side |-> "",
                     reason |-> "no_next_open"]
    <3>1. book' = [book EXCEPT !.rejections = Append(@, r)] BY <2>2 DEF Close
    <3>2. r \in RejRec BY <1>1 DEF RejRec, Reasons
    <3> HIDE DEF r
    <3>3. Append(book.rejections, r) \in Seq(RejRec) /\ Grown(book.rejections, Append(book.rejections, r))
      <4>1. /\ Append(book.rejections, r) \in Seq(RejRec)
            /\ Len(Append(book.rejections, r)) = Len(book.rejections) + 1
            /\ \A i \in 1..Len(book.rejections) : Append(book.rejections, r)[i] = book.rejections[i]
        BY <1>3, <3>2, AppendIs
      <4>. QED BY <1>3, <4>1 DEF Grown
    <3>4. /\ book'.fills = book.fills /\ book'.lots = book.lots /\ book'.cash = book.cash
          /\ book'.rejections = Append(book.rejections, r)
      BY <1>1, <3>1 DEF BookOK, Books
    <3>5. book' \in Books BY <1>1, <3>1, <3>3 DEF BookOK, Books
    <3>. QED BY <1>1, <3>3, <3>4, <3>5 DEF BookOK
  <2>. QED BY <2>1, <2>2
<1>5. Balanced(book')
  <2>1. \A s \in Symbols : Quantity(book', s) = Quantity(book, s) BY <1>4 DEF Quantity
  <2>. QED BY <1>1, <1>4, <2>1 DEF Balanced
<1>6. Marked(book, prices, day) \in SnapRec /\ Reconciled(Marked(book, prices, day), book.fills)
  BY <1>1, <1>2, MarkIs
<1>7. /\ snapshots' \in Seq(SnapRec) /\ Len(snapshots') = day + 1
      /\ \A i \in 1..Len(snapshots') :
           snapshots'[i].ts = i - 1 /\ Reconciled(snapshots'[i], book'.fills)
  <2> DEFINE snap == Marked(book, prices, day)
  <2>1. snap \in SnapRec /\ snap.ts = day /\ Reconciled(snap, book'.fills)
    BY <1>4, <1>6 DEF Marked
  <2> HIDE DEF snap
  <2>2. snapshots' = Append(snapshots, snap) BY <1>1 DEF snap
  <2>3. /\ snapshots' \in Seq(SnapRec) /\ Len(snapshots') = day + 1 /\ snapshots'[day + 1] = snap
        /\ \A i \in 1..day : snapshots'[i] = snapshots[i]
    BY <1>1, <2>1, <2>2, AppendIs
  <2>4. ASSUME NEW i \in 1..Len(snapshots')
        PROVE  snapshots'[i].ts = i - 1 /\ Reconciled(snapshots'[i], book'.fills)
    <3>1. CASE i = day + 1 BY <1>1, <2>1, <2>3, <3>1
    <3>2. CASE i # day + 1
      <4>1. i \in 1..Len(snapshots) /\ snapshots'[i] = snapshots[i] BY <1>1, <2>3, <3>2
      <4>. QED BY <1>2, <1>4, <4>1
    <3>. QED BY <3>1, <3>2
  <2>. QED BY <2>3, <2>4
<1>8. CASE day < LastDay
  <2>1. phase' = "open" /\ day' = day + 1 /\ target' = decision BY <1>8 DEF Close
  <2>2. day' \in 0..LastDay BY <1>1, <1>8, <2>1
  <2>3. ASSUME NEW i \in 1..Len(book'.fills) PROVE book'.fills[i].ts < day'
    <3>1. book'.fills[i].ts <= day /\ book'.fills[i] \in FillRec BY <1>2, <1>3, <1>4
    <3>2. book'.fills[i].ts \in Int BY <3>1 DEF FillRec
    <3>. QED BY <1>1, <2>1, <3>1, <3>2
  <2>4. \A i \in 1..Len(book'.fills) : book'.fills[i].ts <= day'
    <3>1. ASSUME NEW i \in 1..Len(book'.fills) PROVE book'.fills[i].ts <= day'
      <4>1. book'.fills[i].ts < day' /\ book'.fills[i] \in FillRec BY <1>3, <1>4, <2>3
      <4>2. book'.fills[i].ts \in Int BY <4>1 DEF FillRec
      <4>. QED BY <1>1, <2>1, <4>1, <4>2
    <3>. QED BY <3>1
  <2>5. ASSUME NEW o, OpeningOK(o) PROVE OpeningOK(o)'
    <3>1. /\ opened' = <<o>> /\ BookOK(o.before) /\ o.weights \in Weights /\ o.prices \in Market
          /\ o.at \in Int /\ o.at <= day
      BY <1>1, <2>5 DEF OpeningOK
    <3>2. o.at <= day' /\ o.at < day' BY <1>1, <2>1, <3>1
    <3>. QED BY <2>1, <3>1, <3>2 DEF OpeningOK
  <2>6. (opened = <<>> \/ \E o : OpeningOK(o))' BY <1>1, <2>5 DEF RunOK
  <2>7. target' = NoTarget \/ target' \in Weights BY <2>1
  <2>8. Len(snapshots') = (IF phase' = "done" THEN day' + 1 ELSE day') BY <1>7, <2>1
  <2>. QED BY <1>1, <1>4, <1>5, <1>7, <2>1, <2>2, <2>3, <2>4, <2>6, <2>7, <2>8 DEF RunOK
<1>9. CASE ~(day < LastDay)
  <2>1. phase' = "done" /\ day' = day /\ target' = target /\ day = LastDay
    <3>1. phase' = "done" /\ day' = day /\ target' = target BY <1>9 DEF Close
    <3>2. day = LastDay BY <1>1, <1>9
    <3>. QED BY <3>1, <3>2
  <2>2. ASSUME NEW o, OpeningOK(o) PROVE OpeningOK(o)'
    <3>1. /\ opened' = <<o>> /\ BookOK(o.before) /\ o.weights \in Weights /\ o.prices \in Market
          /\ o.at \in Int /\ o.at <= day
      BY <1>1, <2>2 DEF OpeningOK
    <3>. QED BY <2>1, <3>1 DEF OpeningOK
  <2>3. (opened = <<>> \/ \E o : OpeningOK(o))' BY <1>1, <2>2 DEF RunOK
  <2>4. Len(snapshots') = (IF phase' = "done" THEN day' + 1 ELSE day') BY <1>7, <2>1
  <2>. QED BY <1>1, <1>2, <1>4, <1>5, <1>7, <2>1, <2>3, <2>4 DEF RunOK
<1>. QED BY <1>1, <1>4, <1>8, <1>9

LEMMA MarketIs ==
  ASSUME TargetAssumption
  PROVE  /\ LastDay \in Nat
         /\ \A prices \in OpenPrices \cup ClosePrices : prices \in Market
         /\ \A w \in Targets \cup {NoTarget} : w = NoTarget \/ w \in Weights
BY DEF TargetAssumption, Market, Weights

\* A step that changes nothing of the run keeps it.
LEMMA StutterKeeps ==
  ASSUME RunOK, UNCHANGED vars PROVE RunOK'
<1>1. /\ phase' = phase /\ day' = day /\ book' = book /\ target' = target
      /\ snapshots' = snapshots /\ opened' = opened
  BY DEF vars
<1>2. ASSUME NEW o, OpeningOK(o) PROVE OpeningOK(o)' BY <1>1, <1>2 DEF OpeningOK
<1>3. (opened = <<>> \/ \E o : OpeningOK(o))' BY <1>1, <1>2 DEF RunOK
<1>. QED BY <1>1, <1>3 DEF RunOK

LEMMA NextKeeps ==
  ASSUME PortfolioAssumption, TargetAssumption, RunOK, [Next]_vars PROVE RunOK'
<1>1. LastDay \in Nat BY MarketIs
<1>2. ASSUME NEW prices \in OpenPrices, Open(prices) PROVE RunOK'
  <2>1. prices \in Market BY MarketIs
  <2>. QED BY <1>1, <1>2, <2>1, OpenKeeps
<1>3. ASSUME NEW prices \in ClosePrices, NEW decision \in Targets \cup {NoTarget},
             Close(prices, decision)
      PROVE  RunOK'
  <2>1. prices \in Market /\ (decision = NoTarget \/ decision \in Weights) BY MarketIs
  <2>. QED BY <1>1, <1>3, <2>1, CloseKeeps
<1>4. CASE UNCHANGED vars BY <1>4, StutterKeeps
<1>. QED BY <1>2, <1>3, <1>4 DEF Next

LEMMA TypesFollow ==
  ASSUME PortfolioAssumption, RunOK PROVE TypeOK
<1>1. BookOK(book) BY DEF RunOK
<1>2. book.cash \in Nat BY <1>1, BookIs
<1>3. ASSUME NEW s \in Symbols, NEW i \in 1..Len(book.lots[s])
      PROVE  book.lots[s][i].qty \in Nat \ {0}
  <2>1. book.lots[s] \in Seq(LotsOf(QtyStep[s])) /\ QtyStep[s] \in Nat \ {0} BY <1>1, QuantityIs
  <2>. QED BY <2>1, QtysAre
<1>. QED BY <1>2, <1>3 DEF RunOK, TypeOK, Weights

LEMMA ReconciliationFollows ==
  ASSUME PortfolioAssumption, RunOK PROVE SnapshotsReconcile
<1>1. BookOK(book) /\ Balanced(book) BY DEF RunOK
<1>2. ASSUME NEW n, NEW s
      PROVE  ReplayedCash(n) = CashAfter(book.fills, n) /\ ReplayedQuantity(n, s) = QtyAfter(book.fills, n, s)
  BY DEF ReplayedCash, ReplayedQuantity, CashAfter, QtyAfter, Flows, Moves
<1>3. Len(book.fills) \in Nat BY <1>1, BookIs
<1>4. \A n \in 1..Len(book.fills) :
        ReplayedCash(n) >= 0 /\ \A s \in Symbols : ReplayedQuantity(n, s) >= 0
  BY <1>1, <1>2, <1>3 DEF Balanced
<1>5. ASSUME NEW i \in 1..Len(snapshots)
      PROVE  \E n \in 0..Len(book.fills) :
               LET snap == snapshots[i]
               IN /\ ReadBy(n, snap.ts)
                  /\ snap.cash = ReplayedCash(n)
                  /\ \A s \in Symbols : snap.quantities[s] = ReplayedQuantity(n, s)
                  /\ snap.equity = ReplayedCash(n)
                       + Scale * SumOver([s \in Symbols |-> ReplayedQuantity(n, s) * snap.prices[s]])
  <2> DEFINE snap == snapshots[i]
  <2>1. Reconciled(snap, book.fills) BY DEF RunOK
  <2>2. PICK n \in 0..Len(book.fills) :
             /\ ReadOf(book.fills, n, snap.ts)
             /\ snap.cash = CashAfter(book.fills, n)
             /\ \A s \in Symbols : snap.quantities[s] = QtyAfter(book.fills, n, s)
             /\ snap.equity = CashAfter(book.fills, n)
                  + Scale * SumOver([s \in Symbols |-> QtyAfter(book.fills, n, s) * snap.prices[s]])
    BY <2>1 DEF Reconciled
  <2>3. [s \in Symbols |-> ReplayedQuantity(n, s) * snap.prices[s]]
          = [s \in Symbols |-> QtyAfter(book.fills, n, s) * snap.prices[s]]
    BY <1>2
  <2>4. ReadBy(n, snap.ts) BY <2>2 DEF ReadOf, ReadBy
  <2>. QED BY <1>2, <2>2, <2>3, <2>4
<1>. QED BY <1>4, <1>5 DEF SnapshotsReconcile

LEMMA LandingFollows ==
  ASSUME PortfolioAssumption, RunOK PROVE LandsOnTarget
<1>1. SUFFICES ASSUME phase = "close", opened # <<>>, opened[1].at = day,
                      NEW s \in Symbols
               PROVE  LET o == opened[1]
                          nav == Equity(o.before, o.prices)
                          unit == o.prices[s] * Scale * Scale
                          gap == Gap(book, s, nav, o.weights[s], o.prices[s])
                          came == Gap(o.before, s, nav, o.weights[s], o.prices[s])
                      IN /\ came >= 0 => 0 <= gap
                         /\ came <= 0 => gap <= 0
                         /\ \/ (IF gap > 0 THEN gap ELSE -gap) < unit * QtyStep[s]
                            \/ RejectedAs(s, {"below_min_qty", "below_min_notional"})
                            \/ came > 0 /\ book.cash < UnitCost(o.prices[s]) * QtyStep[s]
  BY DEF LandsOnTarget
<1>2. PICK o : OpeningOK(o) BY <1>1 DEF RunOK
<1>3. /\ opened[1] = o /\ o.at = day /\ BookOK(o.before) /\ o.weights \in Weights
      /\ o.prices \in Market /\ BookOK(book)
  BY <1>1, <1>2 DEF OpeningOK, RunOK
<1> DEFINE nav == Equity(o.before, o.prices)
           w == o.weights[s]
           p == o.prices[s]
           gap == Gap(book, s, nav, w, p)
           came == Gap(o.before, s, nav, w, p)
           step == Unit(p) * QtyStep[s]
<1>4. Landed(o.before, book, s, o.weights, o.prices, nav, day) BY <1>1, <1>2, <1>3 DEF OpeningOK
<1>5. /\ came >= 0 => gap >= 0
      /\ came <= 0 => gap <= 0
      /\ came < 0 => -gap < step \/ Refused(book, day, s, "sell")
      /\ came > 0 => gap < step \/ Refused(book, day, s, "buy") \/ book.cash < UnitCost(p) * QtyStep[s]
  BY <1>4 DEF Landed
<1>6. \A side : Refused(book, day, s, side) => RejectedAs(s, {"below_min_qty", "below_min_notional"})
  BY DEF Refused, RejectedAs, Minimums
<1>7. nav \in Nat /\ w \in Nat /\ p \in Nat \ {0}
  BY <1>3, EquityIs, Parameters DEF Market, Weights
<1>8. came \in Int /\ gap \in Int
  <2> HIDE DEF nav, w, p
  <2>. QED BY <1>3, <1>7, GapIs
<1>9. step \in Nat \ {0}
  <2>1. Unit(p) \in Nat \ {0} /\ QtyStep[s] \in Nat \ {0}
    <3> HIDE DEF p
    <3>. QED BY <1>7, UnitIs, Parameters
  <2> DEFINE u == Unit(p)
             k == QtyStep[s]
  <2>2. u * k \in Nat \ {0}
    <3> HIDE DEF u, k
    <3>1. u \in Nat \ {0} /\ k \in Nat \ {0} BY <2>1 DEF u, k
    <3>. QED BY <3>1
  <2>. QED BY <2>2
<1>10. step = (o.prices[s] * Scale * Scale) * QtyStep[s] BY DEF Unit
<1> DEFINE rejected == RejectedAs(s, {"below_min_qty", "below_min_notional"})
           short == book.cash < UnitCost(p) * QtyStep[s]
<1>11. /\ came >= 0 => 0 <= gap
       /\ came <= 0 => gap <= 0
       /\ (IF gap > 0 THEN gap ELSE -gap) < step \/ rejected \/ (came > 0 /\ short)
  <2>1. came > 0 => gap < step \/ rejected \/ short BY <1>5, <1>6
  <2>2. came < 0 => -gap < step \/ rejected BY <1>5, <1>6
  <2>3. came >= 0 => gap >= 0 BY <1>5
  <2>4. came <= 0 => gap <= 0 BY <1>5
  <2> HIDE DEF came, gap, step, rejected, short
  <2>. QED BY <1>8, <1>9, <2>1, <2>2, <2>3, <2>4
<1>. QED BY <1>3, <1>10, <1>11

-----------------------------------------------------------------------------
\* Types of any run of the portfolio: cash is never borrowed, no lot is empty.
THEOREM PortfolioTypes ==
  ASSUME PortfolioAssumption, TargetAssumption PROVE Spec => []TypeOK
<1>1. Init => RunOK BY MarketIs, InitOK
<1>2. RunOK /\ [Next]_vars => RunOK' BY NextKeeps
<1>3. RunOK => TypeOK BY TypesFollow
<1>. QED BY <1>1, <1>2, <1>3, PTL DEF Spec

\* reconcile_snapshots of portfolio_ledger.py never raises: the fills alone
\* replay to the cash, the quantities and the equity of every snapshot.
THEOREM SnapshotsAreReplays ==
  ASSUME PortfolioAssumption, TargetAssumption PROVE Spec => []SnapshotsReconcile
<1>1. Init => RunOK BY MarketIs, InitOK
<1>2. RunOK /\ [Next]_vars => RunOK' BY NextKeeps
<1>3. RunOK => SnapshotsReconcile BY ReconciliationFollows
<1>. QED BY <1>1, <1>2, <1>3, PTL DEF Spec

\* rebalance of portfolio_ledger.py: every symbol ends within a step of its
\* target, or a minimum or the cash left kept it off.
THEOREM RebalancesLandOnTarget ==
  ASSUME PortfolioAssumption, TargetAssumption PROVE Spec => []LandsOnTarget
<1>1. Init => RunOK BY MarketIs, InitOK
<1>2. RunOK /\ [Next]_vars => RunOK' BY NextKeeps
<1>3. RunOK => LandsOnTarget BY LandingFollows
<1>. QED BY <1>1, <1>2, <1>3, PTL DEF Spec

-----------------------------------------------------------------------------
(***************************************************************************)
(* The momentum rotation.                                                  *)
(***************************************************************************)
\* What is to be sold whole is, or a minimum refused it.
LEMMA SoldOut ==
  ASSUME PortfolioAssumption, NEW b, BookOK(b), NEW m, BookOK(m), NEW weights \in Weights,
         NEW prices \in Market, NEW z \in Symbols, weights[z] = 0, NEW nav \in Nat, NEW at,
         Landed(b, m, z, weights, prices, nav, at)
  PROVE  Quantity(m, z) = 0 \/ Refused(m, at, z, "sell")
<1> DEFINE w == weights[z]
           p == prices[z]
           u == Unit(p)
           q == Quantity(m, z)
           k == QtyStep[z]
           came == Gap(b, z, nav, w, p)
           gap == Gap(m, z, nav, w, p)
<1>1. w \in Nat /\ w = 0 /\ p \in Nat \ {0} BY DEF Market
<1>2. q \in Nat /\ Whole(q, k) /\ k \in Nat \ {0} /\ u \in Nat \ {0}
  <2> HIDE DEF p
  <2>. QED BY <1>1, QuantityIs, UnitIs
<1>3. /\ came >= 0 => gap >= 0
      /\ came < 0 => -gap < u * k \/ Refused(m, at, z, "sell")
  BY DEF Landed
<1>4. came <= 0 /\ gap <= 0 /\ came \in Int /\ gap \in Int
  <2> HIDE DEF w, p
  <2>. QED BY <1>1, GapOfNothing, GapIs
<1>5. gap = -(q * u)
  <2>1. gap = nav * w - q * u /\ q * u \in Nat
    <3> HIDE DEF w, p
    <3>. QED BY <1>1, GapIs
  <2> DEFINE x == nav * w
             y == q * u
  <2>2. x = 0 BY <1>1
  <2> HIDE DEF x, y
  <2>3. gap = x - y /\ y \in Nat BY <2>1 DEF x, y
  <2> HIDE DEF gap
  <2>4. gap = -y BY <2>2, <2>3
  <2>. QED BY <2>4 DEF y
<1> HIDE DEF w, p, u, q, k, came, gap
<1>6. CASE came >= 0
  <2>1. gap = 0 BY <1>3, <1>4, <1>6
  <2>2. q * u = 0
    <3> DEFINE y == q * u
    <3>1. y \in Int BY <1>2
    <3>2. gap = -y BY <1>5
    <3> HIDE DEF y
    <3>3. y = 0 BY <2>1, <3>1, <3>2
    <3>. QED BY <3>3 DEF y
  <2>3. q >= 1 => q * u >= u BY <1>2, ProductAtLeast
  <2>4. q = 0 BY <1>2, <2>2, <2>3
  <2>. QED BY <2>4 DEF q
<1>7. CASE came < 0
  <2>1. CASE Refused(m, at, z, "sell") BY <2>1
  <2>2. CASE -gap < u * k
    <3>1. q * u < k * u
      <4> DEFINE y == q * u
                 x == u * k
      <4>1. y \in Int /\ x \in Int /\ k * u = x BY <1>2
      <4>2. gap = -y /\ -gap < x BY <1>5, <2>2
      <4> HIDE DEF x, y
      <4>3. y < x BY <4>1, <4>2
      <4>. QED BY <4>1, <4>3 DEF y
    <3>2. q < k
      <4>1. q >= k => k * u <= q * u BY <1>2, ProductUp
      <4> DEFINE y == q * u
                 x == k * u
      <4>2. y \in Int /\ x \in Int /\ y < x /\ (q >= k => x <= y) BY <1>2, <3>1, <4>1
      <4> HIDE DEF x, y
      <4>. QED BY <1>2, <4>2
    <3>3. q = 0 BY <1>2, <3>2, WholeUnder
    <3>. QED BY <3>3 DEF q
  <2>. QED BY <1>3, <1>7, <2>1, <2>2
<1>. QED BY <1>4, <1>6, <1>7

LEMMA CashIsATarget ==
  ASSUME PortfolioAssumption
  PROVE  AllCash \in Weights /\ AllCash # NoTarget /\ \A s \in Symbols : AllCash[s] = 0
<1>1. Scale \in Nat /\ Len(Pool) \in Nat \ {0} BY Parameters
<1>2. AllCash \in Weights /\ \A s \in Symbols : AllCash[s] = 0 BY <1>1 DEF AllCash, Weights
<1>3. AllCash # NoTarget
  <2>1. Pool[1] \in Symbols BY <1>1 DEF Symbols
  <2>2. DOMAIN AllCash = Symbols BY DEF AllCash
  <2>3. DOMAIN NoTarget = {} BY DEF NoTarget
  <2>. QED BY <2>1, <2>2, <2>3
<1>. QED BY <1>2, <1>3

LEMMA PartsAreWeights ==
  ASSUME PortfolioAssumption, RotationAssumption, NEW c PROVE EqualWeights(c) \in Weights
<1>1. Scale \in Nat \ {0} /\ Len(Pool) \in Nat /\ TopK \in 1..Len(Pool)
  BY Parameters DEF RotationAssumption
<1> DEFINE part == Scale \div TopK
<1>2. part \in 0..Scale
  <2> DEFINE S == Scale
             k == TopK
  <2>1. S \in Nat /\ k \in Nat \ {0} BY <1>1
  <2> HIDE DEF S, k
  <2>2. S \div k \in 0..S BY <2>1, PartOf
  <2>. QED BY <2>2 DEF S, k
<1> HIDE DEF part
<1>3. 0 \in 0..Scale BY <1>1
<1>. QED BY <1>2, <1>3 DEF EqualWeights, Weights, part

LEMMA DecidedIs ==
  ASSUME PortfolioAssumption, RotationAssumption, NEW d, NEW blocked \in BOOLEAN,
         NEW decision \in Decisions(d, blocked)
  PROVE  /\ decision = NoTarget \/ decision \in Weights
         /\ blocked => decision = AllCash
         /\ ~blocked /\ ~Monday(d) => decision = NoTarget
BY CashIsATarget, PartsAreWeights DEF Decisions

Quiet(d) == d \notin blockedDays /\ ~Monday(d)

Ranked(f) == (FirstWeekday + f.ts) % 7 = 0 /\ f.ts \notin blockedDays

\* What each step of a rotation keeps, beside the portfolio.
RotationOK ==
  /\ RunOK
  /\ blockedDays \subseteq 1..LastDay /\ \A d \in blockedDays : d <= day
  /\ phase = "open" /\ day \in blockedDays => target = AllCash
  /\ phase = "open" /\ Quiet(day) => target = NoTarget
  /\ phase = "close" /\ day \in blockedDays =>
       \A s \in Symbols : Quantity(book, s) = 0 \/ Refused(book, day, s, "sell")
  /\ \A d \in blockedDays, s \in Symbols :
       d < Len(snapshots) /\ snapshots[d + 1].quantities[s] > 0 => Refused(book, d, s, "sell")
  /\ day >= 1 /\ (phase = "open" \/ (phase = "close" /\ Quiet(day))) =>
       \A s \in Symbols : Quantity(book, s) = snapshots[day].quantities[s]
  /\ \A i \in 2..Len(snapshots) :
       Quiet(i - 1) => \A s \in Symbols : snapshots[i].quantities[s] = snapshots[i - 1].quantities[s]
  /\ \A i \in 1..Len(book.fills) :
       Ranked(book.fills[i]) \/ (book.fills[i].side = "sell" /\ book.fills[i].ts \in blockedDays)

LEMMA RotationInitOK ==
  ASSUME PortfolioAssumption, LastDay \in Nat, RotationInit PROVE RotationOK
<1>1. Init /\ blockedDays = {} BY DEF RotationInit
<1>2. RunOK BY <1>1, InitOK
<1>3. /\ phase = "open" /\ day = 0 /\ target = NoTarget /\ book = EmptyPortfolio /\ snapshots = <<>>
  BY <1>1 DEF Init
<1>4. Len(book.fills) = 0 /\ Len(snapshots) = 0 BY <1>3, EmptyBookIs
<1>. QED BY <1>1, <1>2, <1>3, <1>4 DEF RotationOK

LEMMA RotationStutters ==
  ASSUME RotationOK, UNCHANGED rotationVars PROVE RotationOK'
<1>1. UNCHANGED vars /\ blockedDays' = blockedDays BY DEF rotationVars
<1>2. /\ phase' = phase /\ day' = day /\ book' = book /\ target' = target
      /\ snapshots' = snapshots
  BY <1>1 DEF vars
<1>3. RunOK' BY <1>1, StutterKeeps DEF RotationOK
<1>. QED BY <1>1, <1>2, <1>3 DEF RotationOK, Quiet, Ranked

LEMMA RotationOpens ==
  ASSUME PortfolioAssumption, LastDay \in Nat, RotationOK, NEW prices \in Market, Open(prices),
         blockedDays' = blockedDays
  PROVE  RotationOK'
<1>1. /\ RunOK /\ RunOK'
      /\ target = NoTarget => book' = book
      /\ target # NoTarget => Rebalanced(book, book', target, prices, day)
  BY OpenKeeps DEF RotationOK
<1>2. /\ phase = "open" /\ phase' = "close" /\ day' = day /\ snapshots' = snapshots
  BY DEF Open
<1>3. BookOK(book) /\ BookOK(book') /\ day \in Nat /\ Len(snapshots) = day BY <1>1, <1>2 DEF RunOK
<1>4. /\ Len(book.fills) \in Nat /\ Len(book'.fills) \in Nat
      /\ Len(book.rejections) \in Nat /\ Len(book'.rejections) \in Nat
      /\ book'.fills \in Seq(FillRec)
  BY <1>3, BookIs
<1>5. Grown(book.rejections, book'.rejections)
  <2>1. CASE target = NoTarget BY <1>1, <1>4, <2>1, GrownSelf
  <2>2. CASE target # NoTarget BY <1>1, <2>2 DEF Rebalanced
  <2>. QED BY <2>1, <2>2
<1>6. ASSUME day \in blockedDays, NEW s \in Symbols
      PROVE  Quantity(book', s) = 0 \/ Refused(book', day, s, "sell")
  <2>1. target = AllCash /\ target # NoTarget /\ target \in Weights /\ target[s] = 0
    BY <1>2, <1>6, CashIsATarget DEF RotationOK
  <2>2. Landed(book, book', s, target, prices, Equity(book, prices), day)
    BY <1>1, <2>1 DEF Rebalanced
  <2>3. Equity(book, prices) \in Nat BY <1>3, EquityIs DEF Market
  <2>. QED BY <1>3, <2>1, <2>2, <2>3, SoldOut
<1>7. \A d \in blockedDays, s \in Symbols :
        d < Len(snapshots) /\ snapshots[d + 1].quantities[s] > 0 => Refused(book', d, s, "sell")
  <2>1. \A d \in blockedDays, s \in Symbols :
          d < Len(snapshots) /\ snapshots[d + 1].quantities[s] > 0 => Refused(book, d, s, "sell")
    BY DEF RotationOK
  <2>2. \A d, s : Refused(book, d, s, "sell") => Refused(book', d, s, "sell")
    BY <1>4, <1>5, RefusedStays
  <2>. QED BY <2>1, <2>2
<1>8. day >= 1 /\ Quiet(day) => \A s \in Symbols : Quantity(book', s) = snapshots[day].quantities[s]
  <2>1. Quiet(day) => book' = book BY <1>1, <1>2 DEF RotationOK
  <2>2. day >= 1 => \A s \in Symbols : Quantity(book, s) = snapshots[day].quantities[s]
    BY <1>2 DEF RotationOK
  <2>. QED BY <2>1, <2>2
<1>9. ASSUME NEW i \in 1..Len(book'.fills)
      PROVE  LET f == book'.fills[i] IN Ranked(f) \/ (f.side = "sell" /\ f.ts \in blockedDays)
  <2> DEFINE f == book'.fills[i]
  <2>1. \A j \in 1..Len(book.fills) :
          Ranked(book.fills[j]) \/ (book.fills[j].side = "sell" /\ book.fills[j].ts \in blockedDays)
    BY DEF RotationOK
  <2>2. CASE target = NoTarget
    <3>1. book' = book BY <1>1, <2>2
    <3>. QED BY <2>1, <3>1
  <2>3. CASE target # NoTarget /\ i <= Len(book.fills)
    <3>1. Grown(book.fills, book'.fills) BY <1>1, <2>3 DEF Rebalanced, Filled
    <3>2. i \in 1..Len(book.fills) BY <1>4, <2>3
    <3>3. f = book.fills[i] BY <3>1, <3>2 DEF Grown
    <3>. QED BY <2>1, <3>2, <3>3
  <2>4. CASE target # NoTarget /\ i > Len(book.fills)
    <3>1. f.ts = day /\ (f.side = "buy" => target[f.symbol] > 0)
      BY <1>1, <2>4 DEF Rebalanced, Filled
    <3>2. f \in FillRec BY <1>4
    <3>3. f.symbol \in Symbols /\ f.side \in OrderSides BY <3>2 DEF FillRec
    <3> HIDE DEF f
    <3>4. ~Quiet(day) BY <1>2, <2>4 DEF RotationOK
    <3>5. CASE day \in blockedDays
      <4>1. target = AllCash BY <1>2, <3>5 DEF RotationOK
      <4>2. target[f.symbol] = 0 BY <3>3, <4>1, CashIsATarget
      <4>3. f.side = "sell" BY <3>1, <3>3, <4>2 DEF OrderSides
      <4>4. f.side = "sell" /\ f.ts \in blockedDays BY <3>1, <3>5, <4>3
      <4>. QED BY <4>4 DEF f
    <3>6. CASE day \notin blockedDays
      <4>1. Monday(day) BY <3>4, <3>6 DEF Quiet
      <4>2. Ranked(f) BY <3>1, <3>6, <4>1 DEF Ranked, Monday
      <4>. QED BY <4>2 DEF f
    <3>. QED BY <3>5, <3>6
  <2>. QED BY <1>4, <2>2, <2>3, <2>4
<1>10. /\ blockedDays \subseteq 1..LastDay /\ \A d \in blockedDays : d <= day
       /\ \A i \in 2..Len(snapshots) :
            Quiet(i - 1) =>
              \A s \in Symbols : snapshots[i].quantities[s] = snapshots[i - 1].quantities[s]
  BY DEF RotationOK
<1>11. (\A i \in 1..Len(book.fills) :
          Ranked(book.fills[i]) \/ (book.fills[i].side = "sell" /\ book.fills[i].ts \in blockedDays))'
  BY <1>9 DEF Ranked
<1>. QED BY <1>1, <1>2, <1>6, <1>7, <1>8, <1>10, <1>11 DEF RotationOK, Quiet

\* What a rotation's close decides: the next day joins the blocked ones or not.
DecidesNext(decision) ==
  /\ decision = NoTarget \/ decision \in Weights
  /\ blockedDays' = blockedDays \/ (blockedDays' = blockedDays \cup {day + 1} /\ day < LastDay)
  /\ day < LastDay /\ day + 1 \in blockedDays' => decision = AllCash
  /\ day < LastDay /\ day + 1 \notin blockedDays' /\ ~Monday(day + 1) => decision = NoTarget

LEMMA RotationCloses ==
  ASSUME PortfolioAssumption, LastDay \in Nat, RotationOK, NEW prices \in Market,
         NEW decision, DecidesNext(decision), Close(prices, decision)
  PROVE  RotationOK'
<1> DEFINE snap == Marked(book, prices, day)
<1>1. /\ RunOK /\ RunOK' /\ book'.fills = book.fills /\ book'.lots = book.lots
      /\ Grown(book.rejections, book'.rejections) /\ snapshots' = Append(snapshots, snap)
  BY CloseKeeps DEF RotationOK, DecidesNext
<1>2. /\ phase = "close" /\ phase' \in {"open", "done"} /\ day \in Nat /\ day \in 0..LastDay
      /\ phase' = "open" => day < LastDay /\ day' = day + 1 /\ target' = decision
      /\ phase' = "done" => day' = day
  <2>1. day \in 0..LastDay BY <1>1 DEF RunOK
  <2>2. phase = "close" BY DEF Close
  <2>3. \/ day < LastDay /\ phase' = "open" /\ day' = day + 1 /\ target' = decision
        \/ phase' = "done" /\ day' = day
    BY DEF Close
  <2>. QED BY <2>1, <2>2, <2>3
<1>3. /\ BookOK(book) /\ BookOK(book') /\ Len(snapshots) = day /\ snapshots \in Seq(SnapRec)
      /\ snap \in SnapRec /\ snap.quantities = [s \in Symbols |-> Quantity(book, s)]
  <2>1. /\ BookOK(book) /\ Balanced(book) /\ BookOK(book') /\ Len(snapshots) = day
        /\ snapshots \in Seq(SnapRec) /\ \A i \in 1..Len(book.fills) : book.fills[i].ts <= day
    BY <1>1, <1>2 DEF RunOK
  <2>2. snap \in SnapRec BY <1>2, <2>1, MarkIs
  <2>. QED BY <2>1, <2>2 DEF Marked
<1> HIDE DEF snap
<1>4. /\ Len(snapshots') = day + 1 /\ snapshots'[day + 1] = snap
      /\ \A i \in 1..day : snapshots'[i] = snapshots[i]
  BY <1>1, <1>2, <1>3, AppendIs
<1>5. /\ Len(book.rejections) \in Nat /\ Len(book'.rejections) \in Nat
      /\ book.fills \in Seq(FillRec) /\ Len(book.fills) \in Nat
  BY <1>3, BookIs
<1>6. ASSUME NEW d \in Int, d <= day PROVE d \in blockedDays' <=> d \in blockedDays
  <2>1. d # day + 1 BY <1>2, <1>6
  <2>. QED BY <2>1 DEF DecidesNext
<1>7. \A s \in Symbols : Quantity(book', s) = Quantity(book, s) BY <1>1 DEF Quantity
<1>8. blockedDays' \subseteq 1..LastDay /\ \A d \in blockedDays' : d <= day'
  <2>1. blockedDays \subseteq 1..LastDay /\ \A d \in blockedDays : d <= day BY DEF RotationOK
  <2>2. day <= day' BY <1>2
  <2>3. CASE blockedDays' = blockedDays
    <3>1. \A d \in blockedDays : d <= day'
      <4>1. ASSUME NEW d \in blockedDays PROVE d <= day'
        <5>1. d \in Int /\ d <= day /\ day' \in Int BY <1>2, <2>1
        <5>. QED BY <1>2, <2>2, <5>1
      <4>. QED BY <4>1
    <3>. QED BY <2>1, <2>3, <3>1
  <2>4. CASE blockedDays' = blockedDays \cup {day + 1} /\ day < LastDay
    <3>1. phase' = "open" BY <2>4 DEF Close
    <3>2. day' = day + 1 /\ day + 1 \in 1..LastDay BY <1>2, <2>4, <3>1
    <3>3. ASSUME NEW d \in blockedDays' PROVE d \in 1..LastDay /\ d <= day'
      <4>1. CASE d = day + 1 BY <1>2, <3>2, <4>1
      <4>2. CASE d \in blockedDays
        <5>1. d \in 1..LastDay /\ d <= day BY <2>1, <4>2
        <5>. QED BY <1>2, <3>2, <5>1
      <4>. QED BY <2>4, <3>3, <4>1, <4>2
    <3>. QED BY <3>3
  <2>. QED BY <2>3, <2>4 DEF DecidesNext
<1>9. ASSUME NEW d \in blockedDays', NEW s \in Symbols, d < Len(snapshots'),
             snapshots'[d + 1].quantities[s] > 0
      PROVE  Refused(book', d, s, "sell")
  <2>1. d \in Int /\ d >= 1 /\ d <= day BY <1>2, <1>4, <1>8, <1>9
  <2>2. d \in blockedDays BY <1>6, <2>1
  <2>3. Refused(book, d, s, "sell")
    <3>1. CASE d = day
      <4>1. Quantity(book, s) > 0 BY <1>3, <1>4, <1>9, <3>1
      <4>2. Quantity(book, s) = 0 \/ Refused(book, d, s, "sell") BY <1>2, <2>2, <3>1 DEF RotationOK
      <4>. QED BY <4>1, <4>2
    <3>2. CASE d # day
      <4>1. d + 1 \in 1..day /\ d < Len(snapshots) BY <1>2, <1>3, <2>1, <3>2
      <4>2. snapshots[d + 1].quantities[s] > 0 BY <1>4, <1>9, <4>1
      <4>. QED BY <2>2, <4>1, <4>2 DEF RotationOK
    <3>. QED BY <3>1, <3>2
  <2>. QED BY <1>1, <1>5, <2>3, RefusedStays
<1>10. ASSUME phase' = "open", NEW s \in Symbols
       PROVE  Quantity(book', s) = snapshots'[day'].quantities[s]
  <2>1. snapshots'[day'] = snap BY <1>2, <1>4, <1>10
  <2>. QED BY <1>3, <1>7, <2>1
<1>11. ASSUME NEW i \in 2..Len(snapshots'), Quiet(i - 1)', NEW s \in Symbols
       PROVE  snapshots'[i].quantities[s] = snapshots'[i - 1].quantities[s]
  <2>1. i - 1 \in Int /\ i - 1 <= day /\ i - 1 \in 1..day BY <1>2, <1>4
  <2>2. Quiet(i - 1) BY <1>6, <1>11, <2>1 DEF Quiet
  <2>3. snapshots'[i - 1] = snapshots[i - 1] BY <1>4, <2>1
  <2>4. CASE i = day + 1
    <3>1. snapshots'[i].quantities[s] = Quantity(book, s) BY <1>3, <1>4, <2>4
    <3>2. i - 1 = day /\ day >= 1 BY <1>2, <2>1, <2>4
    <3>3. Quantity(book, s) = snapshots[day].quantities[s] BY <1>2, <2>2, <3>2 DEF RotationOK
    <3>. QED BY <2>3, <3>1, <3>2, <3>3
  <2>5. CASE i # day + 1
    <3>1. i \in 1..day /\ i \in 2..Len(snapshots) BY <1>2, <1>3, <1>4, <2>5
    <3>2. snapshots'[i] = snapshots[i] BY <1>4, <3>1
    <3>3. snapshots[i].quantities[s] = snapshots[i - 1].quantities[s] BY <2>2, <3>1 DEF RotationOK
    <3>. QED BY <2>3, <3>2, <3>3
  <2>. QED BY <2>4, <2>5
<1>12. ASSUME NEW i \in 1..Len(book.fills)
       PROVE  LET f == book.fills[i]
              IN \/ (FirstWeekday + f.ts) % 7 = 0 /\ f.ts \notin blockedDays'
                 \/ f.side = "sell" /\ f.ts \in blockedDays'
  <2> DEFINE f == book.fills[i]
  <2>1. f.ts <= day /\ f \in FillRec BY <1>1, <1>5 DEF RunOK
  <2>2. f.ts \in Int BY <2>1 DEF FillRec
  <2>3. f.ts \in blockedDays' <=> f.ts \in blockedDays
    <3> HIDE DEF f
    <3>. QED BY <1>6, <2>1, <2>2
  <2>4. Ranked(f) \/ (f.side = "sell" /\ f.ts \in blockedDays) BY DEF RotationOK
  <2>. QED BY <2>3, <2>4 DEF Ranked
<1>13. (\A i \in 1..Len(book.fills) :
          Ranked(book.fills[i]) \/ (book.fills[i].side = "sell" /\ book.fills[i].ts \in blockedDays))'
  BY <1>1, <1>12 DEF Ranked
<1>14. /\ phase' = "open" /\ day' \in blockedDays' => target' = AllCash
       /\ phase' = "open" /\ Quiet(day)' => target' = NoTarget
  <2>1. phase' = "open" => day' = day + 1 /\ target' = decision /\ day < LastDay BY <1>2
  <2>. QED BY <2>1 DEF DecidesNext, Quiet
<1>15. phase' # "close" BY <1>2
<1>. QED BY <1>1, <1>8, <1>9, <1>10, <1>11, <1>13, <1>14, <1>15 DEF RotationOK, Quiet

LEMMA RotationStep ==
  ASSUME PortfolioAssumption, TargetAssumption, RotationAssumption, RotationOK,
         [RotationNext]_rotationVars
  PROVE  RotationOK'
<1>1. LastDay \in Nat BY MarketIs
<1>2. ASSUME NEW prices \in OpenPrices, Open(prices), UNCHANGED blockedDays PROVE RotationOK'
  <2>1. prices \in Market BY MarketIs
  <2>. QED BY <1>1, <1>2, <2>1, RotationOpens
<1>3. ASSUME NEW prices \in ClosePrices, NEW blocked \in IF RiskEnabled THEN BOOLEAN ELSE {FALSE},
             IF day = LastDay THEN Close(prices, NoTarget) /\ UNCHANGED blockedDays
             ELSE /\ \E decision \in Decisions(day + 1, blocked) : Close(prices, decision)
                  /\ blockedDays' = blockedDays \cup (IF blocked THEN {day + 1} ELSE {})
      PROVE  RotationOK'
  <2>1. /\ prices \in Market /\ blocked \in BOOLEAN /\ day \in 0..LastDay /\ day \in Int
        /\ \A d \in blockedDays : d <= day /\ d \in Int
    <3>1. RunOK /\ blockedDays \subseteq 1..LastDay /\ \A d \in blockedDays : d <= day
      BY DEF RotationOK
    <3>2. day \in 0..LastDay BY <3>1 DEF RunOK
    <3>3. prices \in Market BY MarketIs
    <3>4. blocked \in BOOLEAN BY Zenon
    <3>5. ASSUME NEW d \in blockedDays PROVE d <= day /\ d \in Int
      <4>1. d \in 1..LastDay BY <3>1
      <4>. QED BY <1>1, <3>1, <4>1
    <3>6. day \in Int BY <1>1, <3>2
    <3>. QED BY <3>2, <3>3, <3>4, <3>5, <3>6
  <2>2. CASE day = LastDay
    <3>1. Close(prices, NoTarget) /\ blockedDays' = blockedDays /\ ~(day < LastDay)
      BY <1>1, <1>3, <2>1, <2>2
    <3>2. DecidesNext(NoTarget) BY <3>1 DEF DecidesNext
    <3>. QED BY <1>1, <2>1, <3>1, <3>2, RotationCloses
  <2>3. CASE day # LastDay
    <3>1. PICK decision \in Decisions(day + 1, blocked) : Close(prices, decision) BY <1>3, <2>3
    <3>2. /\ decision = NoTarget \/ decision \in Weights
          /\ blocked => decision = AllCash
          /\ ~blocked /\ ~Monday(day + 1) => decision = NoTarget
      BY <2>1, DecidedIs
    <3>3. day < LastDay BY <1>1, <2>1, <2>3
    <3>4. day + 1 \notin blockedDays BY <2>1
    <3>5. CASE blocked
      <4>1. blockedDays' = blockedDays \cup {day + 1} BY <1>3, <2>3, <3>5
      <4>2. DecidesNext(decision) BY <3>2, <3>3, <3>5, <4>1 DEF DecidesNext
      <4>. QED BY <1>1, <2>1, <3>1, <4>2, RotationCloses
    <3>6. CASE ~blocked
      <4>1. blockedDays' = blockedDays BY <1>3, <2>3, <3>6
      <4>2. DecidesNext(decision) BY <3>2, <3>3, <3>4, <3>6, <4>1 DEF DecidesNext
      <4>. QED BY <1>1, <2>1, <3>1, <4>2, RotationCloses
    <3>. QED BY <3>5, <3>6
  <2>. QED BY <2>2, <2>3
<1>4. CASE UNCHANGED rotationVars BY <1>4, RotationStutters
<1>5. CASE RotationOpen BY <1>2, <1>5 DEF RotationOpen
<1>6. CASE RotationClose BY <1>3, <1>6 DEF RotationClose
<1>. QED BY <1>4, <1>5, <1>6 DEF RotationNext

LEMMA MinimumsFollow == ASSUME RotationOK PROVE FailsOnMinimumsOnly
<1>1. SUFFICES ASSUME NEW d \in blockedDays, NEW s \in Symbols, d < Len(snapshots),
                      snapshots[d + 1].quantities[s] > 0
               PROVE  \E i \in 1..Len(book.rejections) :
                        LET r == book.rejections[i]
                        IN /\ r.ts = d /\ r.symbol = s /\ r.side = "sell"
                           /\ r.reason \in {"below_min_qty", "below_min_notional"}
  BY DEF FailsOnMinimumsOnly
<1>2. Refused(book, d, s, "sell") BY <1>1 DEF RotationOK
<1>. QED BY <1>2 DEF Refused, Minimums

LEMMA MondaysFollow == ASSUME RotationOK PROVE BuysOnMondays
BY DEF RotationOK, BuysOnMondays, Ranked

LEMMA RiskOffFollows ==
  ASSUME PortfolioAssumption, LastDay \in Nat, RotationOK PROVE RiskOff
<1>1. SUFFICES ASSUME phase = "done", ~Failed, NEW b \in blockedDays, NEW d \in 1..LastDay, b <= d,
                      \A m \in (b + 1)..d : Monday(m) => m \in blockedDays
               PROVE  Flat(snapshots[d + 1])
  BY DEF RiskOff
<1>2. /\ b \in 1..LastDay /\ b \in Int /\ d \in Int /\ day \in 0..LastDay
      /\ Len(snapshots) = day + 1
      /\ \A i \in 1..Len(snapshots) : snapshots[i].ts = i - 1
      /\ \A i \in 2..Len(snapshots) :
           Quiet(i - 1) =>
             \A s \in Symbols : snapshots[i].quantities[s] = snapshots[i - 1].quantities[s]
  <2>1. /\ RunOK /\ blockedDays \subseteq 1..LastDay
        /\ \A i \in 2..Len(snapshots) :
             Quiet(i - 1) =>
               \A s \in Symbols : snapshots[i].quantities[s] = snapshots[i - 1].quantities[s]
    BY DEF RotationOK
  <2>2. /\ day \in 0..LastDay /\ Len(snapshots) = day + 1
        /\ \A i \in 1..Len(snapshots) : snapshots[i].ts = i - 1
    BY <1>1, <2>1 DEF RunOK
  <2>3. b \in 1..LastDay BY <2>1
  <2>. QED BY <2>1, <2>2, <2>3
<1>3. ASSUME NEW k \in 0..LastDay, k \in blockedDays, k < Len(snapshots) PROVE Flat(snapshots[k + 1])
  <2>1. k + 1 \in 1..Len(snapshots) BY <1>2, <1>3
  <2>2. snapshots[k + 1].ts \in blockedDays BY <1>2, <1>3, <2>1
  <2>. QED BY <1>1, <2>1, <2>2 DEF Failed
<1>4. Len(snapshots) = LastDay + 1
  <2>1. day = LastDay BY <1>1 DEF RotationOK, RunOK
  <2>. QED BY <1>2, <2>1
<1> DEFINE top == d - b
           S == {k \in 0..top : Flat(snapshots[b + k + 1])}
<1>5. top \in Nat /\ top + b = d BY <1>1, <1>2
<1>6. 0 \in S
  <2> HIDE DEF top, S
  <2>0. b \in 0..LastDay /\ b < Len(snapshots) BY <1>2, <1>4
  <2>1. Flat(snapshots[b + 1]) BY <1>1, <1>3, <2>0
  <2>2. b + 0 + 1 = b + 1 BY <1>2
  <2> USE DEF S
  <2> HIDE DEF top
  <2>3. 0 \in 0..top BY <1>5
  <2>. QED BY <2>1, <2>2, <2>3
<1>7. ASSUME NEW k \in 1..top, k - 1 \in S PROVE k \in S
  <2> DEFINE m == b + k
  <2>1. m \in (b + 1)..d /\ m \in 1..LastDay /\ m - 1 + 1 = m /\ b + (k - 1) + 1 = m /\ k \in 0..top
    BY <1>2, <1>5
  <2> HIDE DEF top, m
  <2>2. Flat(snapshots[m]) BY <1>7, <2>1
  <2>3. CASE m \in blockedDays
    <3>1. Flat(snapshots[m + 1]) BY <1>3, <1>4, <2>1, <2>3
    <3>. QED BY <2>1, <3>1 DEF m
  <2>4. CASE m \notin blockedDays
    <3>1. Quiet(m) BY <1>1, <2>1, <2>4 DEF Quiet
    <3>2. m + 1 \in 2..Len(snapshots) /\ (m + 1) - 1 = m BY <1>4, <2>1
    <3>3. \A s \in Symbols : snapshots[m + 1].quantities[s] = snapshots[m].quantities[s]
      BY <1>2, <3>1, <3>2
    <3>4. Flat(snapshots[m + 1]) BY <2>2, <3>3 DEF Flat
    <3>. QED BY <2>1, <3>4 DEF m
  <2>. QED BY <2>3, <2>4
<1> HIDE DEF S
<1>8. \A k \in 0..top : k \in S
  <2> HIDE DEF top
  <2>. QED BY <1>5, <1>6, <1>7, AllUpTo
<1>9. top \in S
  <2> HIDE DEF top
  <2>. QED BY <1>5, <1>8
<1>10. Flat(snapshots[b + top + 1]) BY <1>9 DEF S
<1>11. b + top + 1 = d + 1 BY <1>2, <1>5
<1>. QED BY <1>10, <1>11

-----------------------------------------------------------------------------
\* Types of a rotation, the blocked days among them.
THEOREM RotationTypes ==
  ASSUME PortfolioAssumption, TargetAssumption, RotationAssumption
  PROVE  RotationSpec => []RotationTypeOK
<1>1. RotationInit => RotationOK BY MarketIs, RotationInitOK
<1>2. RotationOK /\ [RotationNext]_rotationVars => RotationOK' BY RotationStep
<1>3. RotationOK => RotationTypeOK BY TypesFollow DEF RotationOK, RotationTypeOK
<1>. QED BY <1>1, <1>2, <1>3, PTL DEF RotationSpec

\* The books of a rotation reconcile, and its rebalances land, as those of any
\* portfolio do: its decisions are weights like any others.
THEOREM RotationKeepsItsBooks ==
  ASSUME PortfolioAssumption, TargetAssumption, RotationAssumption
  PROVE  RotationSpec => [](SnapshotsReconcile /\ LandsOnTarget)
<1>1. RotationInit => RotationOK BY MarketIs, RotationInitOK
<1>2. RotationOK /\ [RotationNext]_rotationVars => RotationOK' BY RotationStep
<1>3. RotationOK => SnapshotsReconcile /\ LandsOnTarget
  BY ReconciliationFollows, LandingFollows DEF RotationOK
<1>. QED BY <1>1, <1>2, <1>3, PTL DEF RotationSpec

\* run_rotation of portfolio_rotation.py: out of the market from a BTC close
\* under its EMA to the next Monday that is not blocked, in a run that succeeds.
THEOREM OutOfTheMarket ==
  ASSUME PortfolioAssumption, TargetAssumption, RotationAssumption
  PROVE  RotationSpec => []RiskOff
<1>1. RotationInit => RotationOK BY MarketIs, RotationInitOK
<1>2. RotationOK /\ [RotationNext]_rotationVars => RotationOK' BY RotationStep
<1>3. RotationOK => RiskOff BY MarketIs, RiskOffFollows
<1>. QED BY <1>1, <1>2, <1>3, PTL DEF RotationSpec

\* Coins are bought on Mondays that are not blocked only, and sold then or on
\* a blocked day.
THEOREM TradesOnItsDays ==
  ASSUME PortfolioAssumption, TargetAssumption, RotationAssumption
  PROVE  RotationSpec => []BuysOnMondays
<1>1. RotationInit => RotationOK BY MarketIs, RotationInitOK
<1>2. RotationOK /\ [RotationNext]_rotationVars => RotationOK' BY RotationStep
<1>3. RotationOK => BuysOnMondays BY MondaysFollow
<1>. QED BY <1>1, <1>2, <1>3, PTL DEF RotationSpec

\* liquidation_below_minimum is raised for minimums only.
THEOREM ErrorsNameTheirCause ==
  ASSUME PortfolioAssumption, TargetAssumption, RotationAssumption
  PROVE  RotationSpec => []FailsOnMinimumsOnly
<1>1. RotationInit => RotationOK BY MarketIs, RotationInitOK
<1>2. RotationOK /\ [RotationNext]_rotationVars => RotationOK' BY RotationStep
<1>3. RotationOK => FailsOnMinimumsOnly BY MinimumsFollow
<1>. QED BY <1>1, <1>2, <1>3, PTL DEF RotationSpec

-----------------------------------------------------------------------------
(***************************************************************************)
(* The dominance rotation: what its closes read.                           *)
(***************************************************************************)
LEMMA MaxUpTo ==
  ASSUME NEW top \in Nat, NEW S, S \subseteq 0..top, S # {}
  PROVE  Max(S) \in S /\ \A y \in S : y <= Max(S)
<1> DEFINE T == {k \in 0..top : top - k \in S}
<1>1. T # {} /\ T \subseteq Nat
  <2>1. PICK y \in S : TRUE OBVIOUS
  <2>2. y \in 0..top OBVIOUS
  <2>3. top - y \in 0..top /\ top - (top - y) = y BY <2>2
  <2>. QED BY <2>1, <2>3
<1>2. PICK n \in T : \A k \in T : ~(k < n)
  <2> HIDE DEF T
  <2>1. IsWellFoundedOn(OpToRel(<, Nat), Nat) BY NatLessThanWellFounded
  <2>2. PICK n \in T : \A k \in T : ~(<<k, n>> \in OpToRel(<, Nat)) BY <1>1, <2>1, WFMin
  <2>3. \A k \in T : ~(k < n) BY <1>1, <2>2 DEF OpToRel
  <2>. QED BY <2>3
<1> DEFINE x == top - n
<1>3. n \in 0..top /\ x \in S BY <1>2
<1>4. ASSUME NEW y \in S PROVE x >= y
  <2>1. y \in 0..top OBVIOUS
  <2>2. top - y \in 0..top /\ top - (top - y) = y BY <2>1
  <2>3. top - y \in T BY <2>2
  <2>4. ~(top - y < n) BY <1>2, <2>3
  <2>. QED BY <1>3, <2>1, <2>4
<1> HIDE DEF x
<1>5. \E z \in S : \A y \in S : z >= y BY <1>3, <1>4
<1>6. Max(S) \in S /\ \A y \in S : Max(S) >= y BY <1>5 DEF Max
<1>7. ASSUME NEW y \in S PROVE y <= Max(S)
  <2> DEFINE m == Max(S)
  <2>1. m >= y /\ m \in 0..top /\ y \in 0..top BY <1>6
  <2> HIDE DEF m
  <2>2. y <= m BY <2>1
  <2>. QED BY <2>2 DEF m
<1>. QED BY <1>6, <1>7

Sorted(seq) == \A k, l \in 1..Len(seq) : k < l => seq[k] < seq[l]

\* Where insort puts a point, in any list.
LEMMA InsertPlace ==
  ASSUME NEW seq \in Seq(Int), NEW i \in Int
  PROVE  LET m == InsertPoint(seq, i)
             L == Len(seq)
         IN \E p \in 0..L :
              /\ \A k \in 1..L : seq[k] < i => k <= p
              /\ p = 0 \/ seq[p] < i
              /\ m \in Seq(Int) /\ Len(m) = L + 1
              /\ \A k \in 1..p : m[k] = seq[k]
              /\ m[p + 1] = i
              /\ \A k \in (p + 2)..(L + 1) : m[k] = seq[k - 1]
<1> DEFINE L == Len(seq)
           less == {0} \cup {k \in 1..L : seq[k] < i}
           p == Max(less)
           m == InsertPoint(seq, i)
<1>1. L \in Nat /\ \A k \in 1..L : seq[k] \in Int OBVIOUS
<1>2. p \in less /\ \A k \in less : k <= p
  <2>1. less \subseteq 0..L /\ less # {} BY <1>1
  <2> HIDE DEF less, L
  <2>. QED BY <1>1, <2>1, MaxUpTo
<1> HIDE DEF p
<1>3. /\ p \in 0..L /\ p \in Nat
      /\ \A k \in 1..L : seq[k] < i => k <= p
      /\ p = 0 \/ seq[p] < i
  BY <1>1, <1>2
<1> DEFINE a == SubSeq(seq, 1, p)
           b == SubSeq(seq, p + 1, L)
<1>4. /\ a \in Seq(Int) /\ Len(a) = p /\ \A k \in 1..p : a[k] = seq[k]
      /\ b \in Seq(Int) /\ Len(b) = L - p /\ \A k \in 1..(L - p) : b[k] = seq[p + k]
  <2>1. /\ a \in Seq(Int) /\ Len(a) = p /\ \A k \in 1..p : a[k] = seq[k]
    <3>1. CASE p = 0
      <4>1. a = <<>> BY <1>3, <3>1
      <4>. QED BY <3>1, <4>1
    <3>2. CASE p # 0 BY <1>1, <1>3, <3>2, SubSeqProperties
    <3>. QED BY <3>1, <3>2
  <2>2. /\ b \in Seq(Int) /\ Len(b) = L - p /\ \A k \in 1..(L - p) : b[k] = seq[p + k]
    <3>1. CASE p = L
      <4>1. b = <<>> BY <1>1, <3>1
      <4>. QED BY <1>1, <3>1, <4>1
    <3>2. CASE p # L
      <4>1. p \in 0..L /\ p \in Nat BY <1>3
      <4> HIDE DEF L
      <4>2. /\ p + 1 \in Int /\ L \in Int /\ p + 1 <= L /\ L - (p + 1) + 1 = L - p
            /\ \A k \in (p + 1)..L : seq[k] \in Int
            /\ \A k \in 1..(L - p) : (p + 1) + k - 1 = p + k
        BY <1>1, <3>2, <4>1
      <4>. QED BY <4>2, SubSeqProperties
    <3>. QED BY <3>1, <3>2
  <2>. QED BY <2>1, <2>2
<1>5. m = a \o <<i>> \o b
  <2>1. InsertPoint(seq, i) = InsertAt(seq, p + 1, i) BY Zenon DEF InsertPoint, p
  <2>2. InsertAt(seq, p + 1, i) = SubSeq(seq, 1, (p + 1) - 1) \o <<i>> \o SubSeq(seq, p + 1, Len(seq))
    BY DEF InsertAt
  <2>3. (p + 1) - 1 = p BY <1>3
  <2>. QED BY <2>1, <2>2, <2>3
<1> HIDE DEF a, b, m
<1>6. /\ m \in Seq(Int) /\ Len(m) = L + 1
      /\ \A k \in 1..p : m[k] = seq[k]
      /\ m[p + 1] = i
      /\ \A k \in (p + 2)..(L + 1) : m[k] = seq[k - 1]
  <2> DEFINE c == a \o <<i>>
  <2>1. /\ c \in Seq(Int) /\ Len(c) = p + 1 /\ c[p + 1] = i /\ \A k \in 1..p : c[k] = a[k]
    BY <1>3, <1>4
  <2>2. m = c \o b BY <1>5
  <2> HIDE DEF c
  <2>3. /\ m \in Seq(Int) /\ Len(m) = (p + 1) + (L - p)
        /\ \A k \in 1..(p + 1) : m[k] = c[k]
        /\ \A k \in (p + 2)..(L + 1) : m[k] = b[k - (p + 1)]
    <3> HIDE DEF L
    <3>1. c \in Seq(Int) /\ b \in Seq(Int) /\ Len(c) = p + 1 /\ Len(b) = L - p BY <1>4, <2>1
    <3>2. /\ m \in Seq(Int) /\ Len(m) = Len(c) + Len(b)
          /\ \A k \in 1..(Len(c) + Len(b)) : m[k] = IF k <= Len(c) THEN c[k] ELSE b[k - Len(c)]
      BY <2>2, <3>1, ConcatProperties
    <3>3. ASSUME NEW k \in 1..(p + 1) PROVE m[k] = c[k]
      <4>1. k \in 1..(Len(c) + Len(b)) /\ k <= Len(c) BY <1>1, <1>3, <3>1
      <4>. QED BY <3>2, <4>1
    <3>4. ASSUME NEW k \in (p + 2)..(L + 1) PROVE m[k] = b[k - (p + 1)]
      <4>1. k \in 1..(Len(c) + Len(b)) /\ ~(k <= Len(c)) BY <1>1, <1>3, <3>1
      <4>. QED BY <3>1, <3>2, <4>1
    <3>. QED BY <3>1, <3>2, <3>3, <3>4
  <2>4. ASSUME NEW k \in (p + 2)..(L + 1) PROVE m[k] = seq[k - 1]
    <3>1. k - (p + 1) \in 1..(L - p) /\ p + (k - (p + 1)) = k - 1 BY <1>1, <1>3
    <3>2. m[k] = b[k - (p + 1)] BY <2>3
    <3>3. b[k - (p + 1)] = seq[p + (k - (p + 1))] BY <1>4, <3>1
    <3>. QED BY <3>1, <3>2, <3>3
  <2>5. Len(m) = L + 1 BY <1>1, <1>3, <2>3
  <2>6. \A k \in 1..p : m[k] = seq[k]
    <3>1. \A k \in 1..p : k \in 1..(p + 1) BY <1>3
    <3>. QED BY <1>4, <2>1, <2>3, <3>1
  <2>7. m[p + 1] = i BY <1>3, <2>1, <2>3
  <2>. QED BY <2>3, <2>4, <2>5, <2>6, <2>7
<1>. QED BY <1>3, <1>6 DEF m

\* insort keeps dates in order and adds one point.
LEMMA InsertIs ==
  ASSUME NEW seq \in Seq(Int), Sorted(seq), NEW i \in Int, \A k \in 1..Len(seq) : seq[k] # i
  PROVE  LET m == InsertPoint(seq, i)
         IN /\ m \in Seq(Int) /\ Len(m) = Len(seq) + 1 /\ Sorted(m)
            /\ \A x : (\E k \in 1..Len(m) : m[k] = x) <=> (x = i \/ \E k \in 1..Len(seq) : seq[k] = x)
<1> DEFINE L == Len(seq)
           m == InsertPoint(seq, i)
<1>1. L \in Nat /\ \A k \in 1..L : seq[k] \in Int OBVIOUS
<1>2. PICK p \in 0..L :
        /\ \A k \in 1..L : seq[k] < i => k <= p
        /\ p = 0 \/ seq[p] < i
        /\ m \in Seq(Int) /\ Len(m) = L + 1
        /\ \A k \in 1..p : m[k] = seq[k]
        /\ m[p + 1] = i
        /\ \A k \in (p + 2)..(L + 1) : m[k] = seq[k - 1]
  BY InsertPlace
<1>3. /\ p \in 0..L /\ p \in Nat
      /\ \A k \in 1..L : seq[k] < i <=> k <= p
  <2>1. p \in 0..L BY <1>1, <1>2
  <2>2. ASSUME NEW k \in 1..L PROVE seq[k] < i <=> k <= p
    <3>1. seq[k] < i => k <= p BY <1>2
    <3>2. ASSUME k <= p PROVE seq[k] < i
      <4>1. p \in 1..L /\ seq[p] < i BY <1>1, <1>2, <2>1, <3>2
      <4>2. k < p => seq[k] < seq[p] BY <4>1 DEF Sorted
      <4>. QED BY <1>1, <2>1, <3>2, <4>1, <4>2
    <3>. QED BY <3>1, <3>2
  <2>. QED BY <1>1, <2>1, <2>2
<1>6. /\ m \in Seq(Int) /\ Len(m) = L + 1
      /\ \A k \in 1..p : m[k] = seq[k]
      /\ m[p + 1] = i
      /\ \A k \in (p + 2)..(L + 1) : m[k] = seq[k - 1]
  BY <1>2
<1> HIDE DEF m
<1> HIDE DEF L
<1>7. Sorted(m)
  <2>1. ASSUME NEW k \in 1..(L + 1), NEW l \in 1..(L + 1), k < l PROVE m[k] < m[l]
    <3>1. \A x, y \in 1..L : x < y => seq[x] < seq[y] BY DEF Sorted, L
    <3>2. \A x \in 1..L : x > p => i < seq[x]
      <4>1. \A x \in 1..L : seq[x] \in Int /\ seq[x] # i BY <1>1 DEF L
      <4>. QED BY <1>3, <4>1
    <3>3. CASE l <= p
      <4>1. k \in 1..L /\ l \in 1..L /\ k \in 1..p /\ l \in 1..p BY <1>1, <1>3, <2>1, <3>3
      <4>. QED BY <1>6, <2>1, <3>1, <4>1
    <3>4. CASE l = p + 1
      <4>1. k \in 1..p /\ k \in 1..L /\ k <= p BY <1>1, <1>3, <2>1, <3>4
      <4>2. m[k] = seq[k] /\ m[l] = i BY <1>6, <3>4, <4>1
      <4>. QED BY <1>3, <4>1, <4>2
    <3>5. CASE l > p + 1
      <4>1. l \in (p + 2)..(L + 1) /\ l - 1 \in 1..L /\ l - 1 > p BY <1>1, <1>3, <3>5
      <4>2. m[l] = seq[l - 1] BY <1>6, <4>1
      <4>3. CASE k <= p
        <5>1. k \in 1..p /\ k \in 1..L /\ k < l - 1 BY <1>1, <1>3, <4>1, <4>3
        <5>. QED BY <1>6, <3>1, <4>1, <4>2, <5>1
      <4>4. CASE k = p + 1 BY <1>6, <3>2, <4>1, <4>2, <4>4
      <4>5. CASE k > p + 1
        <5>1. k \in (p + 2)..(L + 1) /\ k - 1 \in 1..L /\ k - 1 < l - 1 BY <1>1, <1>3, <2>1, <4>5
        <5>2. m[k] = seq[k - 1] BY <1>6, <5>1
        <5>. QED BY <3>1, <4>1, <4>2, <5>1, <5>2
      <4>. QED BY <1>3, <4>3, <4>4, <4>5
    <3>. QED BY <1>3, <3>3, <3>4, <3>5
  <2>. QED BY <1>6, <2>1 DEF Sorted
<1>8. ASSUME NEW x
      PROVE  (\E k \in 1..Len(m) : m[k] = x) <=> (x = i \/ \E k \in 1..L : seq[k] = x)
  <2>1. ASSUME NEW k \in 1..Len(m) PROVE m[k] = i \/ \E l \in 1..L : seq[l] = m[k]
    <3>1. k \in 1..(L + 1) BY <1>6
    <3>2. CASE k <= p
      <4>1. k \in 1..p /\ k \in 1..L BY <1>1, <1>3, <3>1, <3>2
      <4>. QED BY <1>6, <4>1
    <3>3. CASE k = p + 1 BY <1>6, <3>3
    <3>4. CASE k > p + 1
      <4>1. k \in (p + 2)..(L + 1) /\ k - 1 \in 1..L BY <1>1, <1>3, <3>1, <3>4
      <4>. QED BY <1>6, <4>1
    <3>. QED BY <1>3, <3>1, <3>2, <3>3, <3>4
  <2>2. ASSUME NEW k \in 1..L PROVE \E l \in 1..Len(m) : m[l] = seq[k]
    <3>1. CASE k <= p
      <4>1. k \in 1..p /\ k \in 1..Len(m) BY <1>1, <1>3, <1>6, <3>1
      <4>. QED BY <1>6, <4>1
    <3>2. CASE k > p
      <4>1. k + 1 \in (p + 2)..(L + 1) /\ k + 1 \in 1..Len(m) /\ (k + 1) - 1 = k BY <1>1, <1>3, <1>6, <3>2
      <4>2. m[k + 1] = seq[k] BY <1>6, <4>1
      <4>. QED BY <4>1, <4>2
    <3>. QED BY <1>3, <3>1, <3>2
  <2>3. p + 1 \in 1..Len(m) /\ m[p + 1] = i BY <1>1, <1>3, <1>6
  <2>. QED BY <2>1, <2>2, <2>3
<1>. QED BY <1>6, <1>7, <1>8 DEF m, L

\* The points read one by one, given the lists before.
ReadStep(seq, fresh, f, n) == IF n = 0 THEN seq ELSE InsertPoint(f[n - 1], fresh[n])
ReadSteps(seq, fresh) == CHOOSE f : f = [n \in 0..Len(fresh) |-> ReadStep(seq, fresh, f, n)]

LEMMA ReadAllIsSteps ==
  ASSUME NEW seq, NEW fresh PROVE ReadAll(seq, fresh) = ReadSteps(seq, fresh)[Len(fresh)]
BY Zenon DEF ReadAll, ReadSteps, ReadStep

LEMMA ReadStepsAre ==
  ASSUME NEW seq \in Seq(Int), NEW fresh \in Seq(Int)
  PROVE  LET f == ReadSteps(seq, fresh)
         IN f[0] = seq /\ \A n \in 1..Len(fresh) : f[n] = InsertPoint(f[n - 1], fresh[n])
<1> DEFINE L == Len(fresh)
           f == ReadSteps(seq, fresh)
           S == Seq(Int)
           G == [n \in 1..L |-> [a \in S |-> InsertPoint(a, fresh[n])]]
<1>1. L \in Nat /\ \A n \in 1..L : fresh[n] \in Int OBVIOUS
<1> HIDE DEF L
<1>2. G \in [1..L -> [S -> S]]
  <2>1. \A n \in 1..L, a \in S : InsertPoint(a, fresh[n]) \in S BY <1>1, InsertPlace
  <2>. QED BY <2>1
<1>3. PICK g \in [0..L -> S] : g[0] = seq /\ \A n \in 1..L : g[n] = G[n][g[n - 1]]
  <2>1. seq \in S OBVIOUS
  <2> HIDE DEF G, S
  <2>2. HasSteps(S, seq, L, G) BY <1>1, <1>2, <2>1, StepsExist
  <2>. QED BY <2>2, Zenon DEF HasSteps
<1>4. ASSUME NEW n \in 0..L PROVE g[n] = ReadStep(seq, fresh, g, n)
  <2>1. CASE n = 0 BY <1>3, <2>1 DEF ReadStep
  <2>2. CASE n # 0
    <3>1. n \in 1..L /\ n - 1 \in 0..L BY <1>1, <2>2
    <3>2. g[n - 1] \in S BY <3>1
    <3>3. g[n] = G[n][g[n - 1]] BY <1>3, <3>1
    <3> HIDE DEF S
    <3>4. g[n] = InsertPoint(g[n - 1], fresh[n]) BY <3>1, <3>2, <3>3
    <3>. QED BY <2>2, <3>4 DEF ReadStep
  <2>. QED BY <2>1, <2>2
<1>5. g = [n \in 0..L |-> ReadStep(seq, fresh, g, n)] BY <1>4
<1>6. f = [n \in 0..L |-> ReadStep(seq, fresh, f, n)]
  <2>1. \E h : h = [n \in 0..Len(fresh) |-> ReadStep(seq, fresh, h, n)] BY <1>5 DEF L
  <2>. QED BY <2>1, Zenon DEF ReadSteps, L
<1> HIDE DEF f
<1>7. \A n \in 0..L : f[n] = ReadStep(seq, fresh, f, n) BY <1>6
<1>8. f[0] = seq BY <1>1, <1>7 DEF ReadStep
<1>9. \A n \in 1..L : f[n] = InsertPoint(f[n - 1], fresh[n]) BY <1>1, <1>7 DEF ReadStep
<1>. QED BY <1>8, <1>9 DEF f, L

\* Which elements a list holds.
In(seq, x) == \E k \in 1..Len(seq) : seq[k] = x

\* New points, each once, are read into their places.
LEMMA ReadAllIs ==
  ASSUME NEW seq \in Seq(Int), Sorted(seq), NEW fresh \in Seq(Int),
         \A k \in 1..Len(fresh) : ~In(seq, fresh[k]),
         \A k, l \in 1..Len(fresh) : k < l => fresh[k] # fresh[l]
  PROVE  LET m == ReadAll(seq, fresh)
         IN /\ m \in Seq(Int) /\ Len(m) = Len(seq) + Len(fresh) /\ Sorted(m)
            /\ \A x : In(m, x) <=> In(seq, x) \/ In(fresh, x)
<1> DEFINE L == Len(fresh)
           f == ReadSteps(seq, fresh)
           Read(n) == /\ f[n] \in Seq(Int) /\ Len(f[n]) = Len(seq) + n /\ Sorted(f[n])
                      /\ \A x : In(f[n], x) <=> In(seq, x) \/ \E k \in 1..n : fresh[k] = x
           T == {n \in 0..L : Read(n)}
<1>1. L \in Nat /\ Len(seq) \in Nat /\ \A n \in 1..L : fresh[n] \in Int OBVIOUS
<1>2. f[0] = seq /\ \A n \in 1..L : f[n] = InsertPoint(f[n - 1], fresh[n]) BY ReadStepsAre
<1> HIDE DEF f, L
<1>3. Read(0) BY <1>1, <1>2
<1>4. ASSUME NEW n \in 1..L, Read(n - 1) PROVE Read(n)
  <2> DEFINE a == f[n - 1]
             i == fresh[n]
  <2>1. a \in Seq(Int) /\ Sorted(a) /\ i \in Int /\ Len(a) = Len(seq) + (n - 1) BY <1>1, <1>4
  <2>2. \A k \in 1..Len(a) : a[k] # i
    <3>1. ~In(seq, i) BY DEF L
    <3>2. \A k \in 1..(n - 1) : fresh[k] # i
      <4>1. \A k \in 1..(n - 1) : k \in 1..L /\ k < n BY <1>1
      <4>. QED BY <4>1 DEF L
    <3>3. ~In(a, i) BY <1>4, <3>1, <3>2
    <3>. QED BY <3>3 DEF In
  <2>3. /\ f[n] \in Seq(Int) /\ Len(f[n]) = Len(a) + 1 /\ Sorted(f[n])
        /\ \A x : In(f[n], x) <=> (x = i \/ In(a, x))
    <3>1. f[n] = InsertPoint(a, i) BY <1>2
    <3> HIDE DEF a, i
    <3>2. LET m == InsertPoint(a, i)
          IN /\ m \in Seq(Int) /\ Len(m) = Len(a) + 1 /\ Sorted(m)
             /\ \A x : (\E k \in 1..Len(m) : m[k] = x) <=> (x = i \/ \E k \in 1..Len(a) : a[k] = x)
      <4>1. \A k \in 1..Len(a) : a[k] # i BY <2>2
      <4>. QED BY <2>1, <4>1, InsertIs
    <3>3. \A x : (\E k \in 1..Len(f[n]) : f[n][k] = x) <=> (x = i \/ \E k \in 1..Len(a) : a[k] = x)
      BY <3>1, <3>2
    <3>. QED BY <3>1, <3>2, <3>3, Zenon DEF In
  <2>4. \A x : In(f[n], x) <=> In(seq, x) \/ \E k \in 1..n : fresh[k] = x
    <3>1. \A x : In(a, x) <=> In(seq, x) \/ \E k \in 1..(n - 1) : fresh[k] = x BY <1>4
    <3>2. \A x : (\E k \in 1..n : fresh[k] = x) <=> (x = i \/ \E k \in 1..(n - 1) : fresh[k] = x)
      <4>1. n \in 1..n /\ \A k \in 1..n : k = n \/ k \in 1..(n - 1) BY <1>1
      <4>2. \A k \in 1..(n - 1) : k \in 1..n BY <1>1
      <4>. QED BY <4>1, <4>2
    <3>. QED BY <2>3, <3>1, <3>2
  <2>5. Len(f[n]) = Len(seq) + n
    <3> DEFINE x == Len(f[n])
               y == Len(a)
               z == Len(seq)
    <3>1. x = y + 1 /\ y = z + (n - 1) /\ z \in Nat /\ n \in Nat BY <1>1, <2>1, <2>3
    <3> HIDE DEF x, y, z
    <3>2. x = z + n BY <3>1
    <3>. QED BY <3>2 DEF x, z
  <2>. QED BY <2>3, <2>4, <2>5
<1> HIDE DEF Read
<1>5. Read(L)
  <2>1. 0 \in T BY <1>1, <1>3
  <2>2. \A n \in 1..L : n - 1 \in T => n \in T BY <1>1, <1>4
  <2> HIDE DEF T
  <2>3. \A n \in 0..L : n \in T BY <1>1, <2>1, <2>2, AllUpTo
  <2>4. L \in T BY <1>1, <2>3
  <2>. QED BY <2>4 DEF T
<1>6. ReadAll(seq, fresh) = f[L] BY ReadAllIsSteps DEF f, L
<1>. QED BY <1>5, <1>6 DEF Read, In, L

Timed == Len(PointDays) \in Nat /\ availableAt \in [Points -> Int]

Earlier(i) == {j \in Points : ArrivesBefore(j, i)}

LEMMA EarlierIs ==
  ASSUME Timed, NEW i \in Points
  PROVE  /\ IsFiniteSet(Earlier(i)) /\ Cardinality(Earlier(i)) \in 0..(Len(PointDays) - 1)
         /\ i \notin Earlier(i)
<1> DEFINE N == Len(PointDays)
           B == Earlier(i)
<1>1. N \in Nat /\ availableAt[i] \in Int /\ i \in Int BY DEF Timed, Points
<1>2. i \notin B BY <1>1 DEF Earlier, ArrivesBefore
<1>3. IsFiniteSet(Points) /\ Cardinality(Points) = N
  <2>1. 1 \in Int /\ N \in Int BY <1>1
  <2> HIDE DEF N
  <2>2. IsFiniteSet(1..N) /\ Cardinality(1..N) = (IF 1 > N THEN 0 ELSE N - 1 + 1) BY <2>1, FS_Interval
  <2>3. (IF 1 > N THEN 0 ELSE N - 1 + 1) = N BY <1>1
  <2>. QED BY <2>2, <2>3 DEF Points, N
<1> DEFINE R == Points \ {i}
<1>4. IsFiniteSet(R) /\ Cardinality(R) = N - 1 BY <1>3, FS_RemoveElement
<1>5. B \in SUBSET R BY <1>2 DEF Earlier
<1> HIDE DEF R, B, N
<1>6. IsFiniteSet(B) /\ Cardinality(B) <= Cardinality(R) BY <1>4, <1>5, FS_Subset
<1>7. Cardinality(B) \in Nat BY <1>6, FS_CardinalityType
<1>8. Cardinality(B) \in 0..(N - 1) BY <1>1, <1>4, <1>6, <1>7
<1>. QED BY <1>2, <1>6, <1>8 DEF B, N

LEMMA RanksRise ==
  ASSUME Timed, NEW i \in Points, NEW j \in Points, ArrivesBefore(i, j)
  PROVE  Cardinality(Earlier(i)) < Cardinality(Earlier(j))
<1> DEFINE A == Earlier(i)
           B == Earlier(j)
<1>1. A \subseteq B
  <2>1. ASSUME NEW k \in Points, ArrivesBefore(k, i) PROVE ArrivesBefore(k, j)
    <3> DEFINE x == availableAt[k]
               y == availableAt[i]
               z == availableAt[j]
    <3>1. x \in Int /\ y \in Int /\ z \in Int /\ i \in Int /\ j \in Int /\ k \in Int
      BY DEF Timed, Points
    <3>2. x < y \/ (x = y /\ k < i) BY <2>1 DEF ArrivesBefore
    <3>3. y < z \/ (y = z /\ i < j) BY DEF ArrivesBefore
    <3> HIDE DEF x, y, z
    <3>4. x < z \/ (x = z /\ k < j) BY <3>1, <3>2, <3>3
    <3>. QED BY <3>4 DEF ArrivesBefore, x, z
  <2>. QED BY <2>1 DEF Earlier
<1>2. i \in B BY DEF Earlier
<1>3. i \notin A BY EarlierIs
<1>4. IsFiniteSet(B) /\ Cardinality(A) \in Nat /\ Cardinality(B) \in Nat BY EarlierIs, FS_CardinalityType
<1> HIDE DEF A, B
<1>5. A \in SUBSET B BY <1>1
<1>6. Cardinality(A) <= Cardinality(B) /\ (Cardinality(B) = Cardinality(A) => B = A)
  BY <1>4, <1>5, FS_Subset
<1>7. Cardinality(A) # Cardinality(B) BY <1>2, <1>3, <1>6
<1>8. Cardinality(A) < Cardinality(B) BY <1>4, <1>6, <1>7
<1>. QED BY <1>8 DEF A, B

LEMMA RanksDiffer ==
  ASSUME Timed, NEW i \in Points, NEW j \in Points,
         Cardinality(Earlier(i)) = Cardinality(Earlier(j))
  PROVE  i = j
<1>1. SUFFICES ASSUME i # j PROVE FALSE OBVIOUS
<1>2. ArrivesBefore(i, j) \/ ArrivesBefore(j, i)
  <2> DEFINE y == availableAt[i]
             z == availableAt[j]
  <2>1. y \in Int /\ z \in Int /\ i \in Int /\ j \in Int BY DEF Timed, Points
  <2> HIDE DEF y, z
  <2>2. \/ y < z \/ (y = z /\ i < j)
        \/ z < y \/ (z = y /\ j < i)
    BY <1>1, <2>1
  <2>. QED BY <2>2 DEF ArrivesBefore, y, z
<1> DEFINE a == Cardinality(Earlier(i))
           b == Cardinality(Earlier(j))
<1>3. a \in Int /\ b \in Int BY EarlierIs
<1>4. a < b \/ b < a BY <1>2, RanksRise
<1> HIDE DEF a, b
<1>5. a # b BY <1>3, <1>4
<1>. QED BY <1>5 DEF a, b

\* Every point arrives once, and none before one that is available earlier.
LEMMA ArrivalsAre ==
  ASSUME Timed
  PROVE  /\ Arrivals \in [Points -> Points]
         /\ \A m, n \in Points : Arrivals[m] = Arrivals[n] => m = n
         /\ \A i \in Points : \E n \in Points : Arrivals[n] = i
         /\ \A m, n \in Points :
              m <= n => availableAt[Arrivals[m]] <= availableAt[Arrivals[n]]
<1> DEFINE N == Len(PointDays)
           rank == [i \in Points |-> Cardinality(Earlier(i)) + 1]
<1>1. N \in Nat /\ Points = 1..N BY DEF Timed, Points
<1>2. ASSUME NEW i \in Points PROVE rank[i] \in Points /\ rank[i] - 1 = Cardinality(Earlier(i))
  <2> DEFINE c == Cardinality(Earlier(i))
  <2>1. c \in 0..(N - 1) BY EarlierIs
  <2> HIDE DEF c, N
  <2>2. c + 1 \in 1..N /\ (c + 1) - 1 = c BY <1>1, <2>1
  <2>. QED BY <1>1, <2>2 DEF c
<1>3. rank \in Injection(Points, Points)
  <2>1. rank \in [Points -> Points] BY <1>2
  <2>2. ASSUME NEW i \in Points, NEW j \in Points, rank[i] = rank[j] PROVE i = j
    <3>1. rank[i] - 1 = rank[j] - 1 BY <2>2
    <3> HIDE DEF rank
    <3>2. Cardinality(Earlier(i)) = Cardinality(Earlier(j)) BY <1>2, <3>1
    <3>. QED BY <3>2, RanksDiffer
  <2> HIDE DEF rank
  <2>. QED BY <2>1, <2>2 DEF Injection, IsInjective
<1>4. IsFiniteSet(Points)
  <2>1. 1 \in Int /\ N \in Int BY <1>1
  <2>. QED BY <1>1, <2>1, FS_Interval
<1> HIDE DEF rank
<1>5. rank \in Surjection(Points, Points) BY <1>3, <1>4, FS_Injection
<1>6. ASSUME NEW n \in Points PROVE \E i \in Points : rank[i] = n
  BY <1>5 DEF Surjection
<1>7. ASSUME NEW n \in Points
      PROVE  Arrivals[n] \in Points /\ Cardinality(Earlier(Arrivals[n])) = n - 1
  <2>1. PICK i \in Points : rank[i] = n BY <1>6
  <2>2. Cardinality(Earlier(i)) = n - 1 BY <1>2, <2>1
  <2>3. Arrivals[n] = CHOOSE k \in Points : Cardinality(Earlier(k)) = n - 1
    BY Zenon DEF Arrivals, Earlier
  <2>. QED BY <2>2, <2>3
<1>8. Arrivals \in [Points -> Points]
  <2> DEFINE at(n) == CHOOSE k \in Points : Cardinality(Earlier(k)) = n - 1
  <2>1. Arrivals = [n \in Points |-> at(n)] BY Zenon DEF Arrivals, Earlier
  <2> HIDE DEF at
  <2>2. \A n \in Points : Arrivals[n] = at(n) BY <2>1
  <2>. QED BY <1>7, <2>1, <2>2
<1>9. ASSUME NEW m \in Points, NEW n \in Points, Arrivals[m] = Arrivals[n] PROVE m = n
  <2>1. m - 1 = n - 1 /\ m \in Int /\ n \in Int BY <1>1, <1>7, <1>9
  <2>. QED BY <2>1
<1>10. ASSUME NEW i \in Points PROVE \E n \in Points : Arrivals[n] = i
  <2> DEFINE n == rank[i]
  <2>1. n \in Points /\ n - 1 = Cardinality(Earlier(i)) BY <1>2
  <2> HIDE DEF n
  <2>2. Arrivals[n] = i BY <1>7, <2>1, RanksDiffer
  <2>. QED BY <2>1, <2>2
<1>11. ASSUME NEW m \in Points, NEW n \in Points, m <= n
       PROVE  availableAt[Arrivals[m]] <= availableAt[Arrivals[n]]
  <2> DEFINE i == Arrivals[m]
             j == Arrivals[n]
             y == availableAt[i]
             z == availableAt[j]
  <2>1. /\ i \in Points /\ j \in Points /\ m \in Int /\ n \in Int
        /\ Cardinality(Earlier(i)) = m - 1 /\ Cardinality(Earlier(j)) = n - 1
    BY <1>1, <1>7
  <2>2. y \in Int /\ z \in Int
    <3> HIDE DEF i, j
    <3>. QED BY <2>1 DEF Timed
  <2>3. SUFFICES ASSUME z < y PROVE FALSE BY <2>2
  <2>4. ArrivesBefore(j, i) BY <2>3 DEF ArrivesBefore
  <2>5. Cardinality(Earlier(j)) < Cardinality(Earlier(i))
    <3> HIDE DEF i, j
    <3>. QED BY <2>1, <2>4, RanksRise
  <2>6. n - 1 < m - 1 BY <2>1, <2>5
  <2>. QED BY <1>11, <2>1, <2>6
<1>. QED BY <1>8, <1>9, <1>10, <1>11

\* Where decide's reading stops: the longest prefix available by then.
LEMMA ReadableIs ==
  ASSUME Timed, cursor \in 0..Len(PointDays), NEW d \in Int
  PROVE  \E last \in cursor..Len(PointDays) :
           LET fresh == Readable(d)
           IN /\ fresh \in Seq(Int) /\ Len(fresh) = last - cursor
              /\ \A k \in 1..(last - cursor) : fresh[k] = Arrivals[cursor + k]
              /\ \A n \in Points : n <= last /\ n > cursor => availableAt[Arrivals[n]] <= d + 1
              /\ \A n \in Points : n > last => availableAt[Arrivals[n]] > d + 1
<1> DEFINE N == Len(PointDays)
           Due(n) == \A k \in cursor + 1..n : availableAt[Arrivals[k]] <= DecisionAt(d)
           due == {n \in cursor..N : Due(n)}
           last == Max(due)
           fresh == Readable(d)
<1>1. /\ N \in Nat /\ cursor \in Nat /\ cursor <= N /\ Points = 1..N
      /\ Arrivals \in [Points -> Points] /\ \A n \in Points : availableAt[Arrivals[n]] \in Int
      /\ DecisionAt(d) = d + 1
  <2>1. N \in Nat /\ Points = 1..N BY DEF Timed, Points
  <2>2. Arrivals \in [Points -> Points] BY ArrivalsAre
  <2>3. \A n \in Points : availableAt[Arrivals[n]] \in Int BY <2>2 DEF Timed
  <2>. QED BY <2>1, <2>2, <2>3 DEF DecisionAt
<1> HIDE DEF N
<1>2. cursor \in cursor..N /\ cursor \in due BY <1>1
<1>3. last \in due /\ \A n \in due : n <= last
  <2>1. due \subseteq 0..N /\ due # {}
    <3>1. due \subseteq cursor..N /\ due # {} BY <1>2
    <3>2. cursor..N \subseteq 0..N BY <1>1
    <3> HIDE DEF due
    <3>. QED BY <3>1, <3>2
  <2> HIDE DEF due
  <2>. QED BY <1>1, <2>1, MaxUpTo
<1>4. fresh = SubSeq(Arrivals, cursor + 1, last)
  <2>1. Readable(d) = SubSeq(Arrivals, cursor + 1, Max({n \in cursor..Len(PointDays) :
                     \A k \in cursor + 1..n : availableAt[Arrivals[k]] <= DecisionAt(d)}))
    BY Zenon DEF Readable
  <2>. QED BY <2>1 DEF N
<1> HIDE DEF last, fresh
<1>5. last \in cursor..N /\ last \in Int /\ Due(last) BY <1>1, <1>3
<1>6. /\ fresh \in Seq(Int) /\ Len(fresh) = last - cursor
      /\ \A k \in 1..(last - cursor) : fresh[k] = Arrivals[cursor + k]
  <2>1. Arrivals \in Seq(Int) /\ Len(Arrivals) = N
    <3>1. Arrivals \in [1..N -> Int] BY <1>1
    <3>. QED BY <1>1, <3>1
  <2>2. CASE last = cursor
    <3>1. fresh = <<>> BY <1>1, <1>4, <2>1, <2>2
    <3>. QED BY <1>1, <2>2, <3>1
  <2>3. CASE last # cursor
    <3>1. /\ cursor + 1 \in Int /\ cursor + 1 <= last /\ last - (cursor + 1) + 1 = last - cursor
          /\ \A k \in (cursor + 1)..last : Arrivals[k] \in Int
          /\ \A k \in 1..(last - cursor) : (cursor + 1) + k - 1 = cursor + k
      BY <1>1, <1>5, <2>3
    <3>. QED BY <1>4, <1>5, <3>1, SubSeqProperties
  <2>. QED BY <2>2, <2>3
<1>7. \A n \in Points : n <= last /\ n > cursor => availableAt[Arrivals[n]] <= d + 1
  <2>1. \A k \in cursor + 1..last : availableAt[Arrivals[k]] <= d + 1 BY <1>1, <1>5
  <2>. QED BY <1>1, <1>5, <2>1
<1>8. ASSUME NEW n \in Points, n > last PROVE availableAt[Arrivals[n]] > d + 1
  <2> DEFINE y == availableAt[Arrivals[last + 1]]
             z == availableAt[Arrivals[n]]
  <2>1. last + 1 \in Points /\ n \in Int /\ last + 1 <= n BY <1>1, <1>5, <1>8
  <2>2. y \in Int /\ z \in Int BY <1>1, <2>1
  <2>3. y <= z BY <2>1, ArrivalsAre
  <2>4. ~(y <= d + 1)
    <3>1. SUFFICES ASSUME y <= d + 1 PROVE FALSE OBVIOUS
    <3>2. \A k \in cursor + 1..(last + 1) : availableAt[Arrivals[k]] <= DecisionAt(d)
      <4>1. ASSUME NEW k \in cursor + 1..(last + 1) PROVE availableAt[Arrivals[k]] <= DecisionAt(d)
        <5>1. k = last + 1 \/ k \in cursor + 1..last BY <1>1, <1>5
        <5>. QED BY <1>1, <1>5, <3>1, <5>1
      <4>. QED BY <4>1
    <3>3. last + 1 \in cursor..N BY <1>1, <1>5, <2>1
    <3>4. last + 1 \in due BY <3>2, <3>3
    <3>5. last + 1 <= last
      <4> HIDE DEF due
      <4>. QED BY <1>3, <3>4
    <3>. QED BY <1>5, <3>5
  <2> HIDE DEF y, z
  <2>5. z > d + 1 BY <2>2, <2>3, <2>4
  <2>. QED BY <2>5 DEF z
<1>9. last \in cursor..Len(PointDays) BY <1>5 DEF N
<1>. QED BY <1>6, <1>7, <1>8, <1>9 DEF fresh

\* What a list holds once the first n arrivals are read into it.
ReadUpTo(seq, n) ==
  /\ seq \in Seq(Int) /\ Len(seq) = n /\ Sorted(seq)
  /\ \A x : In(seq, x) <=> \E k \in 1..n : Arrivals[k] = x

\* A decision's list, and its cursor: the readable points, in order.
LEMMA ReadingIs ==
  ASSUME Timed, cursor \in 0..Len(PointDays), ReadUpTo(visible, cursor), NEW d \in Int
  PROVE  LET fresh == Readable(d)
             last == cursor + Len(fresh)
         IN /\ last \in cursor..Len(PointDays)
            /\ ReadUpTo(ReadAll(visible, fresh), last)
            /\ fresh = <<>> => ReadAll(visible, fresh) = visible
            /\ \A n \in Points : n <= last /\ n > cursor => availableAt[Arrivals[n]] <= d + 1
            /\ \A n \in Points : n > last => availableAt[Arrivals[n]] > d + 1
<1> DEFINE N == Len(PointDays)
           fresh == Readable(d)
           L == Len(fresh)
           seen == ReadAll(visible, fresh)
<1>1. PICK last \in cursor..N :
        /\ fresh \in Seq(Int) /\ L = last - cursor
        /\ \A k \in 1..(last - cursor) : fresh[k] = Arrivals[cursor + k]
        /\ \A n \in Points : n <= last /\ n > cursor => availableAt[Arrivals[n]] <= d + 1
        /\ \A n \in Points : n > last => availableAt[Arrivals[n]] > d + 1
  BY ReadableIs
<1>2. /\ N \in Nat /\ cursor \in Nat /\ cursor <= N /\ Points = 1..N /\ last \in Int
      /\ L \in Nat /\ cursor + L = last
  BY <1>1 DEF Timed, Points
<1>3. /\ visible \in Seq(Int) /\ Len(visible) = cursor /\ Sorted(visible)
      /\ \A x : In(visible, x) <=> \E k \in 1..cursor : Arrivals[k] = x
  BY DEF ReadUpTo
<1>4. \A m, n \in 1..N : Arrivals[m] = Arrivals[n] => m = n BY <1>2, ArrivalsAre
<1> HIDE DEF fresh, N, L
<1>5. \A k \in 1..L : fresh[k] = Arrivals[cursor + k] /\ cursor + k \in 1..N BY <1>1, <1>2
<1>6. /\ seen \in Seq(Int) /\ Len(seen) = cursor + L /\ Sorted(seen)
      /\ \A x : In(seen, x) <=> In(visible, x) \/ In(fresh, x)
  <2>1. ASSUME NEW k \in 1..L PROVE ~In(visible, fresh[k])
    <3>1. SUFFICES ASSUME NEW m \in 1..cursor, Arrivals[m] = fresh[k] PROVE FALSE BY <1>3
    <3>2. m \in 1..N /\ cursor + k \in 1..N /\ m # cursor + k BY <1>2, <1>5
    <3>. QED BY <1>4, <1>5, <3>1, <3>2
  <2>2. ASSUME NEW k \in 1..L, NEW l \in 1..L, k < l PROVE fresh[k] # fresh[l]
    <3>1. cursor + k # cursor + l BY <1>2, <2>2
    <3>. QED BY <1>4, <1>5, <3>1
  <2>3. fresh \in Seq(Int) /\ Len(fresh) = L BY <1>1 DEF L
  <2>. QED BY <1>3, <2>1, <2>2, <2>3, ReadAllIs
<1>7. ASSUME NEW x PROVE In(seen, x) <=> \E k \in 1..last : Arrivals[k] = x
  <2>1. In(seen, x) <=> (\E k \in 1..cursor : Arrivals[k] = x) \/ \E k \in 1..L : fresh[k] = x
    BY <1>3, <1>6 DEF In, L
  <2>2. ASSUME NEW k \in 1..last
        PROVE  k \in 1..cursor \/ \E l \in 1..L : fresh[l] = Arrivals[k]
    <3>1. CASE k > cursor
      <4>1. k - cursor \in 1..L /\ cursor + (k - cursor) = k BY <1>2, <3>1
      <4>2. fresh[k - cursor] = Arrivals[k] BY <1>5, <4>1
      <4>. QED BY <4>1, <4>2
    <3>. QED BY <1>2, <3>1
  <2>3. \A k \in 1..cursor : k \in 1..last BY <1>2
  <2>4. \A k \in 1..L : cursor + k \in 1..last BY <1>2
  <2>. QED BY <1>5, <2>1, <2>2, <2>3, <2>4
<1>8. ReadUpTo(seen, last) BY <1>2, <1>6, <1>7 DEF ReadUpTo
<1>9. ASSUME fresh = <<>> PROVE seen = visible
  <2>1. fresh \in Seq(Int) /\ Len(fresh) = 0 BY <1>9
  <2>2. seen = ReadSteps(visible, fresh)[0] BY <2>1, ReadAllIsSteps
  <2>. QED BY <1>3, <2>1, <2>2, ReadStepsAre
<1>. QED BY <1>1, <1>2, <1>8, <1>9 DEF fresh, L, N

-----------------------------------------------------------------------------
(***************************************************************************)
(* The dominance rotation: its run.                                        *)
(***************************************************************************)
Kinds == {"entry", "exit"}

\* Whoever holds coins, or is about to buy them, decided an entry last.
Entered(kinds) == kinds # <<>> /\ kinds[Len(kinds)] = "entry"

Alternates(kinds) ==
  \A i \in 1..Len(kinds) : kinds[i] = "exit" => i > 1 /\ kinds[i - 1] = "entry"

\* What the closes have read.
ReadingOK ==
  /\ Timed /\ cursor \in 0..Len(PointDays)
  /\ ReadUpTo(visible, cursor) /\ emaOver = visible
  /\ reading \in Sides /\ halted \in BOOLEAN
  /\ snapshots = <<>> /\ ~halted => cursor = 0
  /\ snapshots # <<>> /\ ~halted =>
       \A n \in Points : availableAt[Arrivals[n]] <= Len(snapshots) <=> n <= cursor

\* What they decided.
DecidingOK ==
  /\ exitDays \subseteq 1..(LastDay + 1) /\ decisions \in Seq(Kinds)
  /\ snapshots = <<>> => book = EmptyPortfolio /\ target = NoTarget
  /\ snapshots # <<>> => Archived + Len(visible) >= EmaPeriod
  /\ halted => snapshots = <<>>
  /\ ~DominanceFailed => Alternates(decisions)
  /\ ~DominanceFailed /\ day \notin exitDays /\ phase \in {"open", "close"} /\ (Held \/ target # NoTarget)
       => Entered(decisions)

DominanceOK == RunOK /\ ReadingOK /\ DecidingOK

LEMMA TimesAre ==
  ASSUME DominanceParameters, availableAt \in Availabilities PROVE Timed
<1>1. PointDays \in Seq(Int) /\ Availabilities \subseteq [1..Len(PointDays) -> Int]
  BY DEF DominanceParameters
<1>2. Len(PointDays) \in Nat BY <1>1
<1>. QED BY <1>1, <1>2 DEF Timed, Points

LEMMA NothingHeld == ASSUME PortfolioAssumption, book = EmptyPortfolio PROVE ~Held
<1>1. \A s \in Symbols : Quantity(book, s) = 0 BY EmptyBookIs
<1>. QED BY <1>1 DEF Held

LEMMA DominanceInitOK ==
  ASSUME PortfolioAssumption, LastDay \in Nat, DominanceParameters, DominanceInit
  PROVE  DominanceOK
<1>1. /\ Init /\ cursor = 0 /\ visible = <<>> /\ emaOver = <<>> /\ reading = "level"
      /\ exitDays = {} /\ decisions = <<>> /\ halted = FALSE /\ availableAt \in Availabilities
  BY DEF DominanceInit, NothingRead
<1>2. RunOK BY <1>1, InitOK
<1>3. /\ target = NoTarget /\ book = EmptyPortfolio /\ snapshots = <<>>
  BY <1>1 DEF Init
<1>4. Timed /\ Len(PointDays) \in Nat BY <1>1, TimesAre DEF Timed
<1>5. ReadUpTo(visible, cursor)
  <2>1. visible \in Seq(Int) /\ Len(visible) = 0 BY <1>1
  <2>. QED BY <1>1, <2>1 DEF ReadUpTo, Sorted, In
<1>6. ReadingOK
  <2>1. cursor \in 0..Len(PointDays) BY <1>1, <1>4
  <2>2. emaOver = visible /\ reading \in Sides /\ halted \in BOOLEAN BY <1>1 DEF Sides
  <2>. QED BY <1>1, <1>3, <1>4, <1>5, <2>1, <2>2 DEF ReadingOK
<1>7. ~Held BY <1>3, NothingHeld
<1>8. DecidingOK BY <1>1, <1>3, <1>7 DEF DecidingOK, Alternates
<1>. QED BY <1>2, <1>6, <1>8 DEF DominanceOK

\* Arrivals is a function of the times alone.
ArrivalsBy(times) ==
  [n \in Points |->
     CHOOSE i \in Points :
       Cardinality({j \in Points : times[j] < times[i] \/ (times[j] = times[i] /\ j < i)}) = n - 1]

\* What a step that reads nothing keeps.
LEMMA ReadingStays ==
  ASSUME ReadingOK, UNCHANGED <<availableAt, cursor, visible, emaOver, reading, halted, snapshots>>
  PROVE  ReadingOK'
<1>1. Arrivals' = Arrivals
  <2>1. availableAt' = availableAt OBVIOUS
  <2>2. Arrivals = ArrivalsBy(availableAt) BY DEF Arrivals, ArrivesBefore, ArrivalsBy
  <2>3. Arrivals' = ArrivalsBy(availableAt') BY DEF Arrivals, ArrivesBefore, ArrivalsBy
  <2>. QED BY <2>1, <2>2, <2>3
<1>2. Timed' BY DEF ReadingOK, Timed
<1>3. ReadUpTo(visible, cursor)' BY <1>1 DEF ReadingOK, ReadUpTo
<1>. QED BY <1>1, <1>2, <1>3 DEF ReadingOK

LEMMA DominanceStutters ==
  ASSUME DominanceOK, UNCHANGED dominanceVars PROVE DominanceOK'
<1>1. /\ UNCHANGED vars /\ availableAt' = availableAt /\ cursor' = cursor /\ visible' = visible
      /\ emaOver' = emaOver /\ reading' = reading /\ exitDays' = exitDays
      /\ decisions' = decisions /\ halted' = halted
  BY DEF dominanceVars
<1>2. /\ phase' = phase /\ day' = day /\ book' = book /\ target' = target
      /\ snapshots' = snapshots
  BY <1>1 DEF vars
<1>3. RunOK' BY <1>1, StutterKeeps DEF DominanceOK
<1>4. ReadingOK' BY <1>1, <1>2, ReadingStays DEF DominanceOK
<1>5. DecidingOK' BY <1>1, <1>2 DEF DominanceOK, DecidingOK, DominanceFailed, Held
<1>. QED BY <1>3, <1>4, <1>5 DEF DominanceOK

LEMMA DominanceOpens ==
  ASSUME PortfolioAssumption, LastDay \in Nat, DominanceOK, NEW prices \in Market, Open(prices),
         UNCHANGED <<availableAt, cursor, visible, emaOver, reading, exitDays, decisions, halted>>
  PROVE  DominanceOK'
<1>1. RunOK' /\ (target = NoTarget => book' = book) BY OpenKeeps DEF DominanceOK
<1>2. /\ phase = "open" /\ phase' = "close" /\ day' = day /\ snapshots' = snapshots
      /\ target' = NoTarget
  BY DEF Open
<1>3. ReadingOK' BY <1>2, ReadingStays DEF DominanceOK
<1>4. (DominanceFailed)' <=> DominanceFailed BY <1>2 DEF DominanceFailed
<1>5. Held' => Held \/ target # NoTarget
  <2>1. book' = book => (Held' <=> Held) BY DEF Held
  <2>. QED BY <1>1, <2>1
<1>6. DecidingOK' BY <1>1, <1>2, <1>4, <1>5 DEF DominanceOK, DecidingOK
<1>. QED BY <1>1, <1>3, <1>6 DEF DominanceOK

LEMMA ArrivalsStay ==
  ASSUME availableAt' = availableAt PROVE Arrivals' = Arrivals
<1>1. Arrivals = ArrivalsBy(availableAt) BY DEF Arrivals, ArrivesBefore, ArrivalsBy
<1>2. Arrivals' = ArrivalsBy(availableAt') BY DEF Arrivals, ArrivesBefore, ArrivalsBy
<1>. QED BY <1>1, <1>2

\* What decide does with the points, whether or not the run goes on.
Reads(side) ==
  LET fresh == Readable(day)
      seen == ReadAll(visible, fresh)
  IN /\ cursor' = cursor + Len(fresh) /\ visible' = seen
     /\ emaOver' = IF fresh = <<>> THEN emaOver ELSE seen
     /\ reading' = side /\ availableAt' = availableAt
     /\ halted' = (Archived + Len(seen) < EmaPeriod)

LEMMA ReadsOn ==
  ASSUME RunOK, ReadingOK, DecidingOK, Archived \in Nat, EmaPeriod \in Nat,
         phase = "close", ~halted, NEW side \in Sides, Reads(side),
         halted' => snapshots' = snapshots,
         ~halted' => Len(snapshots') = day + 1 /\ snapshots' # <<>>
  PROVE  /\ ReadingOK'
         /\ halted' => snapshots = <<>>
         /\ ~halted' => Archived + Len(visible') >= EmaPeriod
<1> DEFINE fresh == Readable(day)
           seen == ReadAll(visible, fresh)
           last == cursor + Len(fresh)
<1>1. /\ cursor' = last /\ visible' = seen
      /\ emaOver' = IF fresh = <<>> THEN emaOver ELSE seen
      /\ reading' = side /\ availableAt' = availableAt
      /\ halted' = (Archived + Len(seen) < EmaPeriod)
  BY DEF Reads
<1>2. /\ Timed /\ cursor \in 0..Len(PointDays) /\ ReadUpTo(visible, cursor) /\ emaOver = visible
      /\ snapshots = <<>> => cursor = 0
      /\ snapshots # <<>> =>
           \A n \in Points : availableAt[Arrivals[n]] <= Len(snapshots) <=> n <= cursor
  BY DEF ReadingOK
<1>3. day \in Nat /\ day \in Int /\ Len(snapshots) = day
  <2>1. day \in 0..LastDay /\ Len(snapshots) = day BY DEF RunOK
  <2>. QED BY <2>1
<1>4. /\ last \in cursor..Len(PointDays)
      /\ ReadUpTo(seen, last)
      /\ fresh = <<>> => seen = visible
      /\ \A n \in Points : n <= last /\ n > cursor => availableAt[Arrivals[n]] <= day + 1
      /\ \A n \in Points : n > last => availableAt[Arrivals[n]] > day + 1
  BY <1>2, <1>3, ReadingIs
<1> HIDE DEF fresh, seen, last
<1>5. /\ last \in 0..Len(PointDays) /\ last \in Int /\ cursor \in Int /\ cursor <= last
      /\ \A n \in Points : n \in Int /\ n >= 1 /\ availableAt[Arrivals[n]] \in Int
  <2>1. Len(PointDays) \in Nat BY <1>2 DEF Timed
  <2>2. \A n \in Points : n \in Int /\ n >= 1 BY <2>1 DEF Points
  <2>3. \A n \in Points : availableAt[Arrivals[n]] \in Int
    <3>1. Arrivals \in [Points -> Points] BY <1>2, ArrivalsAre
    <3>. QED BY <1>2, <3>1 DEF Timed
  <2>. QED BY <1>2, <1>4, <2>1, <2>2, <2>3
<1>6. ASSUME NEW n \in Points PROVE availableAt[Arrivals[n]] <= day + 1 <=> n <= last
  <2> DEFINE y == availableAt[Arrivals[n]]
  <2>1. y \in Int /\ n \in Int /\ n >= 1 BY <1>5
  <2>2. n > last => y > day + 1 BY <1>4
  <2>3. n <= last /\ n > cursor => y <= day + 1 BY <1>4
  <2>4. n <= cursor => y <= day
    <3>1. CASE snapshots = <<>> BY <1>2, <2>1, <3>1
    <3>2. CASE snapshots # <<>> BY <1>2, <1>3, <3>2
    <3>. QED BY <3>1, <3>2
  <2> HIDE DEF y
  <2>5. y <= day + 1 <=> n <= last BY <1>3, <1>5, <2>1, <2>2, <2>3, <2>4
  <2>. QED BY <2>5 DEF y
<1>7. Arrivals' = Arrivals BY <1>1, ArrivalsStay
<1>9. emaOver' = visible' BY <1>1, <1>2, <1>4
<1>10. halted' => snapshots = <<>>
  <2>1. ASSUME snapshots # <<>> PROVE ~(Archived + Len(seen) < EmaPeriod)
    <3>1. Archived + Len(visible) >= EmaPeriod BY <2>1 DEF DecidingOK
    <3>2. Len(visible) = cursor /\ Len(seen) = last BY <1>2, <1>4 DEF ReadUpTo
    <3>. QED BY <1>5, <3>1, <3>2
  <2>. QED BY <1>1, <2>1
<1>11. ~halted' => Archived + Len(visible') >= EmaPeriod
  <2>1. Len(seen) = last BY <1>4 DEF ReadUpTo
  <2>2. ~halted' => ~(Archived + last < EmaPeriod) BY <1>1, <2>1
  <2>3. ~halted' => Archived + last >= EmaPeriod BY <1>5, <2>2
  <2>. QED BY <1>1, <2>1, <2>3
<1>12. Timed' BY <1>1, <1>2 DEF Timed
<1>13. halted' \in BOOLEAN BY <1>1
<1>14. ~halted' => \A n \in Points : availableAt'[Arrivals'[n]] <= Len(snapshots') <=> n <= cursor'
  BY <1>1, <1>6, <1>7
<1>15. cursor' \in 0..Len(PointDays) /\ reading' \in Sides BY <1>1, <1>5
<1>16. ReadUpTo(visible, cursor)'
  BY <1>1, <1>4, <1>7 DEF ReadUpTo
<1>17. ReadingOK'
  BY <1>9, <1>10, <1>12, <1>13, <1>14, <1>15, <1>16 DEF ReadingOK
<1>. QED BY <1>10, <1>11, <1>17

\* The basket is a table of weights, if a rough one.
LEMMA BasketIs ==
  ASSUME PortfolioAssumption PROVE Basket \in Weights
<1>1. Scale \in Nat \ {0} /\ Len(Pool) \in Nat \ {0} BY Parameters
<1> DEFINE S == Scale
           k == Len(Pool)
           part == S \div k
<1>2. S \in Nat /\ k \in Nat \ {0} BY <1>1
<1> HIDE DEF S, k
<1>3. part \in 0..S BY <1>2, PartOf
<1> HIDE DEF part
<1>. QED BY <1>3 DEF Basket, Weights, part, S, k

\* What decide returns, and what it notes of it.
Decides(side, inRange, decision) ==
  LET exit == ExitDue(side)
      entry == EntryDue(side, inRange)
  IN /\ decision = CASE exit -> [s \in Symbols |-> 0] [] entry -> Basket [] OTHER -> NoTarget
     /\ exitDays' = exitDays \cup (IF exit THEN {DecisionAt(day)} ELSE {})
     /\ decisions' = IF exit \/ entry
                     THEN Append(decisions, IF exit THEN "exit" ELSE "entry")
                     ELSE decisions

LEMMA DecidesIs ==
  ASSUME PortfolioAssumption, decisions \in Seq(Kinds), NEW side, NEW inRange \in BOOLEAN,
         NEW decision, Decides(side, inRange, decision)
  PROVE  /\ decision = NoTarget \/ decision \in Weights
         /\ \/ /\ Held /\ exitDays' = exitDays \cup {day + 1}
               /\ decisions' = Append(decisions, "exit")
            \/ /\ ~Held /\ exitDays' = exitDays /\ decisions' = Append(decisions, "entry")
            \/ exitDays' = exitDays /\ decisions' = decisions /\ decision = NoTarget
<1> DEFINE exit == ExitDue(side)
           entry == EntryDue(side, inRange)
           none == [s \in Symbols |-> 0]
<1>1. /\ exit \in BOOLEAN /\ entry \in BOOLEAN
      /\ exit => Held /\ ~entry
      /\ entry => ~Held
  BY DEF ExitDue, EntryDue
<1>2. none \in Weights
  <2>1. Scale \in Nat BY Parameters
  <2>. QED BY <2>1 DEF Weights
<1>3. /\ decision = CASE exit -> none [] entry -> Basket [] OTHER -> NoTarget
      /\ exitDays' = exitDays \cup (IF exit THEN {DecisionAt(day)} ELSE {})
      /\ decisions' = IF exit \/ entry
                      THEN Append(decisions, IF exit THEN "exit" ELSE "entry")
                      ELSE decisions
  BY Zenon DEF Decides
<1> HIDE DEF exit, entry, none
<1>4. CASE exit
  <2>1. decision = none BY <1>1, <1>3, <1>4
  <2>2. exitDays' = exitDays \cup {day + 1} /\ decisions' = Append(decisions, "exit")
    BY <1>3, <1>4 DEF DecisionAt
  <2>. QED BY <1>1, <1>2, <1>4, <2>1, <2>2
<1>5. CASE ~exit /\ entry
  <2>1. decision = Basket BY <1>3, <1>5
  <2>2. exitDays' = exitDays /\ decisions' = Append(decisions, "entry") BY <1>3, <1>5
  <2>. QED BY <1>1, <1>5, <2>1, <2>2, BasketIs
<1>6. CASE ~exit /\ ~entry
  <2>1. decision = NoTarget BY <1>3, <1>6
  <2>2. exitDays' = exitDays /\ decisions' = decisions BY <1>3, <1>6
  <2>. QED BY <2>1, <2>2
<1>. QED BY <1>1, <1>4, <1>5, <1>6

\* A run that stops changes nothing but what it read.
LEMMA DominanceHalts ==
  ASSUME DominanceOK, Archived \in Nat, EmaPeriod \in Nat, phase = "close", ~halted,
         NEW side \in Sides, Reads(side), halted', UNCHANGED <<vars, exitDays, decisions>>
  PROVE  DominanceOK'
<1>1. /\ UNCHANGED vars /\ exitDays' = exitDays /\ decisions' = decisions OBVIOUS
<1>2. /\ phase' = phase /\ day' = day /\ book' = book /\ target' = target
      /\ snapshots' = snapshots
  BY <1>1 DEF vars
<1>3. RunOK' BY <1>1, StutterKeeps DEF DominanceOK
<1>4. ReadingOK' /\ snapshots = <<>> BY <1>2, ReadsOn DEF DominanceOK
<1>5. DecidingOK' BY <1>1, <1>2, <1>4 DEF DominanceOK, DecidingOK, DominanceFailed, Held
<1>. QED BY <1>3, <1>4, <1>5 DEF DominanceOK

\* A close whose decision stands.
LEMMA DominanceDecides ==
  ASSUME PortfolioAssumption, LastDay \in Nat, DominanceOK, Archived \in Nat, EmaPeriod \in Nat,
         ~halted, NEW side \in Sides, NEW inRange \in BOOLEAN, NEW prices \in Market, NEW decision,
         Reads(side), ~halted', Close(prices, decision), Decides(side, inRange, decision)
  PROVE  DominanceOK'
<1> DEFINE snap == Marked(book, prices, day)
<1>1. /\ decision = NoTarget \/ decision \in Weights
      /\ \/ Held /\ exitDays' = exitDays \cup {day + 1} /\ decisions' = Append(decisions, "exit")
         \/ ~Held /\ exitDays' = exitDays /\ decisions' = Append(decisions, "entry")
         \/ exitDays' = exitDays /\ decisions' = decisions /\ decision = NoTarget
  BY DecidesIs DEF DominanceOK, DecidingOK
<1>2. /\ RunOK' /\ book'.lots = book.lots /\ snapshots' = Append(snapshots, snap)
  BY <1>1, CloseKeeps DEF DominanceOK
<1>3. /\ phase = "close" /\ phase' \in {"open", "done"} /\ day \in 0..LastDay /\ day \in Int
      /\ phase' = "open" => day' = day + 1 /\ target' = decision
      /\ phase' = "done" => day' = day
  <2>1. phase = "close" BY DEF Close
  <2>2. \/ phase' = "open" /\ day' = day + 1 /\ target' = decision
        \/ phase' = "done" /\ day' = day
    BY DEF Close
  <2>3. day \in 0..LastDay BY DEF DominanceOK, RunOK
  <2>. QED BY <2>1, <2>2, <2>3
<1>4. /\ Len(snapshots) = day /\ snapshots \in Seq(SnapRec)
      /\ snap.ts = day /\ snap.quantities = [s \in Symbols |-> Quantity(book, s)]
  BY <1>3 DEF DominanceOK, RunOK, Marked
<1> HIDE DEF snap
<1>5. /\ Len(snapshots') = day + 1 /\ snapshots'[day + 1] = snap
      /\ \A i \in 1..day : snapshots'[i] = snapshots[i]
  <2>1. /\ Len(snapshots') = Len(snapshots) + 1 /\ snapshots'[Len(snapshots) + 1] = snap
        /\ \A i \in 1..Len(snapshots) : snapshots'[i] = snapshots[i]
    BY <1>2, <1>4, AppendIs
  <2>. QED BY <1>4, <2>1
<1>6. snapshots' # <<>> BY <1>3, <1>5
<1>7. ReadingOK' /\ Archived + Len(visible') >= EmaPeriod
  BY <1>3, <1>5, <1>6, ReadsOn DEF DominanceOK
<1>8. /\ exitDays \subseteq 1..(LastDay + 1) /\ decisions \in Seq(Kinds)
      /\ ~DominanceFailed => Alternates(decisions)
      /\ ~DominanceFailed /\ day \notin exitDays /\ Held => Entered(decisions)
  BY <1>3 DEF DominanceOK, DecidingOK
<1>9. exitDays \subseteq exitDays' /\ exitDays' \subseteq exitDays \cup {day + 1} BY <1>1
<1>10. DominanceFailed => DominanceFailed'
  <2>1. ASSUME NEW i \in 1..Len(snapshots), snapshots[i].ts \in exitDays,
               NEW s \in Symbols, snapshots[i].quantities[s] > 0
        PROVE  DominanceFailed'
    <3>1. i \in 1..Len(snapshots') /\ snapshots'[i] = snapshots[i] BY <1>3, <1>4, <1>5
    <3>2. snapshots'[i].ts \in exitDays' /\ snapshots'[i].quantities[s] > 0 BY <1>9, <2>1, <3>1
    <3>. QED BY <3>1, <3>2 DEF DominanceFailed
  <2>. QED BY <2>1 DEF DominanceFailed
<1>11. Held /\ day \in exitDays => DominanceFailed'
  <2>1. ASSUME NEW s \in Symbols, Quantity(book, s) > 0, day \in exitDays PROVE DominanceFailed'
    <3>1. day + 1 \in 1..Len(snapshots') /\ snapshots'[day + 1] = snap BY <1>3, <1>5
    <3>2. snap.ts \in exitDays' /\ snap.quantities[s] > 0 BY <1>4, <1>9, <2>1
    <3>. QED BY <3>1, <3>2 DEF DominanceFailed
  <2>. QED BY <2>1 DEF Held
<1>12. ~DominanceFailed' => Alternates(decisions) /\ (Held => Entered(decisions))
  BY <1>8, <1>10, <1>11
<1>13. Held' <=> Held
  <2>1. \A s \in Symbols : Quantity(book', s) = Quantity(book, s) BY <1>2 DEF Quantity
  <2>. QED BY <2>1 DEF Held
<1>14. ASSUME NEW kind \in Kinds, Alternates(decisions), kind = "exit" => Entered(decisions)
       PROVE  /\ Append(decisions, kind) \in Seq(Kinds) /\ Alternates(Append(decisions, kind))
              /\ kind = "entry" => Entered(Append(decisions, kind))
  <2> DEFINE L == Len(decisions)
             more == Append(decisions, kind)
  <2>1. L \in Nat /\ decisions \in Seq(Kinds) BY <1>8
  <2>2. /\ more \in Seq(Kinds) /\ Len(more) = L + 1 /\ more[L + 1] = kind
        /\ \A i \in 1..L : more[i] = decisions[i]
    BY <2>1, AppendIs
  <2> HIDE DEF more
  <2>3. ASSUME NEW i \in 1..Len(more), more[i] = "exit" PROVE i > 1 /\ more[i - 1] = "entry"
    <3>1. CASE i \in 1..L
      <4>1. decisions[i] = "exit" BY <2>2, <2>3, <3>1
      <4>2. i > 1 /\ decisions[i - 1] = "entry" BY <1>14, <3>1, <4>1 DEF Alternates
      <4>3. i - 1 \in 1..L BY <2>1, <3>1, <4>2
      <4>. QED BY <2>2, <4>2, <4>3
    <3>2. CASE i = L + 1
      <4>1. decisions # <<>> /\ decisions[L] = "entry" BY <1>14, <2>2, <2>3, <3>2 DEF Entered
      <4>2. L \in 1..L BY <2>1, <4>1
      <4>. QED BY <2>1, <2>2, <3>2, <4>1, <4>2
    <3>. QED BY <2>1, <2>2, <3>1, <3>2
  <2>4. Alternates(more) BY <2>3 DEF Alternates
  <2>5. more # <<>> /\ more[Len(more)] = kind BY <2>1, <2>2
  <2>. QED BY <2>2, <2>4, <2>5 DEF Entered, more
<1>15. decisions' \in Seq(Kinds)
  <2>1. \A kind \in Kinds : Append(decisions, kind) \in Seq(Kinds) BY <1>8
  <2>. QED BY <1>1, <1>8, <2>1 DEF Kinds
<1>16. ~DominanceFailed' => Alternates(decisions')
  BY <1>1, <1>12, <1>14 DEF Kinds
<1>17. ~DominanceFailed' /\ day' \notin exitDays' /\ phase' \in {"open", "close"}
         /\ (Held' \/ target' # NoTarget) => Entered(decisions')
  <2>1. SUFFICES ASSUME ~DominanceFailed', day' \notin exitDays', phase' = "open",
                        Held \/ decision # NoTarget
                 PROVE  Entered(decisions')
    BY <1>3, <1>13
  <2>2. day' = day + 1 BY <1>3, <2>1
  <2>3. CASE ~Held /\ exitDays' = exitDays /\ decisions' = Append(decisions, "entry")
    BY <1>12, <1>14, <2>1, <2>3 DEF Kinds
  <2>4. CASE exitDays' = exitDays /\ decisions' = decisions /\ decision = NoTarget
    BY <1>12, <2>1, <2>4
  <2>. QED BY <1>1, <2>1, <2>2, <2>3, <2>4
<1>18. exitDays' \subseteq 1..(LastDay + 1)
  <2>1. day + 1 \in 1..(LastDay + 1) BY <1>3
  <2>. QED BY <1>8, <1>9, <2>1
<1>19. DecidingOK'
  BY <1>6, <1>7, <1>15, <1>16, <1>17, <1>18 DEF DecidingOK
<1>. QED BY <1>2, <1>7, <1>19 DEF DominanceOK

LEMMA DominanceStep ==
  ASSUME PortfolioAssumption, TargetAssumption, DominanceParameters, DominanceOK,
         [DominanceNext]_dominanceVars
  PROVE  DominanceOK'
<1>1. LastDay \in Nat /\ Archived \in Nat /\ EmaPeriod \in Nat BY MarketIs DEF DominanceParameters
<1>2. CASE UNCHANGED dominanceVars BY <1>2, DominanceStutters
<1>3. CASE DominanceOpen
  <2>1. PICK prices \in OpenPrices : Open(prices) BY <1>3 DEF DominanceOpen
  <2>2. UNCHANGED <<availableAt, cursor, visible, emaOver, reading, exitDays, decisions, halted>>
    BY <1>3 DEF DominanceOpen
  <2>3. prices \in Market BY MarketIs
  <2>. QED BY <1>1, <2>1, <2>2, <2>3, DominanceOpens
<1>4. CASE DominanceClose
  <2>1. PICK prices \in ClosePrices, side \in Sides, inRange \in BOOLEAN :
          LET fresh == Readable(day)
              seen == ReadAll(visible, fresh)
              exit == ExitDue(side)
              entry == EntryDue(side, inRange)
          IN /\ phase = "close" /\ ~halted
             /\ day > 0 /\ fresh = <<>> => side = reading
             /\ cursor' = cursor + Len(fresh) /\ visible' = seen
             /\ emaOver' = IF fresh = <<>> THEN emaOver ELSE seen
             /\ reading' = side
             /\ UNCHANGED availableAt
             /\ halted' = TooShort(fresh, seen)
             /\ IF halted'
                THEN UNCHANGED <<vars, exitDays, decisions>>
                ELSE /\ Close(prices, CASE exit -> [s \in Symbols |-> 0]
                                        [] entry -> Basket
                                        [] OTHER -> NoTarget)
                     /\ exitDays' = exitDays \cup (IF exit THEN {DecisionAt(day)} ELSE {})
                     /\ decisions' = IF exit \/ entry
                                     THEN Append(decisions, IF exit THEN "exit" ELSE "entry")
                                     ELSE decisions
    BY <1>4, Zenon DEF DominanceClose
  <2>2. prices \in Market BY MarketIs
  <2>3. phase = "close" /\ ~halted BY <2>1
  <2>4. Reads(side) BY <2>1, Zenon DEF Reads, TooShort
  <2>5. CASE halted'
    <3>1. UNCHANGED <<vars, exitDays, decisions>> BY <2>1, <2>5, Zenon
    <3>. QED BY <1>1, <2>3, <2>4, <2>5, <3>1, DominanceHalts
  <2>6. CASE ~halted'
    <3> DEFINE decision == CASE ExitDue(side) -> [s \in Symbols |-> 0]
                             [] EntryDue(side, inRange) -> Basket
                             [] OTHER -> NoTarget
    <3>1. Close(prices, decision) BY <2>1, <2>6, Zenon
    <3>2. Decides(side, inRange, decision) BY <2>1, <2>6, Zenon DEF Decides
    <3> HIDE DEF decision
    <3>. QED BY <1>1, <2>2, <2>3, <2>4, <2>6, <3>1, <3>2, DominanceDecides
  <2>. QED BY <2>5, <2>6
<1>. QED BY <1>2, <1>3, <1>4 DEF DominanceNext

LEMMA ReadingFollows == ASSUME DominanceOK PROVE ReadsWhatIsAvailable
<1> DEFINE decided == DecisionAt(Len(snapshots) - 1)
<1>1. SUFFICES ASSUME snapshots # <<>>, ~halted
               PROVE  /\ Range(visible) = {i \in Points : availableAt[i] <= decided}
                      /\ \A k \in 1..Len(visible) - 1 : visible[k] < visible[k + 1]
                      /\ emaOver = visible
  BY DEF ReadsWhatIsAvailable
<1>2. /\ Timed /\ ReadUpTo(visible, cursor) /\ emaOver = visible /\ cursor \in 0..Len(PointDays)
      /\ \A n \in Points : availableAt[Arrivals[n]] <= Len(snapshots) <=> n <= cursor
  BY <1>1 DEF DominanceOK, ReadingOK
<1>3. Len(snapshots) \in Nat BY DEF DominanceOK, RunOK
<1>4. decided = Len(snapshots)
  <2> DEFINE L == Len(snapshots)
  <2>1. L \in Nat BY <1>3
  <2> HIDE DEF L
  <2>2. (L - 1) + 1 = L BY <2>1
  <2>. QED BY <2>2 DEF L, DecisionAt
<1> HIDE DEF decided
<1>5. /\ visible \in Seq(Int) /\ Len(visible) = cursor /\ Sorted(visible)
      /\ \A x : In(visible, x) <=> \E k \in 1..cursor : Arrivals[k] = x
  BY <1>2 DEF ReadUpTo
<1>6. /\ Arrivals \in [Points -> Points] /\ \A i \in Points : \E n \in Points : Arrivals[n] = i
  BY <1>2, ArrivalsAre
<1>7. \A k \in 1..cursor : k \in Points /\ k <= cursor BY <1>2 DEF Timed, Points
<1>8. \A n \in Points : n <= cursor => n \in 1..cursor BY <1>2 DEF Timed, Points
<1>9. ASSUME NEW x PROVE In(visible, x) <=> x \in Points /\ availableAt[x] <= decided
  <2>1. ASSUME NEW k \in 1..cursor PROVE Arrivals[k] \in Points /\ availableAt[Arrivals[k]] <= decided
    <3>1. k \in Points /\ k <= cursor BY <1>7
    <3>. QED BY <1>2, <1>4, <1>6, <3>1
  <2>2. ASSUME x \in Points, availableAt[x] <= decided PROVE \E k \in 1..cursor : Arrivals[k] = x
    <3>1. PICK n \in Points : Arrivals[n] = x BY <1>6, <2>2
    <3>2. n <= cursor BY <1>2, <1>4, <2>2, <3>1
    <3>3. n \in 1..cursor BY <1>8, <3>2
    <3>. QED BY <3>1, <3>3
  <2>. QED BY <1>5, <2>1, <2>2
<1>10. Range(visible) = {i \in Points : availableAt[i] <= decided}
  <2>1. DOMAIN visible = 1..Len(visible) BY <1>5
  <2>2. \A x : x \in Range(visible) <=> In(visible, x) BY <2>1 DEF Range, In
  <2>. QED BY <1>9, <2>2
<1>11. ASSUME NEW k \in 1..Len(visible) - 1 PROVE visible[k] < visible[k + 1]
  <2>1. k \in 1..Len(visible) /\ k + 1 \in 1..Len(visible) /\ k < k + 1 BY <1>5
  <2>. QED BY <1>5, <2>1 DEF Sorted
<1>. QED BY <1>2, <1>10, <1>11

LEMMA AlternationFollows == ASSUME DominanceOK PROVE ExitsFollowEntries
BY DEF DominanceOK, DecidingOK, ExitsFollowEntries, Alternates

LEMMA HaltFollows == ASSUME DominanceOK PROVE HaltsBeforeTrading
BY DEF DominanceOK, DecidingOK, HaltsBeforeTrading

LEMMA DominanceTypesFollow == ASSUME PortfolioAssumption, DominanceOK PROVE DominanceTypeOK
<1>1. TypeOK BY TypesFollow DEF DominanceOK
<1>2. Len(visible) = cursor /\ cursor \in 0..Len(PointDays) BY DEF DominanceOK, ReadingOK, ReadUpTo
<1>. QED BY <1>1, <1>2 DEF DominanceOK, ReadingOK, DecidingOK, DominanceTypeOK

-----------------------------------------------------------------------------
\* Types of a dominance rotation; its list is as long as its cursor says.
THEOREM DominanceTypes ==
  ASSUME PortfolioAssumption, TargetAssumption, DominanceParameters
  PROVE  DominanceSpec => []DominanceTypeOK
<1>1. DominanceInit => DominanceOK BY MarketIs, DominanceInitOK
<1>2. DominanceOK /\ [DominanceNext]_dominanceVars => DominanceOK' BY DominanceStep
<1>3. DominanceOK => DominanceTypeOK BY DominanceTypesFollow
<1>. QED BY <1>1, <1>2, <1>3, PTL DEF DominanceSpec

\* Its books reconcile and its rebalances land, as any portfolio's do.
THEOREM DominanceKeepsItsBooks ==
  ASSUME PortfolioAssumption, TargetAssumption, DominanceParameters
  PROVE  DominanceSpec => [](SnapshotsReconcile /\ LandsOnTarget)
<1>1. DominanceInit => DominanceOK BY MarketIs, DominanceInitOK
<1>2. DominanceOK /\ [DominanceNext]_dominanceVars => DominanceOK' BY DominanceStep
<1>3. DominanceOK => SnapshotsReconcile /\ LandsOnTarget
  BY ReconciliationFollows, LandingFollows DEF DominanceOK
<1>. QED BY <1>1, <1>2, <1>3, PTL DEF DominanceSpec

\* decide of run_dominance (portfolio_btc_dominance_rotation.py): whatever the
\* order points are archived in, a decision has read all that are available by
\* its time and no other, in the order of their dates.
THEOREM PointsAreReadOnTime ==
  ASSUME PortfolioAssumption, TargetAssumption, DominanceParameters
  PROVE  DominanceSpec => []ReadsWhatIsAvailable
<1>1. DominanceInit => DominanceOK BY MarketIs, DominanceInitOK
<1>2. DominanceOK /\ [DominanceNext]_dominanceVars => DominanceOK' BY DominanceStep
<1>3. DominanceOK => ReadsWhatIsAvailable BY ReadingFollows
<1>. QED BY <1>1, <1>2, <1>3, PTL DEF DominanceSpec

\* A run that succeeds never exits twice in a row, nor before an entry.
THEOREM ExitsFollowTheirEntries ==
  ASSUME PortfolioAssumption, TargetAssumption, DominanceParameters
  PROVE  DominanceSpec => []ExitsFollowEntries
<1>1. DominanceInit => DominanceOK BY MarketIs, DominanceInitOK
<1>2. DominanceOK /\ [DominanceNext]_dominanceVars => DominanceOK' BY DominanceStep
<1>3. DominanceOK => ExitsFollowEntries BY AlternationFollows
<1>. QED BY <1>1, <1>2, <1>3, PTL DEF DominanceSpec

\* INSUFFICIENT_DATA is found out before the run trades, or never.
THEOREM HaltsComeFirst ==
  ASSUME PortfolioAssumption, TargetAssumption, DominanceParameters
  PROVE  DominanceSpec => []HaltsBeforeTrading
<1>1. DominanceInit => DominanceOK BY MarketIs, DominanceInitOK
<1>2. DominanceOK /\ [DominanceNext]_dominanceVars => DominanceOK' BY DominanceStep
<1>3. DominanceOK => HaltsBeforeTrading BY HaltFollows
<1>. QED BY <1>1, <1>2, <1>3, PTL DEF DominanceSpec

=============================================================================
