---------------------------- MODULE LotRunProofs ----------------------------
(***************************************************************************)
(* Theorems about ScaleRun, GridRun, SeriesRun and DcaRun, for any         *)
(* signals, prices, charges, capital and limits: the ledger's own          *)
(* assertions never fire, the curve ends at the result, a round does not   *)
(* outlive its limits, a sold-out lot's charges follow from its trades,    *)
(* and what a template remembers - the grid its lines, Fear & Greed its    *)
(* lots, the DCA its round - is what the ledger holds.                     *)
(***************************************************************************)
EXTENDS GridRun, SeriesRun, DcaRun, SequenceTheorems, FiniteSetTheorems,
        WellFoundedInduction, TLAPS

-----------------------------------------------------------------------------
(***************************************************************************)
(* Sums.                                                                   *)
(***************************************************************************)
\* A set that holds 0, and each number whose predecessor it holds, holds all up to top.
LEMMA AllUpTo ==
  ASSUME NEW top \in Nat, NEW S, 0 \in S, \A n \in 1..top : n - 1 \in S => n \in S
  PROVE  \A n \in 0..top : n \in S
<1> DEFINE R == {n \in 0..top : n \notin S}
<1>1. SUFFICES ASSUME R # {} PROVE FALSE OBVIOUS
<1>2. R \subseteq Nat OBVIOUS
<1>3. PICK n \in R : \A k \in R : ~(k < n)
  <2> HIDE DEF R
  <2>1. IsWellFoundedOn(OpToRel(<, Nat), Nat) BY NatLessThanWellFounded
  <2>2. PICK n \in R : \A k \in R : ~(<<k, n>> \in OpToRel(<, Nat))
    BY <1>1, <1>2, <2>1, WFMin
  <2>3. \A k \in R : ~(k < n) BY <1>2, <2>2 DEF OpToRel
  <2>. QED BY <2>3
<1>4. n \in 1..top /\ n \notin S BY <1>3
<1>5. n - 1 \in 0..top /\ n - 1 \notin R BY <1>3, <1>4
<1>. QED BY <1>4, <1>5

\* The sum of the first n values, given the sums before it.
SumStep(values, f, n) == IF n = 0 THEN 0 ELSE f[n - 1] + values[n]
Sums(values) == CHOOSE f : f = [n \in 0..Len(values) |-> SumStep(values, f, n)]

LEMMA TotalIsSum == ASSUME NEW values PROVE Total(values) = Sums(values)[Len(values)]
BY Zenon DEF Total, Sums, SumStep

\* There are such sums.
LEMMA SumsExist ==
  ASSUME NEW values, Len(values) \in Nat
  PROVE  Sums(values) = [n \in 0..Len(values) |-> SumStep(values, Sums(values), n)]
<1> DEFINE L == Len(values)
           Has(k) == \E f : f = [n \in 0..k |-> SumStep(values, f, n)]
           S == {k \in 0..L : Has(k)}
<1>1. Has(0)
  <2> DEFINE g == [n \in 0..0 |-> 0]
  <2>1. \A n \in 0..0 : SumStep(values, g, n) = 0 BY DEF SumStep
  <2>2. g = [n \in 0..0 |-> SumStep(values, g, n)] BY <2>1
  <2>. QED BY <2>2
<1>2. ASSUME NEW k \in Nat, Has(k) PROVE Has(k + 1)
  <2>1. PICK f : f = [n \in 0..k |-> SumStep(values, f, n)] BY <1>2
  <2> DEFINE g == [n \in 0..(k + 1) |-> IF n <= k THEN f[n] ELSE SumStep(values, f, n)]
  <2>2. ASSUME NEW n \in 0..(k + 1) PROVE g[n] = SumStep(values, g, n)
    <3>1. g[n] = SumStep(values, f, n) BY <2>1
    <3>2. CASE n = 0 BY <3>1, <3>2 DEF SumStep
    <3>3. CASE n # 0
      <4>1. n - 1 \in 0..k BY <3>3
      <4>2. g[n - 1] = f[n - 1] BY <4>1
      <4> HIDE DEF g
      <4>. QED BY <3>1, <3>3, <4>2 DEF SumStep
    <3>. QED BY <3>2, <3>3
  <2>3. g = [n \in 0..(k + 1) |-> SumStep(values, g, n)] BY <2>2
  <2> HIDE DEF g
  <2>. QED BY <2>3
<1> HIDE DEF Has
<1>3. L \in Nat /\ 0 \in S BY <1>1
<1>4. \A k \in 1..L : k - 1 \in S => k \in S
  <2>1. ASSUME NEW k \in 1..L, k - 1 \in S PROVE k \in S
    <3>1. k - 1 \in Nat /\ (k - 1) + 1 = k BY <1>3
    <3>2. Has((k - 1) + 1) BY <1>2, <2>1, <3>1
    <3>. QED BY <1>3, <3>1, <3>2
  <2>. QED BY <2>1
<1>5. L \in S
  <2> HIDE DEF S, L
  <2>1. \A k \in 0..L : k \in S BY <1>3, <1>4, AllUpTo
  <2>. QED BY <1>3, <2>1
<1>6. \E f : f = [n \in 0..Len(values) |-> SumStep(values, f, n)] BY <1>5 DEF Has
<1>. QED BY <1>6, Zenon DEF Sums

LEMMA SumsAre ==
  ASSUME NEW values \in Seq(Int)
  PROVE  /\ Sums(values)[0] = 0
         /\ \A n \in 0..Len(values) : Sums(values)[n] \in Int
         /\ \A n \in 1..Len(values) : Sums(values)[n] = Sums(values)[n - 1] + values[n]
<1> DEFINE L == Len(values)
           f == Sums(values)
           S == {n \in 0..L : f[n] \in Int}
<1>1. L \in Nat /\ \A n \in 1..L : values[n] \in Int OBVIOUS
<1>2. f = [n \in 0..L |-> SumStep(values, f, n)] BY <1>1, SumsExist
<1> HIDE DEF f
<1>3. f[0] = 0 /\ \A n \in 1..L : f[n] = f[n - 1] + values[n]
  <2> HIDE DEF L
  <2>1. \A n \in 0..L : f[n] = SumStep(values, f, n) BY <1>2
  <2>2. 0 \in 0..L /\ \A n \in 1..L : n \in 0..L /\ n # 0 BY <1>1
  <2>. QED BY <2>1, <2>2 DEF SumStep
<1>4. \A n \in 0..L : n \in S
  <2>1. 0 \in S BY <1>1, <1>3
  <2>2. ASSUME NEW n \in 1..L, n - 1 \in S PROVE n \in S
    <3>1. f[n - 1] \in Int /\ f[n] = f[n - 1] + values[n] /\ values[n] \in Int
      BY <1>1, <1>3, <2>2
    <3>. QED BY <1>1, <2>2, <3>1
  <2> HIDE DEF S, L
  <2>. QED BY <1>1, <2>1, <2>2, AllUpTo
<1>. QED BY <1>3, <1>4 DEF f

\* The sum is what any running sum comes to.
LEMMA TotalIs ==
  ASSUME NEW values \in Seq(Int), NEW f, f[0] = 0,
         \A n \in 1..Len(values) : f[n] = f[n - 1] + values[n]
  PROVE  Total(values) = f[Len(values)] /\ \A n \in 0..Len(values) : f[n] = Sums(values)[n]
<1> DEFINE L == Len(values)
           g == Sums(values)
           S == {n \in 0..L : f[n] = g[n]}
<1>1. L \in Nat OBVIOUS
<1>2. g[0] = 0 /\ \A n \in 1..L : g[n] = g[n - 1] + values[n] BY SumsAre
<1>3. \A n \in 0..L : n \in S
  <2> HIDE DEF g
  <2>1. 0 \in S BY <1>1, <1>2
  <2>2. ASSUME NEW n \in 1..L, n - 1 \in S PROVE n \in S
    <3>1. f[n - 1] = g[n - 1] /\ g[n] = g[n - 1] + values[n] BY <1>1, <1>2, <2>2
    <3>. QED BY <1>1, <2>2, <3>1
  <2> HIDE DEF S, L
  <2>. QED BY <1>1, <2>1, <2>2, AllUpTo
<1>4. \A n \in 0..L : f[n] = g[n] BY <1>3
<1>5. L \in 0..L BY <1>1
<1>6. f[L] = g[L] BY <1>4, <1>5
<1>. QED BY <1>4, <1>6, TotalIsSum

LEMMA TotalInt == ASSUME NEW values \in Seq(Int) PROVE Total(values) \in Int
<1>1. Len(values) \in 0..Len(values) OBVIOUS
<1>. QED BY <1>1, SumsAre, TotalIsSum

LEMMA TotalEmpty == Total(<<>>) = 0
<1>1. <<>> \in Seq(Int) /\ Len(<<>>) = 0 OBVIOUS
<1>. QED BY <1>1, SumsAre, TotalIsSum

LEMMA TotalAppend ==
  ASSUME NEW values \in Seq(Int), NEW v \in Int
  PROVE  Total(Append(values, v)) = Total(values) + v
<1> DEFINE L == Len(values)
           more == Append(values, v)
           g == Sums(values)
           f == [n \in 0..(L + 1) |-> IF n <= L THEN g[n] ELSE g[L] + v]
<1>1. /\ L \in Nat /\ more \in Seq(Int) /\ Len(more) = L + 1 /\ more[L + 1] = v
      /\ \A n \in 1..L : more[n] = values[n]
  OBVIOUS
<1>2. g[0] = 0 /\ \A n \in 1..L : g[n] = g[n - 1] + values[n] BY SumsAre
<1> HIDE DEF more, g
<1>3. f[0] = 0 /\ \A n \in 1..(L + 1) : f[n] = f[n - 1] + more[n]
  <2>1. ASSUME NEW n \in 1..(L + 1) PROVE f[n] = f[n - 1] + more[n]
    <3>1. f[n - 1] = g[n - 1] BY <1>1
    <3>2. CASE n <= L
      <4>1. n \in 1..L /\ f[n] = g[n] BY <1>1, <3>2
      <4>. QED BY <1>1, <1>2, <3>1, <4>1
    <3>3. CASE n = L + 1
      <4>1. f[n] = g[L] + v BY <1>1, <3>3
      <4>. QED BY <1>1, <3>1, <3>3, <4>1
    <3>. QED BY <1>1, <3>2, <3>3
  <2>2. 0 \in 0..(L + 1) /\ 0 <= L /\ f[0] = g[0] BY <1>1
  <2>. QED BY <1>2, <2>1, <2>2
<1>4. Total(more) = f[L + 1]
  <2> HIDE DEF f
  <2>. QED BY <1>1, <1>3, TotalIs
<1>5. f[L + 1] = g[L] + v BY <1>1
<1>. QED BY <1>4, <1>5, TotalIsSum DEF more, g

LEMMA AppendIs ==
  ASSUME NEW S, NEW s \in Seq(S), NEW e \in S
  PROVE  /\ Append(s, e) \in Seq(S) /\ Len(Append(s, e)) = Len(s) + 1
         /\ Append(s, e)[Len(s) + 1] = e /\ \A i \in 1..Len(s) : Append(s, e)[i] = s[i]
         /\ Len(s) \in Nat
OBVIOUS

LEMMA Swaps ==
  ASSUME NEW a \in Int, NEW b \in Int, NEW c \in Int PROVE (a + b) - b + c = a + c
OBVIOUS

\* One value of a sum changes.
LEMMA TotalReplace ==
  ASSUME NEW values \in Seq(Int), NEW other \in Seq(Int), Len(other) = Len(values),
         NEW i \in 1..Len(values), \A n \in 1..Len(values) : n # i => other[n] = values[n]
  PROVE  Total(other) = Total(values) - values[i] + other[i]
<1> DEFINE L == Len(values)
           g == Sums(values)
           f == [n \in 0..L |-> IF n < i THEN g[n] ELSE g[n] - values[i] + other[i]]
<1>1. /\ L \in Nat /\ i \in 1..L /\ L \in 0..L /\ 0 \in 0..L
      /\ \A n \in 1..L : values[n] \in Int /\ other[n] \in Int
  OBVIOUS
<1>2. /\ g[0] = 0 /\ \A n \in 0..L : g[n] \in Int
      /\ \A n \in 1..L : g[n] = g[n - 1] + values[n]
  BY SumsAre
<1>7. \A n \in 0..L : /\ n < i => f[n] = g[n]
                      /\ ~(n < i) => f[n] = g[n] - values[i] + other[i]
  OBVIOUS
<1>8. Len(other) = L /\ \A n \in 1..L : n # i => other[n] = values[n] OBVIOUS
<1> HIDE DEF L, f, g
<1>3. f[0] = 0 BY <1>1, <1>2, <1>7
<1>4. ASSUME NEW n \in 1..L PROVE f[n] = f[n - 1] + other[n]
  <2>1. n \in 0..L /\ n - 1 \in 0..L BY <1>1
  <2>2. /\ g[n - 1] \in Int /\ g[n] = g[n - 1] + values[n]
        /\ values[n] \in Int /\ other[n] \in Int /\ values[i] \in Int /\ other[i] \in Int
    BY <1>1, <1>2, <2>1
  <2>3. CASE n < i
    <3>1. n - 1 < i /\ n # i BY <1>1, <2>3
    <3>2. f[n] = g[n] /\ f[n - 1] = g[n - 1] BY <1>7, <2>1, <2>3, <3>1
    <3>3. other[n] = values[n] BY <1>8, <3>1
    <3>. QED BY <2>2, <3>2, <3>3, Zenon
  <2>4. CASE n = i
    <3>1. ~(n < i) /\ n - 1 < i BY <1>1, <2>4
    <3>2. f[n] = g[n] - values[i] + other[i] /\ f[n - 1] = g[n - 1] BY <1>7, <2>1, <3>1
    <3>3. g[n] = g[n - 1] + values[i] BY <2>2, <2>4, Zenon
    <3>4. (g[n - 1] + values[i]) - values[i] + other[i] = g[n - 1] + other[i]
      BY <2>2, Swaps
    <3>. QED BY <2>4, <3>2, <3>3, <3>4, Zenon
  <2>5. CASE n > i
    <3>1. ~(n < i) /\ ~(n - 1 < i) /\ n # i BY <1>1, <2>5
    <3>2. /\ f[n] = g[n] - values[i] + other[i]
          /\ f[n - 1] = g[n - 1] - values[i] + other[i]
      BY <1>7, <2>1, <3>1
    <3>3. other[n] = values[n] BY <1>8, <3>1
    <3>4. (g[n - 1] + values[n]) - values[i] + other[i]
            = (g[n - 1] - values[i] + other[i]) + values[n]
      <4> DEFINE a == g[n - 1]
                 b == values[n]
                 c == values[i]
                 d == other[i]
      <4>1. a \in Int /\ b \in Int /\ c \in Int /\ d \in Int BY <2>2
      <4> HIDE DEF a, b, c, d
      <4>2. (a + b) - c + d = (a - c + d) + b BY <4>1
      <4>. QED BY <4>2 DEF a, b, c, d
    <3>. QED BY <2>2, <3>2, <3>3, <3>4, Zenon
  <2>6. n < i \/ n = i \/ n > i BY <1>1
  <2>. QED BY <2>3, <2>4, <2>5, <2>6
<1>5. f[L] = g[L] - values[i] + other[i]
  <2>1. ~(L < i) BY <1>1
  <2>. QED BY <1>1, <1>7, <2>1
<1>6. Total(other) = f[L] BY <1>3, <1>4, <1>8, TotalIs
<1>. QED BY <1>5, <1>6, TotalIsSum DEF L, g

LEMMA Reorders ==
  ASSUME NEW a \in Int, NEW b \in Int, NEW c \in Int PROVE (a + b) - c = (a - c) + b
OBVIOUS

\* One value leaves a sum.
LEMMA TotalRemove ==
  ASSUME NEW values \in Seq(Int), NEW rest \in Seq(Int), Len(rest) = Len(values) - 1,
         NEW i \in 1..Len(values),
         \A n \in 1..Len(rest) : rest[n] = IF n < i THEN values[n] ELSE values[n + 1]
  PROVE  Total(rest) = Total(values) - values[i]
<1> DEFINE L == Len(rest)
           g == Sums(values)
           f == [n \in 0..L |-> IF n < i THEN g[n] ELSE g[n + 1] - values[i]]
<1>1. /\ L \in Nat /\ i \in 1..(L + 1) /\ L \in 0..L /\ 0 \in 0..L /\ Len(values) = L + 1
      /\ \A n \in 1..(L + 1) : values[n] \in Int
  OBVIOUS
<1>2. /\ g[0] = 0 /\ \A n \in 0..(L + 1) : g[n] \in Int
      /\ \A n \in 1..(L + 1) : g[n] = g[n - 1] + values[n]
  BY <1>1, SumsAre
<1>7. \A n \in 0..L : /\ n < i => f[n] = g[n]
                      /\ ~(n < i) => f[n] = g[n + 1] - values[i]
  OBVIOUS
<1>8. \A n \in 1..L : /\ n < i => rest[n] = values[n]
                      /\ ~(n < i) => rest[n] = values[n + 1]
  OBVIOUS
<1> HIDE DEF L, f, g
<1>3. f[0] = 0 BY <1>1, <1>2, <1>7
<1>4. ASSUME NEW n \in 1..L PROVE f[n] = f[n - 1] + rest[n]
  <2>1. /\ n \in 0..L /\ n - 1 \in 0..L /\ (n - 1) + 1 = n /\ n - 1 \in 0..(L + 1)
        /\ n \in 1..(L + 1) /\ n + 1 \in 1..(L + 1) /\ (n + 1) - 1 = n /\ n \in 0..(L + 1)
    BY <1>1
  <2>2. /\ g[n - 1] \in Int /\ g[n] \in Int /\ values[n] \in Int /\ values[n + 1] \in Int
        /\ values[i] \in Int
    BY <1>1, <1>2, <2>1
  <2>3. g[n] = g[n - 1] + values[n] BY <1>2, <2>1
  <2>4. g[n + 1] = g[n] + values[n + 1]
    <3>1. g[n + 1] = g[(n + 1) - 1] + values[n + 1] BY <1>2, <2>1
    <3>. QED BY <2>1, <3>1
  <2>5. CASE n < i
    <3>1. n - 1 < i BY <1>1, <2>5
    <3>2. f[n] = g[n] /\ f[n - 1] = g[n - 1] BY <1>7, <2>1, <2>5, <3>1
    <3>3. rest[n] = values[n] BY <1>8, <2>5
    <3>. QED BY <2>3, <3>2, <3>3, Zenon
  <2>6. CASE n = i
    <3>1. ~(n < i) /\ n - 1 < i BY <1>1, <2>6
    <3>2. f[n] = g[n + 1] - values[i] /\ f[n - 1] = g[n - 1] BY <1>7, <2>1, <3>1
    <3>3. rest[n] = values[n + 1] BY <1>8, <3>1
    <3>4. g[n] = g[n - 1] + values[i] BY <2>3, <2>6, Zenon
    <3> DEFINE a == g[n - 1]
               b == values[n + 1]
               c == values[i]
    <3>5. a \in Int /\ b \in Int /\ c \in Int BY <2>2
    <3>6. f[n] = g[n + 1] - c /\ f[n - 1] = a /\ rest[n] = b BY <3>2, <3>3
    <3>7. g[n + 1] = g[n] + b /\ g[n] = a + c BY <2>4, <3>4
    <3> HIDE DEF a, b, c
    <3>. QED BY <3>5, <3>6, <3>7
  <2>7. CASE n > i
    <3>1. ~(n < i) /\ ~(n - 1 < i) BY <1>1, <2>7
    <3>2. f[n] = g[n + 1] - values[i] BY <1>7, <2>1, <3>1
    <3>3. f[n - 1] = g[(n - 1) + 1] - values[i] BY <1>7, <2>1, <3>1
    <3>4. f[n - 1] = g[n] - values[i] BY <2>1, <3>3
    <3>5. rest[n] = values[n + 1] BY <1>8, <3>1
    <3>6. (g[n] + values[n + 1]) - values[i] = (g[n] - values[i]) + values[n + 1]
      BY <2>2, Reorders
    <3>. QED BY <2>4, <3>2, <3>4, <3>5, <3>6, Zenon
  <2>8. n < i \/ n = i \/ n > i BY <1>1
  <2>. QED BY <2>5, <2>6, <2>7, <2>8
<1>5. f[L] = g[L + 1] - values[i]
  <2>1. CASE L < i
    <3>1. i = L + 1 /\ (L + 1) - 1 = L /\ L + 1 \in 1..(L + 1) BY <1>1, <2>1
    <3>2. f[L] = g[L] BY <1>1, <1>7, <2>1
    <3>3. g[L + 1] = g[L] + values[L + 1]
      <4>1. g[L + 1] = g[(L + 1) - 1] + values[L + 1] BY <1>2, <3>1
      <4>. QED BY <3>1, <4>1
    <3>4. L \in 0..(L + 1) BY <1>1
    <3>5. g[L] \in Int /\ values[L + 1] \in Int BY <1>1, <1>2, <3>1, <3>4
    <3>6. (g[L] + values[L + 1]) - values[L + 1] = g[L] BY <3>5
    <3>. QED BY <3>1, <3>2, <3>3, <3>6, Zenon
  <2>2. CASE ~(L < i) BY <1>1, <1>7, <2>2
  <2>. QED BY <2>1, <2>2
<1>6. Total(rest) = f[L] BY <1>3, <1>4, TotalIs DEF L
<1>. QED BY <1>1, <1>5, <1>6, TotalIsSum DEF g

LEMMA Product == ASSUME NEW a \in Int, NEW b \in Int PROVE a * b \in Int
OBVIOUS

\* One more term of both sums.
LEMMA Distributes ==
  ASSUME NEW a \in Int, NEW b \in Int, NEW c \in Int, NEW d \in Int, NEW p \in Int
  PROVE  (a + b) * p - (c + d) = (a * p - c) + (b * p - d)
<1>1. (a + b) * p = a * p + b * p OBVIOUS
<1> DEFINE x == a * p
           y == b * p
<1>2. x \in Int /\ y \in Int BY Product
<1> HIDE DEF x, y
<1>3. (x + y) - (c + d) = (x - c) + (y - d) BY <1>2
<1>. QED BY <1>1, <1>3, Zenon DEF x, y

\* A sum of linear terms.
LEMMA TotalLinear ==
  ASSUME NEW p \in Int, NEW us \in Seq(Int), NEW cs \in Seq(Int), NEW ws \in Seq(Int),
         Len(cs) = Len(us), Len(ws) = Len(us),
         \A n \in 1..Len(us) : ws[n] = us[n] * p - cs[n]
  PROVE  Total(ws) = Total(us) * p - Total(cs)
<1> DEFINE L == Len(us)
           g == Sums(us)
           h == Sums(cs)
           f == [n \in 0..L |-> g[n] * p - h[n]]
<1>1. L \in Nat /\ L \in 0..L /\ 0 \in 0..L OBVIOUS
<1>2. /\ g[0] = 0 /\ \A n \in 0..L : g[n] \in Int
      /\ \A n \in 1..L : us[n] \in Int /\ g[n] = g[n - 1] + us[n]
  <2>1. /\ g[0] = 0 /\ \A n \in 0..L : g[n] \in Int
        /\ \A n \in 1..L : g[n] = g[n - 1] + us[n]
    BY SumsAre
  <2>2. \A n \in 1..L : us[n] \in Int OBVIOUS
  <2>. QED BY <2>1, <2>2
<1>3. /\ h[0] = 0 /\ \A n \in 0..L : h[n] \in Int
      /\ \A n \in 1..L : cs[n] \in Int /\ h[n] = h[n - 1] + cs[n]
  <2>1. /\ h[0] = 0 /\ \A n \in 0..Len(cs) : h[n] \in Int
        /\ \A n \in 1..Len(cs) : h[n] = h[n - 1] + cs[n]
    BY SumsAre
  <2>2. \A n \in 1..Len(cs) : cs[n] \in Int OBVIOUS
  <2>. QED BY <2>1, <2>2
<1> HIDE DEF g, h
<1>4. f[0] = 0 BY <1>1, <1>2, <1>3
<1>5. ASSUME NEW n \in 1..L PROVE f[n] = f[n - 1] + ws[n]
  <2>1. n \in 0..L /\ n - 1 \in 0..L BY <1>1
  <2>2. f[n] = g[n] * p - h[n] /\ f[n - 1] = g[n - 1] * p - h[n - 1] BY <2>1
  <2>3. ws[n] = us[n] * p - cs[n] OBVIOUS
  <2>4. g[n - 1] \in Int /\ us[n] \in Int /\ h[n - 1] \in Int /\ cs[n] \in Int
    BY <1>2, <1>3, <2>1
  <2>5. g[n] = g[n - 1] + us[n] /\ h[n] = h[n - 1] + cs[n] BY <1>2, <1>3
  <2> HIDE DEF f
  <2>6. (g[n - 1] + us[n]) * p - (h[n - 1] + cs[n])
          = (g[n - 1] * p - h[n - 1]) + (us[n] * p - cs[n])
    <3> DEFINE a == g[n - 1]
               b == us[n]
               c == h[n - 1]
               d == cs[n]
    <3>1. a \in Int /\ b \in Int /\ c \in Int /\ d \in Int BY <2>4
    <3> HIDE DEF a, b, c, d
    <3>2. (a + b) * p - (c + d) = (a * p - c) + (b * p - d) BY <3>1, Distributes
    <3>. QED BY <3>2, Zenon DEF a, b, c, d
  <2>. QED BY <2>2, <2>3, <2>5, <2>6, Zenon
<1>6. f[L] = g[L] * p - h[L] BY <1>1
<1>7. Total(ws) = f[L]
  <2> HIDE DEF f
  <2>. QED BY <1>1, <1>4, <1>5, TotalIs
<1>. QED BY <1>6, <1>7, TotalIsSum DEF g, h

\* A sum of natural numbers is one, and no less than any of them.
LEMMA TotalNat ==
  ASSUME NEW values \in Seq(Nat)
  PROVE  /\ Total(values) \in Nat
         /\ \A i \in 1..Len(values) : values[i] <= Total(values)
<1> DEFINE L == Len(values)
           g == Sums(values)
           S == {n \in 0..L : g[n] \in Nat /\ \A i \in 1..n : values[i] <= g[n]}
<1>1. L \in Nat /\ L \in 0..L /\ values \in Seq(Int) /\ \A n \in 1..L : values[n] \in Nat OBVIOUS
<1>2. g[0] = 0 /\ \A n \in 1..L : g[n] = g[n - 1] + values[n] BY <1>1, SumsAre
<1> HIDE DEF g
<1>3. 0 \in S BY <1>1, <1>2
<1>4. ASSUME NEW n \in 1..L, n - 1 \in S PROVE n \in S
  <2>1. g[n - 1] \in Nat /\ values[n] \in Nat /\ g[n] = g[n - 1] + values[n] BY <1>1, <1>2, <1>4
  <2>2. ASSUME NEW i \in 1..n PROVE values[i] <= g[n]
    <3>1. CASE i = n BY <2>1, <3>1
    <3>2. CASE i # n
      <4>1. i \in 1..(n - 1) /\ values[i] \in Nat BY <1>1, <3>2
      <4>2. values[i] <= g[n - 1] BY <1>4, <4>1
      <4>. QED BY <2>1, <4>1, <4>2
    <3>. QED BY <3>1, <3>2
  <2>. QED BY <1>1, <2>1, <2>2
<1>5. L \in S
  <2> HIDE DEF S, L
  <2>1. \A n \in 0..L : n \in S BY <1>1, <1>3, <1>4, AllUpTo
  <2>. QED BY <1>1, <2>1
<1>. QED BY <1>5, TotalIsSum DEF g

-----------------------------------------------------------------------------
(***************************************************************************)
(* The ledger between two operations.  "now" is the last open it has seen: *)
(* the lots were opened by then, one after another, and what was sold last *)
(* does not come after, in the order of selling, any lot still held.       *)
(***************************************************************************)
Ledger ==
  [cash : Nat, lots : Seq(Lot), trades : Seq(Trade), realized : Int,
   bought : Nat, sold : Nat, invested : Nat,
   buy_fills : Nat, sell_fills : Nat, skipped_buys : Nat,
   buys_this_bar : Nat, sells_this_bar : Nat, last_sold : Int \cup {None},
   raised : {FALSE}]

\* What a lot stands in the books for.
CostOf(lot) == lot.entry_price * lot.qty + lot.fee_left + lot.slippage_left
Costs(lots) == [i \in DOMAIN lots |-> CostOf(lots[i])]
Qtys(lots) == [i \in DOMAIN lots |-> lots[i].qty]
Profits(trades) == [i \in DOMAIN trades |-> trades[i].pnl]

Adds(l) ==
  /\ l.cash + Total(Costs(l.lots)) = Capital + l.realized
  /\ Total(Qtys(l.lots)) = l.bought - l.sold
  /\ l.realized = Total(Profits(l.trades))

Queued(lots, now) ==
  /\ \A i \in 1..Len(lots) : lots[i].qty > 0 /\ lots[i].opened_at <= now
  /\ \A i, j \in 1..Len(lots) : i < j => lots[i].opened_at < lots[j].opened_at

\* No lot of the book is to be sold before the one sold last.
Behind(lots, last, now) ==
  last # None =>
    /\ last <= now
    /\ \A i \in 1..Len(lots) :
         IF LotOrder = "fifo" THEN last <= lots[i].opened_at ELSE lots[i].opened_at <= last

\* Only the end of the data closes at end_at.
Closes(at, kind) == at = EndAt <=> kind = "end_of_data"
Dated(trades) == \A i \in 1..Len(trades) : Closes(trades[i].closed_at, trades[i].kind)

Book(l, now) ==
  /\ l \in Ledger
  /\ Adds(l)
  /\ Queued(l.lots, now) /\ Behind(l.lots, l.last_sold, now)
  /\ Dated(l.trades)

\* One side a bar.
OneSide(l) == l.buys_this_bar = 0 \/ l.sells_this_bar = 0

-----------------------------------------------------------------------------
LEMMA Quotient == ASSUME NEW a \in Nat, NEW b \in Nat, b > 0 PROVE a \div b \in Nat
OBVIOUS

LEMMA ProductNat == ASSUME NEW a \in Nat, NEW b \in Nat PROVE a * b \in Nat
OBVIOUS

LEMMA ChargeNat ==
  ASSUME NEW amount \in Nat, NEW bps \in Nat PROVE Charge(amount, bps) \in Nat
<1> DEFINE x == 2 * amount
           y == x * bps
<1>1. x \in Nat OBVIOUS
<1> HIDE DEF x
<1>2. y \in Nat BY <1>1, ProductNat
<1> HIDE DEF y
<1>3. y + 10000 \in Nat /\ 20000 \in Nat /\ 20000 > 0 BY <1>2
<1>4. (y + 10000) \div 20000 \in Nat BY <1>3, Quotient
<1>. QED BY <1>4 DEF Charge, x, y

LEMMA CostInt == ASSUME NEW lot \in Lot PROVE CostOf(lot) \in Nat
<1>1. lot.entry_price * lot.qty \in Nat BY ProductNat DEF Lot
<1> DEFINE x == lot.entry_price * lot.qty
<1> HIDE DEF x
<1>2. x + lot.fee_left + lot.slippage_left \in Nat BY <1>1 DEF Lot, x
<1>. QED BY <1>2 DEF CostOf, x

LEMMA SumsOfLots ==
  ASSUME NEW lots \in Seq(Lot)
  PROVE  /\ Costs(lots) \in Seq(Nat) /\ Qtys(lots) \in Seq(Nat)
         /\ Costs(lots) \in Seq(Int) /\ Qtys(lots) \in Seq(Int)
         /\ Len(Costs(lots)) = Len(lots) /\ Len(Qtys(lots)) = Len(lots)
         /\ \A i \in 1..Len(lots) : /\ Costs(lots)[i] = CostOf(lots[i])
                                    /\ Qtys(lots)[i] = lots[i].qty
<1>1. DOMAIN lots = 1..Len(lots) /\ Len(lots) \in Nat /\ \A i \in 1..Len(lots) : lots[i] \in Lot
  OBVIOUS
<1>2. \A i \in 1..Len(lots) : CostOf(lots[i]) \in Nat /\ lots[i].qty \in Nat
  BY <1>1, CostInt DEF Lot
<1>3. Costs(lots) \in [1..Len(lots) -> Nat] /\ Qtys(lots) \in [1..Len(lots) -> Nat]
  BY <1>1, <1>2 DEF Costs, Qtys
<1>. QED BY <1>1, <1>3 DEF Costs, Qtys

LEMMA SumsOfTrades ==
  ASSUME NEW trades \in Seq(Trade)
  PROVE  /\ Profits(trades) \in Seq(Int) /\ Len(Profits(trades)) = Len(trades)
         /\ \A i \in 1..Len(trades) : Profits(trades)[i] = trades[i].pnl
<1>1. /\ DOMAIN trades = 1..Len(trades) /\ Len(trades) \in Nat
      /\ \A i \in 1..Len(trades) : trades[i] \in Trade
  OBVIOUS
<1>2. \A i \in 1..Len(trades) : trades[i].pnl \in Int BY <1>1 DEF Trade
<1>3. Profits(trades) \in [1..Len(trades) -> Int] BY <1>1, <1>2 DEF Profits
<1>. QED BY <1>1, <1>3 DEF Profits

LEMMA LotParameters ==
  ASSUME LotAssumption
  PROVE  /\ LotOrder = "fifo" \/ LotOrder = "lifo"
         /\ FeeBps \in Nat /\ SlippageBps \in Nat
         /\ Capital \in Nat /\ BuyNotional \in Nat /\ SellNotional \in Nat
BY DEF LotAssumption

LEMMA BookTypes ==
  ASSUME NEW l \in Ledger
  PROVE  /\ l.cash \in Nat /\ l.lots \in Seq(Lot) /\ l.trades \in Seq(Trade)
         /\ l.realized \in Int /\ l.bought \in Nat /\ l.sold \in Nat /\ l.invested \in Nat
         /\ l.buy_fills \in Nat /\ l.sell_fills \in Nat /\ l.skipped_buys \in Nat
         /\ l.buys_this_bar \in Nat /\ l.sells_this_bar \in Nat
         /\ l.last_sold \in Int \cup {None} /\ l.raised = FALSE
BY DEF Ledger

\* The two ways to the equity agree at every price, so that a check passes.
LEMMA ChecksPass ==
  ASSUME NEW l, NEW now \in Int, Book(l, now), OneSide(l), NEW price \in Nat, LotAssumption
  PROVE  Checked(l, price) = l
<1>1. /\ l \in Ledger /\ l.lots \in Seq(Lot) /\ l.cash \in Nat /\ l.realized \in Int
      /\ Capital \in Int /\ l.raised = FALSE
  <2>1. l \in Ledger BY DEF Book
  <2>2. l.lots \in Seq(Lot) /\ l.cash \in Nat /\ l.realized \in Int /\ l.raised = FALSE
    BY <2>1, BookTypes
  <2>3. Capital \in Int BY LotParameters
  <2>. QED BY <2>1, <2>2, <2>3
<1> DEFINE qs == Qtys(l.lots)
           cs == Costs(l.lots)
           us == [i \in DOMAIN l.lots |-> UnrealizedOf(l.lots[i], price)]
<1>2. qs \in Seq(Int) /\ cs \in Seq(Int) /\ Len(cs) = Len(qs) /\ Len(qs) = Len(l.lots)
  BY <1>1, SumsOfLots
<1>3. \A i \in 1..Len(l.lots) : us[i] = qs[i] * price - cs[i] /\ us[i] \in Int
  <2>1. ASSUME NEW i \in 1..Len(l.lots) PROVE us[i] = qs[i] * price - cs[i] /\ us[i] \in Int
    <3>1. /\ l.lots[i] \in Lot /\ i \in DOMAIN l.lots
          /\ qs[i] = l.lots[i].qty /\ cs[i] = CostOf(l.lots[i])
      BY <1>1, SumsOfLots
    <3>2. us[i] = UnrealizedOf(l.lots[i], price) BY <3>1
    <3> DEFINE q == l.lots[i].qty
               e == l.lots[i].entry_price
               f == l.lots[i].fee_left
               s == l.lots[i].slippage_left
    <3>3. q \in Nat /\ e \in Nat /\ f \in Nat /\ s \in Nat BY <3>1 DEF Lot
    <3>4. us[i] = (price - e) * q - f - s /\ qs[i] = q /\ cs[i] = e * q + f + s
      BY <3>1, <3>2 DEF UnrealizedOf, CostOf
    <3> HIDE DEF q, e, f, s, us, qs, cs
    <3>5. (price - e) * q = price * q - e * q /\ q * price = price * q BY <3>3
    <3> DEFINE x == price * q
               y == e * q
    <3>6. x \in Int /\ y \in Int BY <3>3, Product
    <3>7. us[i] = x - y - f - s /\ qs[i] * price = x /\ cs[i] = y + f + s BY <3>4, <3>5
    <3> HIDE DEF x, y
    <3>8. us[i] = qs[i] * price - cs[i] /\ us[i] \in Int BY <3>3, <3>6, <3>7
    <3>. QED BY <3>8
  <2>. QED BY <2>1
<1>4. us \in Seq(Int) /\ Len(us) = Len(qs)
  <2>1. DOMAIN l.lots = 1..Len(l.lots) /\ Len(l.lots) \in Nat BY <1>1
  <2> HIDE DEF qs, cs
  <2>2. us \in [1..Len(l.lots) -> Int] BY <1>3, <2>1
  <2>. QED BY <1>2, <2>1, <2>2
<1> HIDE DEF us, qs, cs
<1>5. Total(us) = Total(qs) * price - Total(cs) BY <1>2, <1>3, <1>4, TotalLinear
<1>6. Total(qs) \in Int /\ Total(cs) \in Int BY <1>2, TotalInt
<1>7. l.cash + Total(cs) = Capital + l.realized BY DEF Book, Adds, cs
<1> DEFINE x == Total(qs) * price
           c == Total(cs)
           u == Total(us)
<1>8. x \in Int /\ c \in Int BY <1>6, Product
<1>9. u = x - c /\ l.cash + c = Capital + l.realized BY <1>5, <1>7
<1> HIDE DEF x, c, u
<1>10. l.cash + x = Capital + l.realized + u BY <1>1, <1>8, <1>9
<1>11. EquityByCash(l, price) = EquityByPnl(l, price)
  BY <1>10 DEF EquityByCash, EquityByPnl, UnrealizedPnl, Holding, x, u, qs, us, Qtys
<1>12. Consistent(l, price)
  BY <1>1, <1>11 DEF Consistent, Book, Adds, OneSide, Holding, Qtys
<1>13. [l EXCEPT !.raised = FALSE] = l BY <1>1 DEF Ledger
<1>. QED BY <1>1, <1>12, <1>13 DEF Checked

-----------------------------------------------------------------------------
(***************************************************************************)
(* A portion of a lot.                                                     *)
(***************************************************************************)
LEMMA LesserOf ==
  ASSUME NEW a \in Nat, NEW b \in Nat
  PROVE  Lesser(a, b) \in Nat /\ Lesser(a, b) <= a /\ Lesser(a, b) <= b
BY DEF Lesser

LEMMA ShareOf ==
  ASSUME NEW lot \in Lot, NEW qty \in 1..lot.qty, NEW left \in Nat, NEW bps \in Nat
  PROVE  /\ EntryShare(lot, qty, left, bps) \in 0..left
         /\ qty = lot.qty => EntryShare(lot, qty, left, bps) = left
<1>1. lot.entry_price * qty \in Nat BY ProductNat DEF Lot
<1>2. Charge(lot.entry_price * qty, bps) \in Nat BY <1>1, ChargeNat
<1>3. /\ Lesser(Charge(lot.entry_price * qty, bps), left) \in Nat
      /\ Lesser(Charge(lot.entry_price * qty, bps), left) <= left
  BY <1>2, LesserOf
<1>4. Lesser(Charge(lot.entry_price * qty, bps), left) \in 0..left BY <1>3
<1>5. left \in 0..left OBVIOUS
<1>. QED BY <1>4, <1>5 DEF EntryShare

LEMMA ExitCharges ==
  ASSUME LotAssumption, NEW gross \in Nat
  PROVE  /\ ExitFee(gross) \in Nat /\ ExitSlippage(gross) \in Nat
         /\ ExitFee(gross) + ExitSlippage(gross) <= gross
<1>1. Charge(gross, FeeBps) \in Nat /\ Charge(gross, SlippageBps) \in Nat
  BY LotParameters, ChargeNat
<1>2. ExitFee(gross) \in Nat /\ ExitFee(gross) <= gross BY <1>1, LesserOf DEF ExitFee
<1>3. gross - ExitFee(gross) \in Nat BY <1>2
<1>4. ExitSlippage(gross) \in Nat /\ ExitSlippage(gross) <= gross - ExitFee(gross)
  BY <1>1, <1>3, LesserOf DEF ExitSlippage
<1>. QED BY <1>2, <1>4

\* What _close_portion does with a portion, given its charges.
Traded(lot, qty, at, price, kind, entryFee, entrySlippage, exitFee, exitSlippage) ==
  [opened_at |-> lot.opened_at, closed_at |-> at, qty |-> qty,
   entry_price |-> lot.entry_price, exit_price |-> price,
   fee |-> entryFee + exitFee, slippage |-> entrySlippage + exitSlippage,
   pnl |-> (price - lot.entry_price) * qty - (entryFee + exitFee)
             - (entrySlippage + exitSlippage),
   kind |-> kind]

Remaining(lot, qty, entryFee, entrySlippage) ==
  [lot EXCEPT !.qty = @ - qty, !.fee_left = @ - entryFee, !.slippage_left = @ - entrySlippage]

Portion(l, lot, qty, at, price, kind, ef, es, xf, xs) ==
  LET trade == Traded(lot, qty, at, price, kind, ef, es, xf, xs)
  IN [ledger |-> [l EXCEPT !.cash = l.cash + price * qty - xf - xs,
                           !.realized = l.realized + trade.pnl,
                           !.sold = l.sold + qty,
                           !.last_sold = lot.opened_at,
                           !.raised = l.raised \/ OutOfOrder(l.last_sold, lot),
                           !.trades = Append(l.trades, trade)],
      rest |-> Remaining(lot, qty, ef, es)]

PortionsTo(l, lot, qty, at, price, kind) ==
  \E ef \in 0..lot.fee_left, es \in 0..lot.slippage_left, xf \in Nat, xs \in Nat :
     /\ xf + xs <= price * qty
     /\ qty = lot.qty => ef = lot.fee_left /\ es = lot.slippage_left
     /\ ClosePortion(l, lot, qty, at, price, kind)
          = Portion(l, lot, qty, at, price, kind, ef, es, xf, xs)

LEMMA PortionIs ==
  ASSUME LotAssumption, NEW l \in Ledger, NEW lot \in Lot, NEW qty \in 1..lot.qty,
         NEW at \in Int, NEW price \in Nat, NEW kind \in TradeKinds
  PROVE  PortionsTo(l, lot, qty, at, price, kind)
<1> DEFINE ef == EntryShare(lot, qty, lot.fee_left, FeeBps)
           es == EntryShare(lot, qty, lot.slippage_left, SlippageBps)
           gross == price * qty
           xf == ExitFee(gross)
           xs == ExitSlippage(gross)
<1>1. /\ ef \in 0..lot.fee_left /\ es \in 0..lot.slippage_left
      /\ qty = lot.qty => ef = lot.fee_left /\ es = lot.slippage_left
  <2>1. lot.fee_left \in Nat /\ lot.slippage_left \in Nat /\ FeeBps \in Nat /\ SlippageBps \in Nat
    BY LotParameters DEF Lot
  <2>2. ASSUME NEW left \in Nat, NEW bps \in Nat
        PROVE  /\ EntryShare(lot, qty, left, bps) \in 0..left
               /\ qty = lot.qty => EntryShare(lot, qty, left, bps) = left
    BY ShareOf
  <2>3. /\ ef \in 0..lot.fee_left /\ (qty = lot.qty => ef = lot.fee_left)
        /\ es \in 0..lot.slippage_left /\ (qty = lot.qty => es = lot.slippage_left)
    BY <2>1, <2>2
  <2> HIDE DEF ef, es
  <2>. QED BY <2>3
<1>2. gross \in Nat
  <2>1. qty \in Nat BY DEF Lot
  <2>. QED BY <2>1, ProductNat
<1>3. xf \in Nat /\ xs \in Nat /\ xf + xs <= gross BY <1>2, ExitCharges
<1>4. ClosePortion(l, lot, qty, at, price, kind)
        = Portion(l, lot, qty, at, price, kind, ef, es, xf, xs)
  BY DEF ClosePortion, Portion, Traded, Remaining, Ledger
<1> HIDE DEF ef, es, xf, xs
<1>. QED BY <1>1, <1>3, <1>4 DEF PortionsTo

\* The place of the lot that is sold next.
LEMMA HeadIs ==
  ASSUME LotAssumption, NEW lots \in Seq(Lot), lots # <<>>
  PROVE  /\ HeadAt(lots) \in 1..Len(lots) /\ lots[HeadAt(lots)] \in Lot
         /\ LotOrder = "fifo" => HeadAt(lots) = 1
         /\ LotOrder # "fifo" => HeadAt(lots) = Len(lots)
<1>1. Len(lots) \in Nat /\ Len(lots) # 0 OBVIOUS
<1>2. HeadAt(lots) \in 1..Len(lots) BY <1>1 DEF HeadAt
<1>. QED BY <1>2 DEF HeadAt

LEMMA RemovedAt ==
  ASSUME NEW S, NEW s \in Seq(S), NEW i \in 1..Len(s)
  PROVE  /\ RemoveAt(s, i) \in Seq(S) /\ Len(RemoveAt(s, i)) = Len(s) - 1
         /\ \A n \in 1..(Len(s) - 1) : RemoveAt(s, i)[n] = IF n < i THEN s[n] ELSE s[n + 1]
<1> DEFINE a == SubSeq(s, 1, i - 1)
           b == SubSeq(s, i + 1, Len(s))
<1>1. Len(s) \in Nat /\ i \in Nat OBVIOUS
<1>2. a \in Seq(S) /\ Len(a) = i - 1 /\ \A n \in 1..(i - 1) : a[n] = s[n] BY <1>1
<1>3. b \in Seq(S) /\ Len(b) = Len(s) - i /\ \A n \in 1..(Len(s) - i) : b[n] = s[i + n] BY <1>1
<1> HIDE DEF a, b
<1>4. a \o b \in Seq(S) /\ Len(a \o b) = Len(s) - 1
  <2>1. a \o b \in Seq(S) BY <1>2, <1>3
  <2>2. Len(a \o b) = Len(a) + Len(b) BY <1>2, <1>3, ConcatProperties
  <2>. QED BY <1>1, <1>2, <1>3, <2>1, <2>2
<1>5. ASSUME NEW n \in 1..(Len(s) - 1) PROVE (a \o b)[n] = IF n < i THEN s[n] ELSE s[n + 1]
  <2>1. CASE n < i
    <3>1. (a \o b)[n] = a[n] BY <1>1, <1>2, <1>3, <2>1
    <3>. QED BY <1>1, <1>2, <2>1, <3>1
  <2>2. CASE ~(n < i)
    <3>1. (a \o b)[n] = b[n - (i - 1)] BY <1>1, <1>2, <1>3, <2>2
    <3>2. n - (i - 1) \in 1..(Len(s) - i) /\ i + (n - (i - 1)) = n + 1 BY <1>1, <2>2
    <3>. QED BY <1>3, <2>2, <3>1, <3>2
  <2>. QED BY <2>1, <2>2
<1>. QED BY <1>4, <1>5 DEF RemoveAt, a, b

\* The accounts of one portion: what the cash gains is what the profit and
\* the cost of the lot account for.
LEMMA PortionBalances ==
  ASSUME NEW price \in Int, NEW e \in Int, NEW qty \in Int, NEW q \in Int,
         NEW f \in Int, NEW s \in Int, NEW ef \in Int, NEW es \in Int, NEW xf \in Int, NEW xs \in Int,
         NEW cash \in Int, NEW realized \in Int, NEW costs \in Int, cash + costs = Capital + realized,
         Capital \in Int
  PROVE  (cash + price * qty - xf - xs)
           + (costs - (e * q + f + s) + (e * (q - qty) + (f - ef) + (s - es)))
         = Capital + (realized + ((price - e) * qty - (ef + xf) - (es + xs)))
<1> DEFINE x == price * qty
           y == e * qty
           z == e * q
<1>1. x \in Int /\ y \in Int /\ z \in Int BY Product
<1>2. (price - e) * qty = x - y /\ e * (q - qty) = z - y OBVIOUS
<1> HIDE DEF x, y, z
<1>3. (cash + x - xf - xs) + (costs - (z + f + s) + ((z - y) + (f - ef) + (s - es)))
        = Capital + (realized + ((x - y) - (ef + xf) - (es + xs)))
  BY <1>1
<1>. QED BY <1>2, <1>3 DEF x, z
\* The rows the sale of a portion leaves.
SoldRows(lots, qty, rest) ==
  IF qty = lots[HeadAt(lots)].qty THEN RemoveAt(lots, HeadAt(lots))
  ELSE [lots EXCEPT ![HeadAt(lots)] = rest]

LEMMA RestIs ==
  ASSUME NEW lot \in Lot, NEW qty \in 1..lot.qty, NEW ef \in 0..lot.fee_left,
         NEW es \in 0..lot.slippage_left
  PROVE  LET rest == Remaining(lot, qty, ef, es)
         IN /\ rest \in Lot
            /\ rest.opened_at = lot.opened_at /\ rest.entry_price = lot.entry_price
            /\ rest.qty = lot.qty - qty /\ rest.fee_left = lot.fee_left - ef
            /\ rest.slippage_left = lot.slippage_left - es
<1>1. /\ lot.qty \in Nat /\ lot.fee_left \in Nat /\ lot.slippage_left \in Nat
      /\ lot.opened_at \in Int /\ lot.entry_price \in Nat
  BY DEF Lot
<1>2. lot.qty - qty \in Nat /\ lot.fee_left - ef \in Nat /\ lot.slippage_left - es \in Nat BY <1>1
<1>. QED BY <1>1, <1>2 DEF Remaining, Lot

LEMMA RowsAdd ==
  ASSUME LotAssumption, NEW lots \in Seq(Lot), lots # <<>>,
         NEW qty \in 1..lots[HeadAt(lots)].qty,
         NEW ef \in 0..lots[HeadAt(lots)].fee_left,
         NEW es \in 0..lots[HeadAt(lots)].slippage_left,
         qty = lots[HeadAt(lots)].qty => ef = lots[HeadAt(lots)].fee_left
                                         /\ es = lots[HeadAt(lots)].slippage_left
  PROVE  LET lot == lots[HeadAt(lots)]
             rest == Remaining(lot, qty, ef, es)
             rows == SoldRows(lots, qty, rest)
         IN /\ rows \in Seq(Lot)
            /\ Total(Costs(rows)) = Total(Costs(lots)) - CostOf(lot) + CostOf(rest)
            /\ Total(Qtys(rows)) = Total(Qtys(lots)) - qty
            /\ qty = lot.qty => Len(rows) = Len(lots) - 1
<1> DEFINE h == HeadAt(lots)
           lot == lots[h]
           rest == Remaining(lot, qty, ef, es)
           rows == SoldRows(lots, qty, rest)
<1>1. h \in 1..Len(lots) /\ lot \in Lot /\ Len(lots) \in Nat BY HeadIs
<1>2. /\ rest \in Lot /\ rest.qty = lot.qty - qty
      /\ rest.entry_price = lot.entry_price /\ rest.fee_left = lot.fee_left - ef
      /\ rest.slippage_left = lot.slippage_left - es
  BY <1>1, RestIs
<1>3. /\ Costs(lots) \in Seq(Int) /\ Qtys(lots) \in Seq(Int)
      /\ Len(Costs(lots)) = Len(lots) /\ Len(Qtys(lots)) = Len(lots)
      /\ \A i \in 1..Len(lots) : Costs(lots)[i] = CostOf(lots[i]) /\ Qtys(lots)[i] = lots[i].qty
  BY SumsOfLots
<1>4. Total(Costs(lots)) \in Int /\ Total(Qtys(lots)) \in Int BY <1>3, TotalInt
<1>5. CostOf(lot) \in Nat /\ CostOf(rest) \in Nat BY <1>1, <1>2, CostInt
<1>6. lot.qty \in Nat /\ qty \in Nat
  <2>1. qty \in 1..lot.qty OBVIOUS
  <2> HIDE DEF lot
  <2>2. lot.qty \in Nat BY <1>1 DEF Lot
  <2>. QED BY <2>1, <2>2
<1>7. CASE qty = lot.qty
  <2>1. rows = RemoveAt(lots, h) BY <1>7 DEF SoldRows
  <2>2. /\ rows \in Seq(Lot) /\ Len(rows) = Len(lots) - 1
        /\ \A n \in 1..(Len(lots) - 1) : rows[n] = IF n < h THEN lots[n] ELSE lots[n + 1]
    <3> HIDE DEF h
    <3>. QED BY <1>1, <2>1, RemovedAt
  <2> HIDE DEF rows, lot, rest
  <2>3. /\ Costs(rows) \in Seq(Int) /\ Qtys(rows) \in Seq(Int)
        /\ Len(Costs(rows)) = Len(rows) /\ Len(Qtys(rows)) = Len(rows)
        /\ \A i \in 1..Len(rows) : Costs(rows)[i] = CostOf(rows[i]) /\ Qtys(rows)[i] = rows[i].qty
    BY <2>2, SumsOfLots
  <2>4. \A n \in 1..Len(rows) :
          /\ Costs(rows)[n] = IF n < h THEN Costs(lots)[n] ELSE Costs(lots)[n + 1]
          /\ Qtys(rows)[n] = IF n < h THEN Qtys(lots)[n] ELSE Qtys(lots)[n + 1]
    <3> HIDE DEF h
    <3>1. ASSUME NEW n \in 1..Len(rows)
          PROVE  /\ Costs(rows)[n] = IF n < h THEN Costs(lots)[n] ELSE Costs(lots)[n + 1]
                 /\ Qtys(rows)[n] = IF n < h THEN Qtys(lots)[n] ELSE Qtys(lots)[n + 1]
      <4>1. n \in 1..Len(lots) /\ n + 1 \in 1..Len(lots) /\ n \in 1..(Len(lots) - 1)
        BY <1>1, <2>2
      <4>2. /\ Costs(lots)[n] = CostOf(lots[n]) /\ Costs(lots)[n + 1] = CostOf(lots[n + 1])
            /\ Qtys(lots)[n] = lots[n].qty /\ Qtys(lots)[n + 1] = lots[n + 1].qty
        BY <1>3, <4>1
      <4>3. Costs(rows)[n] = CostOf(rows[n]) /\ Qtys(rows)[n] = rows[n].qty BY <2>3
      <4>4. rows[n] = IF n < h THEN lots[n] ELSE lots[n + 1] BY <2>2, <4>1
      <4>5. CASE n < h BY <4>2, <4>3, <4>4, <4>5
      <4>6. CASE ~(n < h) BY <4>2, <4>3, <4>4, <4>6
      <4>. QED BY <4>5, <4>6
    <3>. QED BY <3>1
  <2>5. Total(Costs(rows)) = Total(Costs(lots)) - Costs(lots)[h]
    <3> DEFINE vs == Costs(lots)
               rs == Costs(rows)
    <3>1. vs \in Seq(Int) /\ rs \in Seq(Int) /\ Len(rs) = Len(vs) - 1 /\ h \in 1..Len(vs)
      BY <1>1, <1>3, <2>2, <2>3
    <3>2. \A n \in 1..Len(rs) : rs[n] = IF n < h THEN vs[n] ELSE vs[n + 1] BY <2>3, <2>4
    <3> HIDE DEF h, vs, rs
    <3>3. Total(rs) = Total(vs) - vs[h] BY <3>1, <3>2, TotalRemove
    <3>. QED BY <3>3 DEF vs, rs
  <2>6. Total(Qtys(rows)) = Total(Qtys(lots)) - Qtys(lots)[h]
    <3> DEFINE vs == Qtys(lots)
               rs == Qtys(rows)
    <3>1. vs \in Seq(Int) /\ rs \in Seq(Int) /\ Len(rs) = Len(vs) - 1 /\ h \in 1..Len(vs)
      BY <1>1, <1>3, <2>2, <2>3
    <3>2. \A n \in 1..Len(rs) : rs[n] = IF n < h THEN vs[n] ELSE vs[n + 1] BY <2>3, <2>4
    <3> HIDE DEF h, vs, rs
    <3>3. Total(rs) = Total(vs) - vs[h] BY <3>1, <3>2, TotalRemove
    <3>. QED BY <3>3 DEF vs, rs
  <2>7. Costs(lots)[h] = CostOf(lot) /\ Qtys(lots)[h] = qty BY <1>1, <1>3, <1>7 DEF lot
  <2>8. CostOf(rest) = 0
    <3>1. rest.qty = 0 /\ rest.fee_left = 0 /\ rest.slippage_left = 0
      <4>1. ef = lot.fee_left /\ es = lot.slippage_left BY <1>7 DEF lot
      <4>2. lot.fee_left \in Nat /\ lot.slippage_left \in Nat BY <1>1 DEF Lot
      <4>. QED BY <1>2, <1>6, <1>7, <4>1, <4>2
    <3>2. rest.entry_price \in Nat BY <1>2 DEF Lot
    <3>3. rest.entry_price * 0 = 0 BY <3>2
    <3>. QED BY <3>1, <3>3 DEF CostOf
  <2>9. Total(Costs(rows)) = Total(Costs(lots)) - CostOf(lot) + CostOf(rest)
    BY <1>4, <1>5, <2>5, <2>7, <2>8
  <2>10. Total(Qtys(rows)) = Total(Qtys(lots)) - qty BY <2>6, <2>7
  <2>. QED BY <2>2, <2>9, <2>10 DEF rows, rest, lot
<1>8. CASE qty # lot.qty
  <2>1. rows = [lots EXCEPT ![h] = rest] BY <1>8 DEF SoldRows
  <2> HIDE DEF rows, lot, rest
  <2>2. /\ rows \in Seq(Lot) /\ Len(rows) = Len(lots) /\ rows[h] = rest
        /\ \A n \in 1..Len(lots) : n # h => rows[n] = lots[n]
    <3> HIDE DEF h
    <3>. QED BY <1>1, <1>2, <2>1
  <2>3. /\ Costs(rows) \in Seq(Int) /\ Qtys(rows) \in Seq(Int)
        /\ Len(Costs(rows)) = Len(rows) /\ Len(Qtys(rows)) = Len(rows)
        /\ \A i \in 1..Len(rows) : Costs(rows)[i] = CostOf(rows[i]) /\ Qtys(rows)[i] = rows[i].qty
    BY <2>2, SumsOfLots
  <2>4. \A n \in 1..Len(lots) : n # h => /\ Costs(rows)[n] = Costs(lots)[n]
                                         /\ Qtys(rows)[n] = Qtys(lots)[n]
    <3> HIDE DEF h
    <3>. QED BY <1>3, <2>2, <2>3
  <2>5. Total(Costs(rows)) = Total(Costs(lots)) - Costs(lots)[h] + Costs(rows)[h]
    <3> HIDE DEF h
    <3>. QED BY <1>1, <1>3, <2>2, <2>3, <2>4, TotalReplace
  <2>6. Total(Qtys(rows)) = Total(Qtys(lots)) - Qtys(lots)[h] + Qtys(rows)[h]
    <3> HIDE DEF h
    <3>. QED BY <1>1, <1>3, <2>2, <2>3, <2>4, TotalReplace
  <2>7. /\ Costs(lots)[h] = CostOf(lot) /\ Qtys(lots)[h] = lot.qty
        /\ Costs(rows)[h] = CostOf(rest) /\ Qtys(rows)[h] = lot.qty - qty
    BY <1>1, <1>2, <1>3, <2>2, <2>3 DEF lot
  <2>8. Total(Qtys(rows)) = Total(Qtys(lots)) - qty BY <1>4, <1>6, <2>6, <2>7
  <2>. QED BY <1>8, <2>2, <2>5, <2>7, <2>8 DEF rows, rest, lot
<1>. QED BY <1>7, <1>8

\* A sold portion leaves the queue in order, and nothing before it.
LEMMA RowsQueue ==
  ASSUME LotAssumption, NEW lots \in Seq(Lot), lots # <<>>, NEW now \in Int, Queued(lots, now),
         NEW qty \in 1..lots[HeadAt(lots)].qty, NEW rest \in Lot,
         rest.opened_at = lots[HeadAt(lots)].opened_at,
         qty # lots[HeadAt(lots)].qty => rest.qty > 0
  PROVE  /\ Queued(SoldRows(lots, qty, rest), now)
         /\ Behind(SoldRows(lots, qty, rest), lots[HeadAt(lots)].opened_at, now)
<1> DEFINE h == HeadAt(lots)
           lot == lots[h]
           rows == SoldRows(lots, qty, rest)
<1>1. /\ h \in 1..Len(lots) /\ lot \in Lot /\ Len(lots) \in Nat
      /\ LotOrder = "fifo" => h = 1
      /\ LotOrder # "fifo" => h = Len(lots)
  BY HeadIs
<1>2. \A i \in 1..Len(lots) : /\ lots[i].opened_at \in Int /\ lots[i].qty > 0
                              /\ lots[i].opened_at <= now
  <2>1. \A i \in 1..Len(lots) : lots[i] \in Lot OBVIOUS
  <2>2. \A i \in 1..Len(lots) : lots[i].opened_at \in Int BY <2>1 DEF Lot
  <2>. QED BY <2>2 DEF Queued
<1>3. \A i, j \in 1..Len(lots) : i < j => lots[i].opened_at < lots[j].opened_at BY DEF Queued
<1>4. \A i \in 1..Len(lots) :
        IF LotOrder = "fifo" THEN lot.opened_at <= lots[i].opened_at
        ELSE lots[i].opened_at <= lot.opened_at
  BY <1>1, <1>2, <1>3
<1>5. CASE qty = lot.qty
  <2>1. rows = RemoveAt(lots, h) BY <1>5 DEF SoldRows
  <2>2. /\ rows \in Seq(Lot) /\ Len(rows) = Len(lots) - 1
        /\ \A n \in 1..(Len(lots) - 1) : rows[n] = IF n < h THEN lots[n] ELSE lots[n + 1]
    <3> HIDE DEF h
    <3>. QED BY <1>1, <2>1, RemovedAt
  <2> HIDE DEF rows
  <2> DEFINE place(n) == IF n < h THEN n ELSE n + 1
  <2>3. ASSUME NEW n \in 1..Len(rows)
        PROVE  place(n) \in 1..Len(lots) /\ rows[n] = lots[place(n)]
    BY <1>1, <2>2
  <2>4. ASSUME NEW i \in 1..Len(rows), NEW j \in 1..Len(rows), i < j PROVE place(i) < place(j)
    BY <1>1, <2>2, <2>4
  <2> HIDE DEF place
  <2>5. Queued(rows, now)
    <3>1. \A i \in 1..Len(rows) : rows[i].qty > 0 /\ rows[i].opened_at <= now BY <1>2, <2>3
    <3>2. \A i, j \in 1..Len(rows) : i < j => rows[i].opened_at < rows[j].opened_at
      BY <1>3, <2>3, <2>4
    <3>. QED BY <3>1, <3>2 DEF Queued
  <2>6. Behind(rows, lot.opened_at, now)
    <3> HIDE DEF lot
    <3>1. lot.opened_at <= now BY <1>1, <1>2 DEF lot
    <3>2. \A i \in 1..Len(rows) :
            IF LotOrder = "fifo" THEN lot.opened_at <= rows[i].opened_at
            ELSE rows[i].opened_at <= lot.opened_at
      BY <1>4, <2>3
    <3>. QED BY <3>1, <3>2 DEF Behind
  <2>. QED BY <2>5, <2>6 DEF rows
<1>6. CASE qty # lot.qty
  <2>1. rows = [lots EXCEPT ![h] = rest] BY <1>6 DEF SoldRows
  <2> HIDE DEF rows
  <2>2. Len(rows) = Len(lots) /\ \A n \in 1..Len(lots) : rows[n] = IF n = h THEN rest ELSE lots[n]
    <3> HIDE DEF h
    <3>. QED BY <1>1, <2>1
  <2>3. \A n \in 1..Len(lots) : rows[n].opened_at = lots[n].opened_at /\ rows[n].qty > 0
    <3>1. ASSUME NEW n \in 1..Len(lots)
          PROVE  rows[n].opened_at = lots[n].opened_at /\ rows[n].qty > 0
      <4>1. CASE n = h BY <1>6, <2>2, <4>1
      <4>2. CASE n # h BY <1>2, <2>2, <4>2
      <4>. QED BY <4>1, <4>2
    <3>. QED BY <3>1
  <2>4. Queued(rows, now) BY <1>2, <1>3, <2>2, <2>3 DEF Queued
  <2>5. Behind(rows, lot.opened_at, now)
    <3>1. lot.opened_at <= now BY <1>1, <1>2
    <3> HIDE DEF lot
    <3>. QED BY <1>4, <2>2, <2>3, <3>1 DEF Behind
  <2>. QED BY <2>4, <2>5 DEF rows
<1>. QED BY <1>5, <1>6
\* Holding is the sum of the quantities.
LEMMA HoldingIs ==
  ASSUME NEW l \in Ledger
  PROVE  /\ Holding(l) = Total(Qtys(l.lots)) /\ Holding(l) \in Nat
         /\ \A i \in 1..Len(l.lots) : l.lots[i].qty <= Holding(l)
         /\ l.lots = <<>> => Holding(l) = 0
<1>1. l.lots \in Seq(Lot) BY BookTypes
<1>2. /\ Qtys(l.lots) \in Seq(Nat) /\ Len(Qtys(l.lots)) = Len(l.lots)
      /\ \A i \in 1..Len(l.lots) : Qtys(l.lots)[i] = l.lots[i].qty
  BY <1>1, SumsOfLots
<1>3. Holding(l) = Total(Qtys(l.lots)) BY DEF Holding, Qtys
<1>4. /\ Total(Qtys(l.lots)) \in Nat
      /\ \A i \in 1..Len(Qtys(l.lots)) : Qtys(l.lots)[i] <= Total(Qtys(l.lots))
  BY <1>2, TotalNat
<1>5. ASSUME l.lots = <<>> PROVE Holding(l) = 0
  <2>1. Qtys(<<>>) = <<>> BY DEF Qtys
  <2>. QED BY <1>3, <1>5, <2>1, TotalEmpty
<1>. QED BY <1>2, <1>3, <1>4, <1>5

\* A quantity of the head lot.
OfHead(l, qty) == l.lots # <<>> /\ qty \in 1..l.lots[HeadAt(l.lots)].qty

\* Selling a portion of the head lot keeps the books, and raises nothing.
LEMMA PortionSold ==
  ASSUME LotAssumption, NEW now \in Int, NEW l, Book(l, now),
         NEW qty \in Nat, OfHead(l, qty), NEW at \in Int, NEW price \in Nat,
         NEW kind \in TradeKinds, Closes(at, kind)
  PROVE  LET m == SellPortion(l, qty, at, price, kind)
         IN /\ Book(m, now)
            /\ m.buys_this_bar = l.buys_this_bar /\ m.sells_this_bar = l.sells_this_bar
            /\ Holding(m) = Holding(l) - qty
            /\ qty = l.lots[HeadAt(l.lots)].qty => Len(m.lots) = Len(l.lots) - 1
<1> DEFINE lots == l.lots
           h == HeadAt(lots)
           lot == lots[h]
           m == SellPortion(l, qty, at, price, kind)
<1>1. /\ l \in Ledger /\ Adds(l) /\ Queued(lots, now) /\ Behind(lots, l.last_sold, now)
      /\ Dated(l.trades)
  BY DEF Book
<1>2. /\ l.cash \in Nat /\ lots \in Seq(Lot) /\ l.trades \in Seq(Trade) /\ l.realized \in Int
      /\ l.bought \in Nat /\ l.sold \in Nat /\ l.raised = FALSE
      /\ l.last_sold \in Int \cup {None}
  BY <1>1, BookTypes
<1>n. l.cash \in Int /\ l.realized \in Int /\ l.bought \in Int /\ l.sold \in Nat /\ l.cash >= 0
  BY <1>2
<1>3. /\ h \in 1..Len(lots) /\ lot \in Lot
      /\ LotOrder = "fifo" => h = 1
      /\ LotOrder # "fifo" => h = Len(lots)
  BY <1>2, HeadIs DEF OfHead
<1>4. /\ lot.qty \in Nat /\ lot.fee_left \in Nat /\ lot.slippage_left \in Nat
      /\ lot.opened_at \in Int /\ lot.entry_price \in Nat /\ qty \in Nat /\ qty \in 1..lot.qty
  BY <1>3 DEF Lot, OfHead
<1> HIDE DEF lot
<1>5. PICK ef \in 0..lot.fee_left, es \in 0..lot.slippage_left, xf \in Nat, xs \in Nat :
        /\ xf + xs <= price * qty
        /\ qty = lot.qty => ef = lot.fee_left /\ es = lot.slippage_left
        /\ ClosePortion(l, lot, qty, at, price, kind)
             = Portion(l, lot, qty, at, price, kind, ef, es, xf, xs)
  <2>1. PortionsTo(l, lot, qty, at, price, kind) BY <1>1, <1>3, <1>4, PortionIs
  <2>. QED BY <2>1 DEF PortionsTo
<1> DEFINE trade == Traded(lot, qty, at, price, kind, ef, es, xf, xs)
           rest == Remaining(lot, qty, ef, es)
           rows == SoldRows(lots, qty, rest)
           pnl == (price - lot.entry_price) * qty - (ef + xf) - (es + xs)
           cash == l.cash + price * qty - xf - xs
<1>6. ~OutOfOrder(l.last_sold, lot)
  <2>1. CASE l.last_sold = None BY <2>1 DEF OutOfOrder
  <2>2. CASE l.last_sold # None
    <3>1. l.last_sold \in Int BY <1>2, <2>2
    <3>2. IF LotOrder = "fifo" THEN l.last_sold <= lot.opened_at
          ELSE lot.opened_at <= l.last_sold
      BY <1>1, <1>3, <2>2 DEF Behind, lot
    <3>3. LotOrder = "fifo" \/ LotOrder = "lifo" BY LotParameters
    <3>4. LotOrder = "fifo" => ~(LotOrder = "lifo") OBVIOUS
    <3>. QED BY <1>4, <3>1, <3>2, <3>3, <3>4 DEF OutOfOrder
  <2>. QED BY <2>1, <2>2
<1>7. /\ pnl \in Int /\ cash \in Nat
  <2>1. (price - lot.entry_price) * qty \in Int
    <3>1. price - lot.entry_price \in Int BY <1>4
    <3>. QED BY <1>4, <3>1, Product
  <2> DEFINE x == (price - lot.entry_price) * qty
             g == price * qty
  <2>2. g \in Nat BY <1>4, ProductNat
  <2>3. ef \in Int /\ es \in Int BY <1>4
  <2> HIDE DEF x, g
  <2>4. x - (ef + xf) - (es + xs) \in Int BY <2>1, <2>3 DEF x
  <2>5. xf + xs <= g BY <1>5 DEF g
  <2>6. l.cash + g - xf - xs \in Nat BY <1>n, <2>2, <2>5
  <2>. QED BY <2>4, <2>6 DEF x, g
<1>8. trade.pnl = pnl BY DEF Traded
<1>9. trade \in Trade
  <2>1. ef + xf \in Nat /\ es + xs \in Nat BY <1>4
  <2> HIDE DEF pnl
  <2>2. [opened_at |-> lot.opened_at, closed_at |-> at, qty |-> qty,
         entry_price |-> lot.entry_price, exit_price |-> price,
         fee |-> ef + xf, slippage |-> es + xs, pnl |-> pnl, kind |-> kind] \in Trade
    BY <1>4, <1>7, <2>1 DEF Trade
  <2>. QED BY <2>2 DEF Traded, pnl
<1>10. m = [l EXCEPT !.cash = cash, !.realized = l.realized + pnl, !.sold = l.sold + qty,
                     !.last_sold = lot.opened_at, !.raised = FALSE,
                     !.trades = Append(l.trades, trade), !.lots = rows]
  <2> DEFINE closed == ClosePortion(l, lot, qty, at, price, kind)
  <2>1. /\ closed.rest = rest
        /\ closed.ledger = [l EXCEPT !.cash = cash, !.realized = l.realized + pnl,
                                     !.sold = l.sold + qty,
                                     !.last_sold = lot.opened_at, !.raised = FALSE,
                                     !.trades = Append(l.trades, trade)]
    <3> DEFINE raises == l.raised \/ OutOfOrder(l.last_sold, lot)
               gain == trade.pnl
    <3>1. closed = Portion(l, lot, qty, at, price, kind, ef, es, xf, xs) BY <1>5
    <3>2. Portion(l, lot, qty, at, price, kind, ef, es, xf, xs)
            = [ledger |-> [l EXCEPT !.cash = cash, !.realized = l.realized + gain,
                                    !.sold = l.sold + qty, !.last_sold = lot.opened_at,
                                    !.raised = raises, !.trades = Append(l.trades, trade)],
               rest |-> rest]
      BY Zenon DEF Portion
    <3>3. raises = FALSE BY <1>2, <1>6
    <3>4. gain = pnl BY <1>8
    <3> HIDE DEF raises, gain, trade, rest, cash, pnl, closed
    <3> DEFINE after == [l EXCEPT !.cash = cash, !.realized = l.realized + pnl,
                                  !.sold = l.sold + qty, !.last_sold = lot.opened_at,
                                  !.raised = FALSE, !.trades = Append(l.trades, trade)]
    <3>5. closed = [ledger |-> after, rest |-> rest] BY <3>1, <3>2, <3>3, <3>4, Zenon
    <3> HIDE DEF after
    <3>6. closed.ledger = after /\ closed.rest = rest BY <3>5
    <3>. QED BY <3>6 DEF after
  <2>2. m = [closed.ledger EXCEPT !.lots = rows] BY <2>1 DEF SellPortion, SoldRows, lot
  <2> HIDE DEF closed, m, rows, trade, pnl, cash
  <2>. QED BY <1>1, <2>1, <2>2 DEF Ledger
<1>11. /\ rows \in Seq(Lot)
       /\ Total(Costs(rows)) = Total(Costs(lots)) - CostOf(lot) + CostOf(rest)
       /\ Total(Qtys(rows)) = Total(Qtys(lots)) - qty
       /\ qty = lot.qty => Len(rows) = Len(lots) - 1
  BY <1>2, <1>4, <1>5, RowsAdd DEF lot, OfHead
<1>12. /\ rest \in Lot /\ rest.opened_at = lot.opened_at
       /\ rest.qty = lot.qty - qty /\ rest.entry_price = lot.entry_price
       /\ rest.fee_left = lot.fee_left - ef /\ rest.slippage_left = lot.slippage_left - es
  BY <1>3, <1>4, RestIs
<1>13. Queued(rows, now) /\ Behind(rows, lot.opened_at, now)
  <2>1. qty # lot.qty => rest.qty > 0 BY <1>4, <1>12
  <2>2. rest \in Lot /\ rest.opened_at = lot.opened_at BY <1>12
  <2> HIDE DEF rest
  <2>. QED BY <1>1, <1>2, <1>4, <2>1, <2>2, RowsQueue DEF lot, OfHead
<1> HIDE DEF rows, trade, cash, pnl, rest, m, lots
<1>14. /\ m.cash = cash /\ m.realized = l.realized + pnl /\ m.sold = l.sold + qty
       /\ m.last_sold = lot.opened_at /\ m.raised = FALSE
       /\ m.trades = Append(l.trades, trade) /\ m.lots = rows /\ m.bought = l.bought
       /\ m.buys_this_bar = l.buys_this_bar /\ m.sells_this_bar = l.sells_this_bar
  <2>. QED BY <1>1, <1>10 DEF Ledger
<1>15. m \in Ledger
  <2>1. l.realized + pnl \in Int /\ l.sold + qty \in Nat BY <1>n, <1>4, <1>7
  <2>2. Append(l.trades, trade) \in Seq(Trade) BY <1>2, <1>9
  <2>3. lot.opened_at \in Int \cup {None} BY <1>4
  <2>. QED BY <1>1, <1>7, <1>10, <1>11, <2>1, <2>2, <2>3 DEF Ledger
<1>16. cash + Total(Costs(rows)) = Capital + (l.realized + pnl)
  <2> DEFINE e == lot.entry_price
             q == lot.qty
             f == lot.fee_left
             s == lot.slippage_left
             costs == Total(Costs(lots))
  <2>1. costs \in Int BY <1>2, SumsOfLots, TotalInt DEF lots
  <2>2. l.cash + costs = Capital + l.realized BY <1>1 DEF Adds, lots
  <2>3. CostOf(lot) = e * q + f + s BY DEF CostOf
  <2>4. CostOf(rest) = e * (q - qty) + (f - ef) + (s - es) BY <1>12 DEF CostOf
  <2>5. e \in Int /\ q \in Int /\ f \in Int /\ s \in Int /\ qty \in Int /\ ef \in Int /\ es \in Int
        /\ xf \in Int /\ xs \in Int /\ l.cash \in Int /\ l.realized \in Int /\ Capital \in Int
        /\ price \in Int
    BY <1>n, <1>4, LotParameters
  <2>6. /\ cash = l.cash + price * qty - xf - xs
        /\ pnl = (price - e) * qty - (ef + xf) - (es + xs)
    BY DEF cash, pnl
  <2>7. Total(Costs(rows)) = costs - CostOf(lot) + CostOf(rest) BY <1>11
  <2> DEFINE c == l.cash
             r == l.realized
  <2>8. c \in Int /\ r \in Int /\ c + costs = Capital + r BY <2>2, <2>5
  <2> HIDE DEF c, r, e, q, f, s, costs
  <2>9. (c + price * qty - xf - xs)
          + (costs - (e * q + f + s) + (e * (q - qty) + (f - ef) + (s - es)))
          = Capital + (r + ((price - e) * qty - (ef + xf) - (es + xs)))
    BY <2>1, <2>5, <2>8, PortionBalances
  <2>. QED BY <2>3, <2>4, <2>6, <2>7, <2>9, Zenon DEF c, r
<1>17. Adds(m)
  <2>1. Total(Qtys(rows)) = l.bought - (l.sold + qty)
    <3>1. Total(Qtys(lots)) = l.bought - l.sold BY <1>1 DEF Adds, lots
    <3> DEFINE t == Total(Qtys(lots))
    <3>2. t = l.bought - l.sold /\ Total(Qtys(rows)) = t - qty BY <1>11, <3>1
    <3> HIDE DEF t
    <3>. QED BY <1>n, <1>4, <3>2
  <2>2. l.realized + pnl = Total(Profits(Append(l.trades, trade)))
    <3>1. l.realized = Total(Profits(l.trades)) BY <1>1 DEF Adds, lots
    <3>2. Append(l.trades, trade) \in Seq(Trade) BY <1>2, <1>9
    <3>3. Profits(Append(l.trades, trade)) = Append(Profits(l.trades), pnl)
      <4> DEFINE a == Append(l.trades, trade)
                 ps == Profits(l.trades)
      <4>1. /\ Len(a) = Len(l.trades) + 1 /\ a[Len(l.trades) + 1] = trade
            /\ \A i \in 1..Len(l.trades) : a[i] = l.trades[i]
            /\ Len(l.trades) \in Nat
        BY <1>2, <1>9, AppendIs
      <4>2. /\ ps \in Seq(Int) /\ Len(ps) = Len(l.trades)
            /\ \A i \in 1..Len(l.trades) : ps[i] = l.trades[i].pnl
        BY <1>2, SumsOfTrades
      <4>3. /\ Profits(a) \in Seq(Int) /\ Len(Profits(a)) = Len(a)
            /\ \A i \in 1..Len(a) : Profits(a)[i] = a[i].pnl
        <5> HIDE DEF a
        <5>. QED BY <3>2, SumsOfTrades DEF a
      <4> HIDE DEF a, ps
      <4>4. ASSUME NEW i \in 1..Len(a) PROVE Profits(a)[i] = Append(ps, pnl)[i]
        <5>1. CASE i = Len(l.trades) + 1
          <6>1. Profits(a)[i] = pnl BY <1>8, <4>1, <4>3, <5>1 DEF trade, pnl
          <6>. QED BY <1>7, <4>2, <5>1, <6>1
        <5>2. CASE i # Len(l.trades) + 1
          <6>1. i \in 1..Len(l.trades) BY <4>1, <5>2
          <6>2. Profits(a)[i] = ps[i] BY <4>1, <4>2, <4>3, <6>1
          <6>. QED BY <1>7, <4>2, <6>1, <6>2
        <5>. QED BY <5>1, <5>2
      <4>5. Append(ps, pnl) \in Seq(Int) /\ Len(Append(ps, pnl)) = Len(a) BY <1>7, <4>1, <4>2
      <4>6. Profits(a) = Append(ps, pnl) BY <4>3, <4>4, <4>5, SeqEqual
      <4>. QED BY <4>6 DEF a, ps
    <3>4. Profits(l.trades) \in Seq(Int) BY <1>2, SumsOfTrades
    <3>. QED BY <1>7, <3>1, <3>3, <3>4, TotalAppend
  <2>. QED BY <1>14, <1>16, <2>1, <2>2 DEF Adds
<1>18. Dated(m.trades)
  <2>1. trade.closed_at = at /\ trade.kind = kind BY DEF trade, Traded
  <2> DEFINE a == Append(l.trades, trade)
  <2>2. /\ Len(a) = Len(l.trades) + 1 /\ a[Len(l.trades) + 1] = trade
        /\ \A i \in 1..Len(l.trades) : a[i] = l.trades[i]
        /\ Len(l.trades) \in Nat
    BY <1>2, <1>9, AppendIs
  <2> HIDE DEF a
  <2>3. ASSUME NEW i \in 1..Len(a) PROVE Closes(a[i].closed_at, a[i].kind)
    <3>1. CASE i = Len(l.trades) + 1 BY <2>1, <2>2, <3>1
    <3>2. CASE i # Len(l.trades) + 1
      <4>1. i \in 1..Len(l.trades) BY <2>2, <3>2
      <4>. QED BY <1>1, <2>2, <4>1 DEF Dated
    <3>. QED BY <3>1, <3>2
  <2>4. m.trades = a BY <1>14 DEF a
  <2>. QED BY <2>3, <2>4 DEF Dated
<1>19. Book(m, now) BY <1>13, <1>14, <1>15, <1>17, <1>18 DEF Book
<1>20. Holding(m) = Holding(l) - qty
  <2>1. Holding(m) = Total(Qtys(rows)) BY <1>14, <1>15, HoldingIs
  <2>2. Holding(l) = Total(Qtys(lots)) BY <1>1, HoldingIs DEF lots
  <2>. QED BY <1>11, <2>1, <2>2
<1>. QED BY <1>11, <1>14, <1>19, <1>20 DEF m, lot, lots
-----------------------------------------------------------------------------
(***************************************************************************)
(* A sale, portion after portion.                                          *)
(***************************************************************************)
SellStep(l, target, at, price, kind, f, n) ==
  IF n = 0 THEN [left |-> target, ledger |-> l] ELSE SellNext(f[n - 1], at, price, kind)
SellSteps(l, target, at, price, kind) ==
  CHOOSE f : f = [n \in 0..Len(l.lots) |-> SellStep(l, target, at, price, kind, f, n)]

LEMMA SaleIsSteps ==
  ASSUME NEW l, NEW target, NEW at, NEW price, NEW kind
  PROVE  SellQty(l, target, at, price, kind)
           = SellSteps(l, target, at, price, kind)[Len(l.lots)].ledger
BY Zenon DEF SellQty, SellSteps, SellStep

\* There are such steps.
LEMMA StepsExist ==
  ASSUME NEW l, NEW target, NEW at, NEW price, NEW kind, Len(l.lots) \in Nat
  PROVE  SellSteps(l, target, at, price, kind)
           = [n \in 0..Len(l.lots) |->
                SellStep(l, target, at, price, kind, SellSteps(l, target, at, price, kind), n)]
<1> DEFINE L == Len(l.lots)
           Step(f, n) == SellStep(l, target, at, price, kind, f, n)
           Has(k) == \E f : f = [n \in 0..k |-> Step(f, n)]
           S == {k \in 0..L : Has(k)}
<1>1. Has(0)
  <2> DEFINE g == [n \in 0..0 |-> [left |-> target, ledger |-> l]]
  <2>1. \A n \in 0..0 : Step(g, n) = [left |-> target, ledger |-> l] BY DEF SellStep
  <2>2. g = [n \in 0..0 |-> Step(g, n)] BY <2>1
  <2>. QED BY <2>2
<1>2. ASSUME NEW k \in Nat, Has(k) PROVE Has(k + 1)
  <2>1. PICK f : f = [n \in 0..k |-> Step(f, n)] BY <1>2
  <2> DEFINE g == [n \in 0..(k + 1) |-> IF n <= k THEN f[n] ELSE Step(f, n)]
  <2>2. ASSUME NEW n \in 0..(k + 1) PROVE g[n] = Step(g, n)
    <3>1. g[n] = Step(f, n)
      <4> HIDE DEF Step
      <4>. QED BY <2>1
    <3>2. CASE n = 0 BY <3>1, <3>2 DEF SellStep
    <3>3. CASE n # 0
      <4>1. n - 1 \in 0..k BY <3>3
      <4>2. g[n - 1] = f[n - 1] BY <4>1
      <4> HIDE DEF g
      <4>3. Step(g, n) = SellNext(g[n - 1], at, price, kind) BY <3>3 DEF SellStep
      <4>4. Step(f, n) = SellNext(f[n - 1], at, price, kind) BY <3>3 DEF SellStep
      <4>. QED BY <3>1, <4>2, <4>3, <4>4, Zenon
    <3>. QED BY <3>2, <3>3
  <2> HIDE DEF Step
  <2>3. g = [n \in 0..(k + 1) |-> Step(g, n)] BY <2>2
  <2> HIDE DEF g
  <2>. QED BY <2>3
<1> HIDE DEF Has
<1>3. L \in Nat /\ 0 \in S BY <1>1
<1>4. \A k \in 1..L : k - 1 \in S => k \in S
  <2>1. ASSUME NEW k \in 1..L, k - 1 \in S PROVE k \in S
    <3>1. k - 1 \in Nat /\ (k - 1) + 1 = k BY <1>3
    <3>2. Has((k - 1) + 1) BY <1>2, <2>1, <3>1
    <3>. QED BY <1>3, <3>1, <3>2
  <2>. QED BY <2>1
<1>5. L \in S
  <2> HIDE DEF S, L
  <2>1. \A k \in 0..L : k \in S BY <1>3, <1>4, AllUpTo
  <2>. QED BY <1>3, <2>1
<1>6. \E f : f = [n \in 0..Len(l.lots) |-> SellStep(l, target, at, price, kind, f, n)]
  BY <1>5 DEF Has
<1>. QED BY <1>6, Zenon DEF SellSteps

\* Between two portions: what is left to sell is held, and what is gone is sold.
Selling(acc, l, target, now, lotsLeft) ==
  /\ acc.left \in Nat /\ Book(acc.ledger, now)
  /\ acc.left <= Holding(acc.ledger)
  /\ Holding(acc.ledger) - acc.left = Holding(l) - target
  /\ acc.ledger.buys_this_bar = l.buys_this_bar
  /\ acc.ledger.sells_this_bar = l.sells_this_bar
  /\ acc.left = 0 \/ Len(acc.ledger.lots) = lotsLeft

LEMMA NextSold ==
  ASSUME LotAssumption, NEW now \in Int, NEW l \in Ledger, NEW target \in Nat, NEW lotsLeft \in Int,
         NEW acc, Selling(acc, l, target, now, lotsLeft),
         NEW at \in Int, NEW price \in Nat, NEW kind \in TradeKinds, Closes(at, kind)
  PROVE  Selling(SellNext(acc, at, price, kind), l, target, now, lotsLeft - 1)
<1>1. CASE acc.left = 0 BY <1>1 DEF Selling, SellNext
<1>2. CASE acc.left # 0
  <2> DEFINE b == acc.ledger
             h == HeadAt(b.lots)
             q == b.lots[h].qty
             portion == Lesser(q, acc.left)
             m == SellPortion(b, portion, at, price, kind)
  <2>1. /\ acc.left \in Nat /\ acc.left > 0 /\ Book(b, now) /\ acc.left <= Holding(b)
        /\ Holding(b) - acc.left = Holding(l) - target /\ Len(b.lots) = lotsLeft
        /\ b.buys_this_bar = l.buys_this_bar /\ b.sells_this_bar = l.sells_this_bar
    BY <1>2 DEF Selling
  <2>2. b \in Ledger /\ Queued(b.lots, now) BY <2>1 DEF Book
  <2>3. b.lots \in Seq(Lot) BY <2>2, BookTypes
  <2>4. Holding(b) \in Nat /\ Holding(l) \in Nat BY <2>2, HoldingIs
  <2>5. b.lots # <<>>
    <3>1. b.lots = <<>> => Holding(b) = 0 BY <2>2, HoldingIs
    <3>. QED BY <2>1, <2>4, <3>1
  <2>6. h \in 1..Len(b.lots) /\ b.lots[h] \in Lot BY <2>3, <2>5, HeadIs
  <2>7. q \in Nat /\ q > 0 BY <2>2, <2>6 DEF Queued, Lot
  <2>8. portion \in Nat /\ portion \in 1..q /\ portion <= acc.left
        /\ (portion = q \/ portion = acc.left)
    <3> HIDE DEF q
    <3>. QED BY <2>1, <2>7 DEF Lesser
  <2>9. OfHead(b, portion)
    <3> HIDE DEF portion
    <3>. QED BY <2>5, <2>8 DEF OfHead
  <2> HIDE DEF portion
  <2>10. /\ Book(m, now) /\ m.buys_this_bar = b.buys_this_bar /\ m.sells_this_bar = b.sells_this_bar
         /\ Holding(m) = Holding(b) - portion
         /\ portion = q => Len(m.lots) = Len(b.lots) - 1
    <3>1. Book(b, now) /\ OfHead(b, portion) /\ portion \in Nat BY <2>1, <2>8, <2>9
    <3> HIDE DEF b
    <3>2. LET n == SellPortion(b, portion, at, price, kind)
          IN /\ Book(n, now)
             /\ n.buys_this_bar = b.buys_this_bar /\ n.sells_this_bar = b.sells_this_bar
             /\ Holding(n) = Holding(b) - portion
             /\ portion = b.lots[HeadAt(b.lots)].qty => Len(n.lots) = Len(b.lots) - 1
      BY <3>1, PortionSold
    <3>. QED BY <3>2
  <2>11. SellNext(acc, at, price, kind) = [left |-> acc.left - portion, ledger |-> m]
    BY <1>2 DEF SellNext, portion
  <2> DEFINE next == [left |-> acc.left - portion, ledger |-> m]
  <2> HIDE DEF m, b, q
  <2>12. next.left = acc.left - portion /\ next.ledger = m OBVIOUS
  <2> HIDE DEF next
  <2>13. /\ next.left \in Nat /\ next.left <= Holding(m)
         /\ Holding(m) - next.left = Holding(l) - target
    <3> DEFINE hm == Holding(m)
               hb == Holding(b)
               hl == Holding(l)
    <3>1. hb \in Nat /\ hl \in Nat /\ hm = hb - portion /\ hb - acc.left = hl - target
          /\ acc.left <= hb /\ acc.left \in Nat
      BY <2>1, <2>4, <2>10
    <3> HIDE DEF hm, hb, hl
    <3>2. /\ next.left \in Nat /\ next.left <= hm /\ hm - next.left = hl - target
      BY <2>8, <2>12, <3>1
    <3>. QED BY <3>2 DEF hm, hl
  <2>14. next.left = 0 \/ Len(m.lots) = lotsLeft - 1 BY <2>1, <2>8, <2>10, <2>12
  <2>15. Selling(next, l, target, now, lotsLeft - 1)
    BY <2>1, <2>10, <2>12, <2>13, <2>14 DEF Selling
  <2>. QED BY <2>11, <2>15 DEF next
<1>. QED BY <1>1, <1>2

\* A sale of what is held keeps the books; a sale of all of it leaves no lot.
LEMMA QtySold ==
  ASSUME LotAssumption, NEW now \in Int, NEW l, Book(l, now),
         NEW target \in Nat, target <= Holding(l),
         NEW at \in Int, NEW price \in Nat, NEW kind \in TradeKinds, Closes(at, kind)
  PROVE  LET m == SellQty(l, target, at, price, kind)
         IN /\ Book(m, now)
            /\ m.buys_this_bar = l.buys_this_bar /\ m.sells_this_bar = l.sells_this_bar
            /\ target = Holding(l) => m.lots = <<>>
<1> DEFINE L == Len(l.lots)
           f == SellSteps(l, target, at, price, kind)
           S == {n \in 0..L : Selling(f[n], l, target, now, L - n)}
<1>1. l \in Ledger BY DEF Book
<1>2. L \in Nat /\ Holding(l) \in Nat
  <2>1. l.lots \in Seq(Lot) BY <1>1, BookTypes
  <2>. QED BY <1>1, <2>1, HoldingIs
<1>3. f = [n \in 0..L |-> SellStep(l, target, at, price, kind, f, n)] BY <1>2, StepsExist
<1> HIDE DEF f
<1>4. f[0] = [left |-> target, ledger |-> l]
  <2>1. 0 \in 0..L BY <1>2
  <2> HIDE DEF L
  <2>2. f[0] = SellStep(l, target, at, price, kind, f, 0) BY <1>3, <2>1
  <2>. QED BY <2>2 DEF SellStep
<1>5. \A n \in 1..L : f[n] = SellNext(f[n - 1], at, price, kind)
  <2>1. ASSUME NEW n \in 1..L PROVE f[n] = SellNext(f[n - 1], at, price, kind)
    <3>1. n \in 0..L /\ n # 0 BY <1>2
    <3> HIDE DEF L
    <3>2. f[n] = SellStep(l, target, at, price, kind, f, n) BY <1>3, <3>1
    <3>. QED BY <3>1, <3>2 DEF SellStep
  <2>. QED BY <2>1
<1>6. 0 \in S
  <2> DEFINE acc == [left |-> target, ledger |-> l]
  <2>1. acc.left = target /\ acc.ledger = l OBVIOUS
  <2> HIDE DEF acc
  <2>2. Selling(acc, l, target, now, L) BY <1>2, <2>1 DEF Selling
  <2>3. L - 0 = L /\ 0 \in 0..L BY <1>2
  <2>. QED BY <1>4, <2>2, <2>3 DEF acc
<1>7. ASSUME NEW n \in 1..L, n - 1 \in S PROVE n \in S
  <2> DEFINE k == L - (n - 1)
             acc == f[n - 1]
  <2>1. k \in Int /\ k - 1 = L - n /\ n \in 0..L BY <1>2
  <2>2. Selling(acc, l, target, now, k) BY <1>7
  <2>3. f[n] = SellNext(acc, at, price, kind) BY <1>5
  <2> HIDE DEF k, acc, L
  <2>4. Selling(SellNext(acc, at, price, kind), l, target, now, k - 1)
    BY <1>1, <2>1, <2>2, NextSold
  <2>. QED BY <2>1, <2>3, <2>4
<1>8. L \in S
  <2> HIDE DEF S, L
  <2>1. \A n \in 0..L : n \in S BY <1>2, <1>6, <1>7, AllUpTo
  <2>. QED BY <1>2, <2>1
<1> DEFINE z == f[L]
           m == z.ledger
<1>9. Selling(z, l, target, now, 0)
  <2>1. L - L = 0 BY <1>2
  <2> HIDE DEF L
  <2>. QED BY <1>8, <2>1
<1> HIDE DEF z
<1>10. /\ z.left \in Nat /\ Book(m, now) /\ z.left <= Holding(m)
       /\ Holding(m) - z.left = Holding(l) - target
       /\ m.buys_this_bar = l.buys_this_bar /\ m.sells_this_bar = l.sells_this_bar
       /\ z.left = 0 \/ Len(m.lots) = 0
  BY <1>9 DEF Selling
<1>11. m \in Ledger /\ Queued(m.lots, now) BY <1>10 DEF Book
<1>12. m.lots \in Seq(Lot) BY <1>11, BookTypes
<1>13. /\ Holding(m) \in Nat /\ \A i \in 1..Len(m.lots) : m.lots[i].qty <= Holding(m)
       /\ m.lots = <<>> => Holding(m) = 0
  BY <1>11, HoldingIs
<1>14. Len(m.lots) = 0 => m.lots = <<>> BY <1>12
<1>15. ASSUME target = Holding(l) PROVE m.lots = <<>>
  <2>1. Holding(m) = 0
    <3>1. CASE z.left = 0 BY <1>2, <1>10, <1>13, <1>15, <3>1
    <3>2. CASE Len(m.lots) = 0 BY <1>13, <1>14, <3>2
    <3>. QED BY <1>10, <3>1, <3>2
  <2>2. SUFFICES ASSUME m.lots # <<>> PROVE FALSE OBVIOUS
  <2>3. 1 \in 1..Len(m.lots) BY <1>12, <2>2
  <2>4. m.lots[1] \in Lot BY <1>12, <2>3
  <2>5. m.lots[1].qty \in Nat BY <2>4 DEF Lot
  <2>6. m.lots[1].qty > 0 BY <1>11, <2>3 DEF Queued
  <2>. QED BY <1>13, <2>1, <2>3, <2>5, <2>6
<1>16. SellQty(l, target, at, price, kind) = m BY SaleIsSteps DEF f, z
<1>. QED BY <1>10, <1>15, <1>16
-----------------------------------------------------------------------------
(***************************************************************************)
(* The operations on a ledger that has traded nothing in this bar.         *)
(***************************************************************************)
LEMMA BookLater ==
  ASSUME NEW before \in Int, NEW at \in Int, before <= at, NEW l, Book(l, before)
  PROVE  Book(l, at)
<1>1. l \in Ledger /\ Queued(l.lots, before) /\ Behind(l.lots, l.last_sold, before)
  BY DEF Book
<1>2. l.lots \in Seq(Lot) /\ l.last_sold \in Int \cup {None} BY <1>1, BookTypes
<1>3. \A i \in 1..Len(l.lots) : l.lots[i].opened_at \in Int
  <2>1. \A i \in 1..Len(l.lots) : l.lots[i] \in Lot BY <1>2
  <2>. QED BY <2>1 DEF Lot
<1>4. Queued(l.lots, at)
  <2>1. \A i \in 1..Len(l.lots) : l.lots[i].opened_at <= before BY <1>1 DEF Queued
  <2>2. \A i \in 1..Len(l.lots) : l.lots[i].opened_at <= at BY <1>3, <2>1
  <2>. QED BY <1>1, <2>2 DEF Queued
<1>5. Behind(l.lots, l.last_sold, at)
  <2>1. CASE l.last_sold = None BY <2>1 DEF Behind
  <2>2. CASE l.last_sold # None
    <3>1. l.last_sold \in Int /\ l.last_sold <= before BY <1>1, <1>2, <2>2 DEF Behind
    <3>2. l.last_sold <= at BY <3>1
    <3>. QED BY <1>1, <2>2, <3>2 DEF Behind
  <2>. QED BY <2>1, <2>2
<1>. QED BY <1>4, <1>5 DEF Book

\* The counters of the bar are not part of the books.
LEMMA SameBook ==
  ASSUME NEW now, NEW l, Book(l, now), NEW m \in Ledger,
         m.cash = l.cash, m.lots = l.lots, m.trades = l.trades, m.realized = l.realized,
         m.bought = l.bought, m.sold = l.sold, m.last_sold = l.last_sold
  PROVE  Book(m, now)
BY DEF Book, Adds

LEMMA BeginBarKeeps ==
  ASSUME NEW now, NEW l, Book(l, now)
  PROVE  LET m == BeginBar(l)
         IN /\ Book(m, now) /\ m.lots = l.lots /\ m.cash = l.cash /\ m.trades = l.trades
            /\ m.buys_this_bar = 0 /\ m.sells_this_bar = 0
<1> DEFINE m == BeginBar(l)
<1>1. l \in Ledger BY DEF Book
<1>2. /\ m \in Ledger /\ m.cash = l.cash /\ m.lots = l.lots /\ m.trades = l.trades
      /\ m.realized = l.realized /\ m.bought = l.bought /\ m.sold = l.sold
      /\ m.last_sold = l.last_sold /\ m.buys_this_bar = 0 /\ m.sells_this_bar = 0
  BY <1>1 DEF BeginBar, Ledger
<1> HIDE DEF m
<1>3. Book(m, now) BY <1>2, SameBook
<1>. QED BY <1>2, <1>3 DEF m

LEMMA CountSellKeeps ==
  ASSUME NEW now, NEW l, Book(l, now), l.buys_this_bar = 0
  PROVE  LET m == CountSell(l)
         IN /\ Book(m, now) /\ OneSide(m)
            /\ m.lots = l.lots /\ m.cash = l.cash /\ m.trades = l.trades
<1> DEFINE m == CountSell(l)
<1>1. l \in Ledger BY DEF Book
<1>2. l.sell_fills + 1 \in Nat /\ l.sells_this_bar + 1 \in Nat
  <2>1. l.sell_fills \in Nat /\ l.sells_this_bar \in Nat BY <1>1, BookTypes
  <2>. QED BY <2>1
<1>3. /\ m \in Ledger /\ m.cash = l.cash /\ m.lots = l.lots /\ m.trades = l.trades
      /\ m.realized = l.realized /\ m.bought = l.bought /\ m.sold = l.sold
      /\ m.last_sold = l.last_sold /\ m.buys_this_bar = l.buys_this_bar
  BY <1>1, <1>2 DEF CountSell, Ledger
<1> HIDE DEF m
<1>4. Book(m, now) BY <1>3, SameBook
<1>5. OneSide(m) BY <1>3 DEF OneSide
<1>. QED BY <1>3, <1>4, <1>5 DEF m

\* What a fill may leave.
FillKeeps(result, l, now) ==
  /\ result.filled \in BOOLEAN
  /\ Book(result.ledger, now) /\ OneSide(result.ledger)
  /\ ~result.filled => /\ result.ledger.lots = l.lots /\ result.ledger.cash = l.cash
                       /\ result.ledger.trades = l.trades

Unfilled(l) == [filled |-> FALSE, ledger |-> l]

LEMMA UnfilledKeeps ==
  ASSUME NEW l, NEW now, Book(l, now), OneSide(l)
  PROVE  FillKeeps(Unfilled(l), l, now) /\ Unfilled(l).filled = FALSE
BY DEF FillKeeps, Unfilled

LEMMA SoldKeeps ==
  ASSUME NEW l, NEW now, NEW m, Book(m, now), m.buys_this_bar = 0
  PROVE  LET result == [filled |-> TRUE, ledger |-> CountSell(m)]
         IN /\ FillKeeps(result, l, now) /\ result.filled = TRUE
            /\ result.ledger.lots = m.lots
<1> DEFINE c == CountSell(m)
<1>1. Book(c, now) /\ OneSide(c) /\ c.lots = m.lots BY CountSellKeeps
<1> HIDE DEF c
<1>. QED BY <1>1 DEF FillKeeps, c

LEMMA SellKeeps ==
  ASSUME LotAssumption, NEW now \in Int, NEW l, Book(l, now),
         l.buys_this_bar = 0, l.sells_this_bar = 0,
         NEW at \in Int, NEW price \in Nat, price > 0, NEW kind \in TradeKinds, Closes(at, kind)
  PROVE  /\ FillKeeps(Sell(l, at, price, kind), l, now)
         /\ Sell(l, at, price, kind).filled => l.lots # <<>>
<1> DEFINE target == Lesser(FloorQty(SellNotional, price), Holding(l))
           m == SellQty(l, target, at, price, kind)
<1>1. l \in Ledger BY DEF Book
<1>2. Holding(l) \in Nat /\ (l.lots = <<>> => Holding(l) = 0) BY <1>1, HoldingIs
<1>3. FloorQty(SellNotional, price) \in Nat BY LotParameters, Quotient DEF FloorQty
<1>4. target \in Nat /\ target <= Holding(l) BY <1>2, <1>3, LesserOf
<1>5. target # 0 => l.lots # <<>> BY <1>2, <1>4
<1> HIDE DEF target
<1>6. Book(m, now) /\ m.buys_this_bar = 0 BY <1>4, QtySold
<1> HIDE DEF m
<1>7. CASE target = 0
  <2>1. Sell(l, at, price, kind) = Unfilled(l) BY <1>7 DEF Sell, target, Unfilled
  <2>2. OneSide(l) BY DEF OneSide
  <2>. QED BY <2>1, <2>2, UnfilledKeeps
<1>8. CASE target # 0
  <2> DEFINE result == [filled |-> TRUE, ledger |-> CountSell(m)]
  <2>1. Sell(l, at, price, kind) = result BY <1>8 DEF Sell, target, m
  <2>2. FillKeeps(result, l, now) BY <1>6, SoldKeeps
  <2> HIDE DEF result
  <2>. QED BY <1>5, <1>8, <2>1, <2>2
<1>. QED BY <1>7, <1>8

LEMMA SellAllKeeps ==
  ASSUME LotAssumption, NEW now \in Int, NEW l, Book(l, now),
         l.buys_this_bar = 0, l.sells_this_bar = 0,
         NEW at \in Int, NEW price \in Nat, NEW kind \in TradeKinds, Closes(at, kind)
  PROVE  LET result == SellAll(l, at, price, kind)
         IN /\ FillKeeps(result, l, now)
            /\ result.filled <=> l.lots # <<>>
            /\ result.ledger.lots = <<>>
<1> DEFINE m == SellQty(l, Holding(l), at, price, kind)
<1>1. l \in Ledger BY DEF Book
<1>2. Holding(l) \in Nat /\ Holding(l) <= Holding(l) BY <1>1, HoldingIs
<1>3. Book(m, now) /\ m.buys_this_bar = 0 /\ m.lots = <<>> BY <1>2, QtySold
<1> HIDE DEF m
<1>4. CASE l.lots = <<>>
  <2>1. SellAll(l, at, price, kind) = Unfilled(l) BY <1>4 DEF SellAll, Unfilled
  <2>2. OneSide(l) BY DEF OneSide
  <2>3. FillKeeps(Unfilled(l), l, now) /\ Unfilled(l).filled = FALSE BY <2>2, UnfilledKeeps
  <2>4. Unfilled(l).ledger = l BY DEF Unfilled
  <2>. QED BY <1>4, <2>1, <2>3, <2>4
<1>5. CASE l.lots # <<>>
  <2> DEFINE result == [filled |-> TRUE, ledger |-> CountSell(m)]
  <2>1. SellAll(l, at, price, kind) = result BY <1>5 DEF SellAll, m
  <2>2. FillKeeps(result, l, now) /\ result.filled = TRUE /\ result.ledger.lots = m.lots
    BY <1>3, SoldKeeps
  <2> HIDE DEF result
  <2>. QED BY <1>3, <1>5, <2>1, <2>2
<1>. QED BY <1>4, <1>5

LEMMA SellLotKeeps ==
  ASSUME LotAssumption, NEW now \in Int, NEW l, Book(l, now),
         l.buys_this_bar = 0, l.sells_this_bar = 0,
         NEW at \in Int, NEW price \in Nat, NEW kind \in TradeKinds, Closes(at, kind)
  PROVE  LET result == SellLot(l, at, price, kind)
         IN /\ FillKeeps(result, l, now)
            /\ result.filled <=> l.lots # <<>>
            /\ result.filled => Len(result.ledger.lots) = Len(l.lots) - 1
<1> DEFINE qty == l.lots[HeadAt(l.lots)].qty
           m == SellPortion(l, qty, at, price, kind)
<1>1. l \in Ledger /\ Queued(l.lots, now) BY DEF Book
<1>2. l.lots \in Seq(Lot) BY <1>1, BookTypes
<1>3. CASE l.lots = <<>>
  <2>1. SellLot(l, at, price, kind) = Unfilled(l) BY <1>3 DEF SellLot, Unfilled
  <2>2. OneSide(l) BY DEF OneSide
  <2>3. FillKeeps(Unfilled(l), l, now) /\ Unfilled(l).filled = FALSE BY <2>2, UnfilledKeeps
  <2>. QED BY <1>3, <2>1, <2>3
<1>4. CASE l.lots # <<>>
  <2>1. HeadAt(l.lots) \in 1..Len(l.lots) /\ l.lots[HeadAt(l.lots)] \in Lot BY <1>2, <1>4, HeadIs
  <2>2. qty \in Nat /\ qty > 0 BY <1>1, <2>1 DEF Queued, Lot
  <2>3. OfHead(l, qty) BY <1>4, <2>2 DEF OfHead
  <2>4. Book(m, now) /\ m.buys_this_bar = 0 /\ Len(m.lots) = Len(l.lots) - 1
    BY <2>2, <2>3, PortionSold
  <2> HIDE DEF m, qty
  <2> DEFINE result == [filled |-> TRUE, ledger |-> CountSell(m)]
  <2>5. SellLot(l, at, price, kind) = result BY <1>4 DEF SellLot, m, qty
  <2>6. FillKeeps(result, l, now) /\ result.filled = TRUE /\ result.ledger.lots = m.lots
    BY <2>4, SoldKeeps
  <2> HIDE DEF result
  <2>. QED BY <1>4, <2>4, <2>5, <2>6
<1>. QED BY <1>3, <1>4
\* One more lot adds its cost and its quantity.
LEMMA LotAdded ==
  ASSUME NEW lots \in Seq(Lot), NEW lot \in Lot
  PROVE  /\ Append(lots, lot) \in Seq(Lot)
         /\ Total(Costs(Append(lots, lot))) = Total(Costs(lots)) + CostOf(lot)
         /\ Total(Qtys(Append(lots, lot))) = Total(Qtys(lots)) + lot.qty
<1> DEFINE rows == Append(lots, lot)
<1>1. /\ rows \in Seq(Lot) /\ Len(rows) = Len(lots) + 1 /\ rows[Len(lots) + 1] = lot
      /\ \A i \in 1..Len(lots) : rows[i] = lots[i]
      /\ Len(lots) \in Nat
  OBVIOUS
<1> HIDE DEF rows
<1>2. /\ Costs(lots) \in Seq(Int) /\ Qtys(lots) \in Seq(Int)
      /\ Len(Costs(lots)) = Len(lots) /\ Len(Qtys(lots)) = Len(lots)
      /\ \A i \in 1..Len(lots) : Costs(lots)[i] = CostOf(lots[i]) /\ Qtys(lots)[i] = lots[i].qty
  BY SumsOfLots
<1>3. /\ Costs(rows) \in Seq(Int) /\ Qtys(rows) \in Seq(Int)
      /\ Len(Costs(rows)) = Len(rows) /\ Len(Qtys(rows)) = Len(rows)
      /\ \A i \in 1..Len(rows) : Costs(rows)[i] = CostOf(rows[i]) /\ Qtys(rows)[i] = rows[i].qty
  BY <1>1, SumsOfLots
<1>4. CostOf(lot) \in Int /\ lot.qty \in Int
  <2>1. CostOf(lot) \in Nat BY CostInt
  <2>2. lot.qty \in Nat BY DEF Lot
  <2>. QED BY <2>1, <2>2
<1>5. Costs(rows) = Append(Costs(lots), CostOf(lot))
  <2> DEFINE vs == Costs(lots)
             v == CostOf(lot)
             rs == Costs(rows)
  <2>1. /\ vs \in Seq(Int) /\ v \in Int /\ rs \in Seq(Int) /\ Len(vs) = Len(lots)
        /\ Len(rs) = Len(lots) + 1 /\ rs[Len(lots) + 1] = v
        /\ \A i \in 1..Len(lots) : rs[i] = vs[i]
    <3>1. \A i \in 1..Len(lots) : i \in 1..Len(rows) BY <1>1
    <3>2. Len(lots) + 1 \in 1..Len(rows) BY <1>1
    <3>. QED BY <1>1, <1>2, <1>3, <1>4, <3>1, <3>2
  <2> HIDE DEF vs, v, rs
  <2>2. Append(vs, v) \in Seq(Int) /\ Len(Append(vs, v)) = Len(rs) BY <2>1
  <2>3. \A i \in 1..Len(rs) : rs[i] = Append(vs, v)[i] BY <1>1, <2>1
  <2>4. rs = Append(vs, v) BY <2>1, <2>2, <2>3, SeqEqual
  <2>. QED BY <2>4 DEF vs, v, rs
<1>6. Qtys(rows) = Append(Qtys(lots), lot.qty)
  <2> DEFINE vs == Qtys(lots)
             v == lot.qty
             rs == Qtys(rows)
  <2>1. /\ vs \in Seq(Int) /\ v \in Int /\ rs \in Seq(Int) /\ Len(vs) = Len(lots)
        /\ Len(rs) = Len(lots) + 1 /\ rs[Len(lots) + 1] = v
        /\ \A i \in 1..Len(lots) : rs[i] = vs[i]
    <3>1. \A i \in 1..Len(lots) : i \in 1..Len(rows) BY <1>1
    <3>2. Len(lots) + 1 \in 1..Len(rows) BY <1>1
    <3>. QED BY <1>1, <1>2, <1>3, <1>4, <3>1, <3>2
  <2> HIDE DEF vs, v, rs
  <2>2. Append(vs, v) \in Seq(Int) /\ Len(Append(vs, v)) = Len(rs) BY <2>1
  <2>3. \A i \in 1..Len(rs) : rs[i] = Append(vs, v)[i] BY <1>1, <2>1
  <2>4. rs = Append(vs, v) BY <2>1, <2>2, <2>3, SeqEqual
  <2>. QED BY <2>4 DEF vs, v, rs
<1>7. Total(Costs(rows)) = Total(Costs(lots)) + CostOf(lot) BY <1>2, <1>4, <1>5, TotalAppend
<1>8. Total(Qtys(rows)) = Total(Qtys(lots)) + lot.qty BY <1>2, <1>4, <1>6, TotalAppend
<1>. QED BY <1>1, <1>7, <1>8 DEF rows

\* What a buy that fills does.
Bought(l, at, price, qty, fee, slippage) ==
  LET gross == qty * price
      lot == [opened_at |-> at, entry_price |-> price, qty |-> qty,
              fee_left |-> fee, slippage_left |-> slippage]
  IN [l EXCEPT !.cash = @ - (gross + fee + slippage),
               !.lots = Append(@, lot),
               !.bought = @ + qty,
               !.invested = @ + gross,
               !.last_sold = IF LotOrder = "lifo" THEN None ELSE @,
               !.buy_fills = @ + 1,
               !.buys_this_bar = @ + 1]

LEMMA BoughtKeeps ==
  ASSUME LotAssumption, NEW before \in Int, NEW at \in Int, before < at,
         NEW l, Book(l, before), l.sells_this_bar = 0,
         NEW price \in Nat, NEW qty \in Nat, qty > 0, NEW fee \in Nat, NEW slippage \in Nat,
         qty * price + fee + slippage <= l.cash
  PROVE  LET m == Bought(l, at, price, qty, fee, slippage)
         IN /\ Book(m, at) /\ OneSide(m) /\ Len(m.lots) = Len(l.lots) + 1
            /\ m.lots \in Seq(Lot) /\ m.lots # <<>>
<1> DEFINE gross == qty * price
           lot == [opened_at |-> at, entry_price |-> price, qty |-> qty,
                   fee_left |-> fee, slippage_left |-> slippage]
           rows == Append(l.lots, lot)
           spent == gross + fee + slippage
           cash == l.cash - spent
           last == IF LotOrder = "lifo" THEN None ELSE l.last_sold
           m == Bought(l, at, price, qty, fee, slippage)
<1>1. /\ l \in Ledger /\ Adds(l) /\ Queued(l.lots, before) /\ Behind(l.lots, l.last_sold, before)
      /\ Dated(l.trades)
  BY DEF Book
<1>2. /\ l.lots \in Seq(Lot) /\ l.last_sold \in Int \cup {None} BY <1>1, BookTypes
<1>3. /\ l.cash \in Nat /\ l.realized \in Int /\ l.bought \in Nat /\ l.sold \in Nat
      /\ l.invested \in Nat /\ l.buy_fills \in Nat /\ l.buys_this_bar \in Nat
  BY <1>1, BookTypes
<1>4. gross \in Nat BY ProductNat
<1>5. lot \in Lot BY DEF Lot
<1>6. cash \in Nat /\ spent \in Nat
  <2>1. spent <= l.cash OBVIOUS
  <2> HIDE DEF gross
  <2>. QED BY <1>3, <1>4, <2>1
<1>7. CostOf(lot) = spent
  <2>1. price * qty = gross OBVIOUS
  <2> HIDE DEF gross
  <2>2. lot.entry_price = price /\ lot.qty = qty /\ lot.fee_left = fee /\ lot.slippage_left = slippage
    OBVIOUS
  <2> HIDE DEF lot
  <2>. QED BY <2>1, <2>2 DEF CostOf
<1>8. /\ rows \in Seq(Lot) /\ Len(rows) = Len(l.lots) + 1 /\ Len(l.lots) \in Nat
      /\ rows[Len(l.lots) + 1] = lot /\ \A i \in 1..Len(l.lots) : rows[i] = l.lots[i]
  <2> HIDE DEF lot
  <2>. QED BY <1>2, <1>5
<1>9. /\ Total(Costs(rows)) = Total(Costs(l.lots)) + CostOf(lot)
      /\ Total(Qtys(rows)) = Total(Qtys(l.lots)) + lot.qty
  <2> HIDE DEF lot
  <2>. QED BY <1>2, <1>5, LotAdded
<1>10. lot.opened_at = at /\ lot.qty = qty OBVIOUS
<1> HIDE DEF gross, lot, rows, spent, cash
<1>11. m = [l EXCEPT !.cash = cash, !.lots = rows, !.bought = l.bought + qty,
                     !.invested = l.invested + gross, !.last_sold = last,
                     !.buy_fills = l.buy_fills + 1, !.buys_this_bar = l.buys_this_bar + 1]
  BY <1>1 DEF Bought, gross, lot, rows, spent, cash, Ledger
<1>12. /\ l.bought + qty \in Nat /\ l.invested + gross \in Nat
       /\ l.buy_fills + 1 \in Nat /\ l.buys_this_bar + 1 \in Nat
  BY <1>3, <1>4
<1>13. last \in Int \cup {None} BY <1>2
<1> HIDE DEF m, last
<1>14. m \in Ledger BY <1>1, <1>6, <1>8, <1>11, <1>12, <1>13 DEF Ledger
<1>15. /\ m.cash = cash /\ m.lots = rows /\ m.bought = l.bought + qty /\ m.last_sold = last
       /\ m.realized = l.realized /\ m.sold = l.sold /\ m.trades = l.trades
       /\ m.sells_this_bar = l.sells_this_bar
  BY <1>1, <1>11 DEF Ledger
<1>16. Adds(m)
  <2> DEFINE costs == Total(Costs(l.lots))
             qtys == Total(Qtys(l.lots))
             c == l.cash
             r == l.realized
  <2>1. costs \in Int /\ qtys \in Int BY <1>2, SumsOfLots, TotalInt
  <2>2. c + costs = Capital + r /\ qtys = l.bought - l.sold BY <1>1 DEF Adds
  <2>3. cash = c - spent BY DEF cash
  <2>4. c \in Int /\ r \in Int /\ Capital \in Int BY <1>3, LotParameters
  <2>5. Total(Costs(rows)) = costs + spent /\ Total(Qtys(rows)) = qtys + qty BY <1>7, <1>9, <1>10
  <2> HIDE DEF costs, qtys, c, r
  <2>6. cash + Total(Costs(rows)) = Capital + r BY <1>6, <2>1, <2>2, <2>3, <2>4, <2>5
  <2>7. Total(Qtys(rows)) = (l.bought + qty) - l.sold BY <1>3, <2>1, <2>2, <2>5
  <2>8. l.realized = Total(Profits(l.trades)) BY <1>1 DEF Adds
  <2>. QED BY <1>15, <2>6, <2>7, <2>8 DEF Adds, r
<1>17. \A i \in 1..Len(l.lots) : /\ l.lots[i].opened_at \in Int /\ l.lots[i].opened_at <= before
                                 /\ l.lots[i].qty > 0
  <2>1. \A i \in 1..Len(l.lots) : l.lots[i] \in Lot BY <1>2
  <2>2. \A i \in 1..Len(l.lots) : l.lots[i].opened_at \in Int BY <2>1 DEF Lot
  <2>. QED BY <1>1, <2>2 DEF Queued
<1>18. Queued(rows, at)
  <2>1. ASSUME NEW i \in 1..Len(rows) PROVE rows[i].qty > 0 /\ rows[i].opened_at <= at
    <3>1. CASE i = Len(l.lots) + 1 BY <1>8, <1>10, <3>1
    <3>2. CASE i # Len(l.lots) + 1
      <4>1. i \in 1..Len(l.lots) BY <1>8, <3>2
      <4>. QED BY <1>8, <1>17, <4>1
    <3>. QED BY <3>1, <3>2
  <2>2. ASSUME NEW i \in 1..Len(rows), NEW j \in 1..Len(rows), i < j
        PROVE  rows[i].opened_at < rows[j].opened_at
    <3>1. i \in 1..Len(l.lots) BY <1>8, <2>2
    <3>2. CASE j = Len(l.lots) + 1
      <4>1. rows[j].opened_at = at BY <1>8, <1>10, <3>2
      <4>2. rows[i].opened_at \in Int /\ rows[i].opened_at <= before BY <1>8, <1>17, <3>1
      <4>. QED BY <4>1, <4>2
    <3>3. CASE j # Len(l.lots) + 1
      <4>1. j \in 1..Len(l.lots) BY <1>8, <3>3
      <4>2. l.lots[i].opened_at < l.lots[j].opened_at BY <1>1, <2>2, <3>1, <4>1 DEF Queued
      <4>. QED BY <1>8, <3>1, <4>1, <4>2
    <3>. QED BY <3>2, <3>3
  <2>. QED BY <2>1, <2>2 DEF Queued
<1>19. Behind(rows, last, at)
  <2>1. CASE LotOrder = "lifo" BY <2>1 DEF Behind, last
  <2>2. CASE LotOrder = "fifo"
    <3>1. last = l.last_sold BY <2>2 DEF last
    <3>2. CASE last = None BY <3>2 DEF Behind
    <3>3. CASE last # None
      <4>1. last \in Int /\ last <= before BY <1>1, <1>2, <3>1, <3>3 DEF Behind
      <4>2. \A i \in 1..Len(l.lots) : last <= l.lots[i].opened_at
        BY <1>1, <2>2, <3>1, <3>3 DEF Behind
      <4>3. ASSUME NEW i \in 1..Len(rows) PROVE last <= rows[i].opened_at
        <5>1. CASE i = Len(l.lots) + 1 BY <1>8, <1>10, <4>1, <5>1
        <5>2. CASE i # Len(l.lots) + 1
          <6>1. i \in 1..Len(l.lots) BY <1>8, <5>2
          <6>. QED BY <1>8, <4>2, <6>1
        <5>. QED BY <5>1, <5>2
      <4>4. last <= at BY <4>1
      <4>. QED BY <2>2, <4>3, <4>4 DEF Behind
    <3>. QED BY <3>2, <3>3
  <2>. QED BY <2>1, <2>2, LotParameters
<1>20. Book(m, at) BY <1>1, <1>14, <1>15, <1>16, <1>18, <1>19 DEF Book
<1>21. OneSide(m) BY <1>15 DEF OneSide
<1>22. rows # <<>> BY <1>8
<1>. QED BY <1>8, <1>15, <1>20, <1>21, <1>22 DEF m

LEMMA BuyKeeps ==
  ASSUME LotAssumption, NEW before \in Int, NEW at \in Int, before < at,
         NEW l, Book(l, before), l.buys_this_bar = 0, l.sells_this_bar = 0,
         NEW price \in Nat, price > 0, NEW notional \in Nat
  PROVE  LET result == Buy(l, at, price, notional)
         IN /\ FillKeeps(result, l, at)
            /\ result.filled => /\ Len(result.ledger.lots) = Len(l.lots) + 1
                                /\ result.ledger.lots \in Seq(Lot) /\ result.ledger.lots # <<>>
<1> DEFINE qty == FloorQty(notional, price)
           gross == qty * price
           fee == Charge(gross, FeeBps)
           slippage == Charge(gross, SlippageBps)
<1>1. Book(l, at) BY BookLater
<1>2. l \in Ledger BY DEF Book
<1>3. qty \in Nat BY Quotient DEF FloorQty
<1> HIDE DEF qty
<1>4. gross \in Nat BY <1>3, ProductNat
<1> HIDE DEF gross
<1>5. fee \in Nat /\ slippage \in Nat BY <1>4, LotParameters, ChargeNat
<1> HIDE DEF fee, slippage
<1>6. CASE qty = 0
  <2>1. Buy(l, at, price, notional) = Unfilled(l) BY <1>6 DEF Buy, Unfilled, qty
  <2>2. OneSide(l) BY DEF OneSide
  <2>3. FillKeeps(Unfilled(l), l, at) /\ Unfilled(l).filled = FALSE BY <1>1, <2>2, UnfilledKeeps
  <2>. QED BY <2>1, <2>3
<1>7. CASE qty # 0 /\ Cost(gross, fee, slippage) > l.cash
  <2> DEFINE m == [l EXCEPT !.skipped_buys = l.skipped_buys + 1]
             result == [filled |-> FALSE, ledger |-> m]
  <2>1. Buy(l, at, price, notional) = result
    BY <1>7 DEF Buy, qty, gross, fee, slippage
  <2>2. l.skipped_buys + 1 \in Nat
    <3>1. l.skipped_buys \in Nat BY <1>2, BookTypes
    <3>. QED BY <3>1
  <2>3. /\ m \in Ledger /\ m.cash = l.cash /\ m.lots = l.lots /\ m.trades = l.trades
        /\ m.realized = l.realized /\ m.bought = l.bought /\ m.sold = l.sold
        /\ m.last_sold = l.last_sold /\ m.buys_this_bar = l.buys_this_bar
    BY <1>2, <2>2 DEF Ledger
  <2> HIDE DEF m
  <2>4. Book(m, at) BY <1>1, <2>3, SameBook
  <2>5. OneSide(m) BY <2>3 DEF OneSide
  <2>6. FillKeeps(result, l, at) /\ result.filled = FALSE BY <2>3, <2>4, <2>5 DEF FillKeeps
  <2> HIDE DEF result
  <2>. QED BY <2>1, <2>6
<1>8. CASE qty # 0 /\ ~(Cost(gross, fee, slippage) > l.cash)
  <2> DEFINE m == Bought(l, at, price, qty, fee, slippage)
             result == [filled |-> TRUE, ledger |-> m]
  <2>1. Buy(l, at, price, notional) = result
    BY <1>8 DEF Buy, Bought, qty, gross, fee, slippage
  <2>2. qty * price + fee + slippage <= l.cash
    <3>1. l.cash \in Nat BY <1>2, BookTypes
    <3>2. Cost(gross, fee, slippage) = gross + fee + slippage BY DEF Cost
    <3>3. gross + fee + slippage <= l.cash BY <1>4, <1>5, <1>8, <3>1, <3>2
    <3>. QED BY <3>3 DEF gross
  <2>3. /\ Book(m, at) /\ OneSide(m) /\ Len(m.lots) = Len(l.lots) + 1
        /\ m.lots \in Seq(Lot) /\ m.lots # <<>>
    <3>1. qty > 0 BY <1>3, <1>8
    <3>. QED BY <1>3, <1>5, <2>2, <3>1, BoughtKeeps
  <2> HIDE DEF m
  <2>4. FillKeeps(result, l, at) /\ result.filled = TRUE /\ result.ledger = m
    BY <2>3 DEF FillKeeps
  <2> HIDE DEF result
  <2>. QED BY <2>1, <2>3, <2>4
<1>. QED BY <1>6, <1>7, <1>8
-----------------------------------------------------------------------------
(***************************************************************************)
(* The run.  At the open of bar i its ledger has seen no time from         *)
(* OpenTime(i) on, and an order is pending only where one may still fill.  *)
(***************************************************************************)
LEMMA Times ==
  ASSUME RunAssumption
  PROVE  /\ LastBar \in Nat /\ EndAt \in Nat /\ OpenTime(LastBar) <= EndAt
         /\ EndAt <= CloseTime(LastBar) /\ OpenTime(0) = 0
         /\ \A i \in Nat : /\ OpenTime(i) \in Nat /\ CloseTime(i) = OpenTime(i + 1)
                           /\ OpenTime(i) < OpenTime(i + 1)
         /\ \A i, j \in Nat : i <= j => OpenTime(i) <= OpenTime(j)
<1>1. LastBar \in Nat /\ Span \in Nat /\ Span > 0 /\ EndAt \in OpenTime(LastBar)..CloseTime(LastBar)
  BY DEF RunAssumption
<1>2. \A i \in Nat : i * Span \in Nat BY <1>1, ProductNat
<1>3. ASSUME NEW i \in Nat
      PROVE  /\ OpenTime(i) \in Nat /\ CloseTime(i) = OpenTime(i + 1)
             /\ OpenTime(i) < OpenTime(i + 1)
  <2>1. (i + 1) * Span = i * Span + Span BY <1>1
  <2> DEFINE x == i * Span
  <2>2. x \in Nat BY <1>2
  <2> HIDE DEF x
  <2>3. x < x + Span BY <1>1, <2>2
  <2>. QED BY <2>1, <2>2, <2>3 DEF OpenTime, CloseTime, x
<1>4. ASSUME NEW i \in Nat, NEW j \in Nat, i <= j PROVE OpenTime(i) <= OpenTime(j)
  <2>1. j * Span = i * Span + (j - i) * Span BY <1>1
  <2> DEFINE x == i * Span
             y == (j - i) * Span
  <2>2. j - i \in Nat BY <1>4
  <2>3. x \in Nat /\ y \in Nat BY <1>1, <2>2, ProductNat
  <2> HIDE DEF x, y
  <2>4. x <= x + y BY <2>3
  <2>. QED BY <2>1, <2>4 DEF OpenTime, x, y
<1>5. OpenTime(LastBar) \in Nat /\ CloseTime(LastBar) \in Nat
  <2>1. LastBar + 1 \in Nat BY <1>1
  <2>. QED BY <1>1, <1>3, <2>1
<1>6. EndAt \in Nat /\ OpenTime(LastBar) <= EndAt /\ EndAt <= CloseTime(LastBar) BY <1>1, <1>5
<1>7. OpenTime(0) = 0 BY <1>1 DEF OpenTime
<1>. QED BY <1>1, <1>3, <1>4, <1>6, <1>7

OrderOK(order) == order.action \in Actions /\ order.notional \in Nat /\ order.kind \in OrderKinds

\* The last time the ledger has seen.
Seen == IF phase = "open" THEN OpenTime(bar) - 1 ELSE OpenTime(bar)

RunOK ==
  /\ phase \in {"open", "close", "end", "done"}
  /\ bar \in 0..LastBar
  /\ Book(ledger, Seen) /\ OneSide(ledger)
  /\ OrderOK(pending) /\ reason \in {"none", "time_expiry"}
  /\ phase = "open" /\ pending.action # "hold" => OpenTime(bar) > 0 /\ OpenTime(bar) < EndAt
  /\ phase = "end" => bar = LastBar
  /\ phase = "done" => ledger.lots = <<>>
  /\ ledger.lots # <<>> => EndAt > 0
  /\ prices \in Seq(Nat) /\ (phase = "end" => prices # <<>>)

\* The curve: no point is later than the bar, and the last one of a ledger
\* without lots is its cash.
CurveOK ==
  /\ fillTimes \subseteq DOMAIN points
  /\ DOMAIN points \subseteq 1..EndAt
  /\ phase \in {"open", "close"} => \A t \in DOMAIN points : t <= OpenTime(bar)
  /\ points # <<>> /\ ledger.lots = <<>> => points[Max(DOMAIN points)] = ledger.cash
  /\ ledger.trades # <<>> => points # <<>>

LEMMA OrdersAre ==
  ASSUME LotAssumption, RunAssumption
  PROVE  /\ \A s \in Signals \cup {Hold} : OrderOK(s)
         /\ OrderOK(Hold) /\ Hold.action = "hold"
         /\ OrderOK(Signal("sell_all")) /\ Signal("sell_all").action = "sell_all"
<1>1. BuyNotional \in Nat BY LotParameters
<1>2. OrderOK(Hold) /\ Hold.action = "hold"
  BY <1>1 DEF OrderOK, Hold, Signal, Actions, OrderKinds
<1>3. OrderOK(Signal("sell_all")) /\ Signal("sell_all").action = "sell_all"
  BY <1>1 DEF OrderOK, Signal, Actions, OrderKinds
<1>4. \A s \in Signals : OrderOK(s) BY DEF RunAssumption, OrderOK, OrderKinds
<1>. QED BY <1>2, <1>3, <1>4

\* What the fill of an open leaves.
FillOK(result) ==
  /\ FillKeeps(result, ledger, OpenTime(bar))
  /\ result.filled => OpenTime(bar) > 0 /\ OpenTime(bar) < EndAt /\ pending.action # "hold"
  /\ pending.action = "buy" /\ result.filled =>
       /\ Len(result.ledger.lots) = Len(ledger.lots) + 1
       /\ result.ledger.lots \in Seq(Lot) /\ result.ledger.lots # <<>>
  /\ pending.action = "sell" /\ result.filled => ledger.lots # <<>>
  /\ pending.action = "sell_lot" =>
       /\ result.filled <=> ledger.lots # <<>>
       /\ result.filled => Len(result.ledger.lots) = Len(ledger.lots) - 1
  /\ pending.action = "sell_all" =>
       (result.filled <=> ledger.lots # <<>>) /\ result.ledger.lots = <<>>

LEMMA FillIs ==
  ASSUME LotAssumption, RunAssumption, RunOK, phase = "open", NEW price \in OpenPrices
  PROVE  FillOK(Fill(price))
<1> DEFINE at == OpenTime(bar)
           before == at - 1
           fresh == BeginBar(ledger)
           result == Fill(price)
<1>1. at \in Int /\ before \in Int /\ before < at
  <2>1. bar \in Nat BY DEF RunOK
  <2>2. at \in Nat BY <2>1, Times
  <2> HIDE DEF at
  <2>. QED BY <2>2
<1>2. Book(ledger, before) BY DEF RunOK, Seen
<1>3. /\ Book(fresh, before) /\ fresh.lots = ledger.lots /\ fresh.cash = ledger.cash
      /\ fresh.trades = ledger.trades /\ fresh.buys_this_bar = 0 /\ fresh.sells_this_bar = 0
  BY <1>2, BeginBarKeeps
<1> HIDE DEF before
<1>4. Book(fresh, at) BY <1>1, <1>3, BookLater
<1>5. price \in Nat /\ price > 0 BY DEF RunAssumption
<1>6. OrderOK(pending) /\ (pending.action # "hold" => at > 0 /\ at < EndAt) BY DEF RunOK
<1>7. ExitKind \in TradeKinds /\ ExitKind # "end_of_data"
  <2>1. pending.kind \in OrderKinds BY <1>6 DEF OrderOK
  <2>2. pending.kind \in TradeKinds /\ pending.kind # "end_of_data"
    BY <2>1 DEF OrderKinds, TradeKinds
  <2>3. "time_exit" \in TradeKinds /\ "time_exit" # "end_of_data" BY DEF TradeKinds
  <2>. QED BY <2>2, <2>3 DEF ExitKind
<1>8. pending.action # "hold" => Closes(at, ExitKind)
  <2>1. EndAt \in Int BY Times
  <2>2. at < EndAt => at # EndAt BY <1>1, <2>1
  <2>. QED BY <1>6, <1>7, <2>2 DEF Closes
<1>9. ASSUME NEW r, FillKeeps(r, fresh, at) PROVE FillKeeps(r, ledger, at)
  BY <1>3, <1>9 DEF FillKeeps
<1> DEFINE kind == ExitKind
<1> HIDE DEF at, fresh, kind, result
<1>10. CASE pending.action = "buy"
  <2>1. result = Buy(fresh, at, price, pending.notional)
    BY <1>10 DEF Fill, result, fresh, at
  <2>2. pending.notional \in Nat BY <1>6 DEF OrderOK
  <2> DEFINE notional == pending.notional
  <2> HIDE DEF notional
  <2>3. /\ FillKeeps(Buy(fresh, at, price, notional), fresh, at)
        /\ Buy(fresh, at, price, notional).filled =>
             /\ Len(Buy(fresh, at, price, notional).ledger.lots) = Len(fresh.lots) + 1
             /\ Buy(fresh, at, price, notional).ledger.lots \in Seq(Lot)
             /\ Buy(fresh, at, price, notional).ledger.lots # <<>>
    BY <1>1, <1>3, <1>5, <2>2, BuyKeeps DEF notional
  <2>4. /\ FillKeeps(result, fresh, at)
        /\ result.filled => /\ Len(result.ledger.lots) = Len(ledger.lots) + 1
                            /\ result.ledger.lots \in Seq(Lot) /\ result.ledger.lots # <<>>
    BY <1>3, <2>1, <2>3, Zenon DEF notional
  <2>. QED BY <1>6, <1>9, <1>10, <2>4 DEF FillOK, result, at
<1>11. CASE pending.action = "sell"
  <2>1. result = Sell(fresh, at, price, kind) BY <1>11 DEF Fill, result, fresh, at, kind
  <2>2. FillKeeps(result, fresh, at) /\ (result.filled => fresh.lots # <<>>)
    BY <1>1, <1>3, <1>4, <1>5, <1>7, <1>8, <1>11, <2>1, SellKeeps DEF kind
  <2>. QED BY <1>3, <1>6, <1>9, <1>11, <2>2 DEF FillOK, result, at
<1>12. CASE pending.action = "sell_lot"
  <2>1. result = SellLot(fresh, at, price, kind) BY <1>12 DEF Fill, result, fresh, at, kind
  <2>2. /\ FillKeeps(result, fresh, at) /\ (result.filled <=> fresh.lots # <<>>)
        /\ result.filled => Len(result.ledger.lots) = Len(fresh.lots) - 1
    BY <1>1, <1>3, <1>4, <1>5, <1>7, <1>8, <1>12, <2>1, SellLotKeeps DEF kind
  <2>. QED BY <1>3, <1>6, <1>9, <1>12, <2>2 DEF FillOK, result, at
<1>13. CASE pending.action = "sell_all"
  <2>1. result = SellAll(fresh, at, price, kind) BY <1>13 DEF Fill, result, fresh, at, kind
  <2>2. /\ FillKeeps(result, fresh, at) /\ (result.filled <=> fresh.lots # <<>>)
        /\ result.ledger.lots = <<>>
    BY <1>1, <1>3, <1>4, <1>5, <1>7, <1>8, <1>13, <2>1, SellAllKeeps DEF kind
  <2>. QED BY <1>3, <1>6, <1>9, <1>13, <2>2 DEF FillOK, result, at
<1>14. CASE pending.action = "hold"
  <2>1. result = Unfilled(fresh) BY <1>14 DEF Fill, result, fresh, Unfilled
  <2>2. OneSide(fresh) BY <1>3 DEF OneSide
  <2>3. FillKeeps(result, fresh, at) /\ result.filled = FALSE BY <1>4, <2>1, <2>2, UnfilledKeeps
  <2>. QED BY <1>9, <1>14, <2>3 DEF FillOK, result, at
<1>. QED BY <1>6, <1>10, <1>11, <1>12, <1>13, <1>14 DEF OrderOK, Actions
\* A point put at the end of the curve is its last.
LEMMA PutIs ==
  ASSUME NEW curve, NEW at \in Int, NEW equity, DOMAIN curve \subseteq Int
  PROVE  LET more == Put(curve, at, equity)
         IN /\ DOMAIN more = DOMAIN curve \cup {at}
            /\ more # <<>>
            /\ (\A t \in DOMAIN curve : t <= at) => more[Max(DOMAIN more)] = equity
<1> DEFINE more == Put(curve, at, equity)
<1>1. DOMAIN more = DOMAIN curve \cup {at} /\ more[at] = equity BY DEF Put
<1> HIDE DEF more
<1>2. more # <<>>
  <2>1. DOMAIN <<>> = {} OBVIOUS
  <2>. QED BY <1>1, <2>1
<1>3. ASSUME \A t \in DOMAIN curve : t <= at PROVE Max(DOMAIN more) = at
  <2>1. at \in DOMAIN more /\ \A t \in DOMAIN more : at >= t BY <1>1, <1>3
  <2>2. \A x \in DOMAIN more : (\A t \in DOMAIN more : x >= t) => x = at BY <1>1, <2>1
  <2>. QED BY <2>1, <2>2 DEF Max
<1>. QED BY <1>1, <1>2, <1>3 DEF more

LEMMA InitialBook ==
  ASSUME LotAssumption, NEW now \in Int PROVE Book(EmptyLedger, now) /\ OneSide(EmptyLedger)
<1> DEFINE l == EmptyLedger
<1>1. Capital \in Nat BY LotParameters
<1>2. /\ l \in Ledger /\ l.cash = Capital /\ l.lots = <<>> /\ l.trades = <<>> /\ l.realized = 0
      /\ l.bought = 0 /\ l.sold = 0 /\ l.last_sold = None /\ l.buys_this_bar = 0
  BY <1>1 DEF EmptyLedger, Ledger
<1> HIDE DEF l
<1>3. Costs(<<>>) = <<>> /\ Qtys(<<>>) = <<>> /\ Profits(<<>>) = <<>>
  BY DEF Costs, Qtys, Profits
<1>4. Adds(l) BY <1>1, <1>2, <1>3, TotalEmpty DEF Adds
<1>5. Queued(l.lots, now) /\ Behind(l.lots, l.last_sold, now) /\ Dated(l.trades)
  BY <1>2 DEF Queued, Behind, Dated
<1>6. OneSide(l) BY <1>2 DEF OneSide
<1>. QED BY <1>2, <1>4, <1>5, <1>6 DEF Book, l

LEMMA RunInit == ASSUME LotAssumption, RunAssumption, Init PROVE RunOK /\ CurveOK
<1>1. 0 \in 0..LastBar /\ OpenTime(0) = 0 /\ Seen = -1 BY Times DEF Init, Seen
<1>2. Book(ledger, Seen) /\ OneSide(ledger) BY <1>1, InitialBook DEF Init
<1>3. OrderOK(pending) /\ pending.action = "hold" BY OrdersAre DEF Init
<1>4. ledger.lots = <<>> /\ ledger.trades = <<>> BY DEF Init, EmptyLedger
<1>5. DOMAIN points = {} BY DEF Init
<1>6. prices \in Seq(Nat) BY DEF Init
<1>7. RunOK BY <1>1, <1>2, <1>3, <1>4, <1>6 DEF RunOK, Init
<1>8. CurveOK BY <1>4, <1>5 DEF CurveOK, Init
<1>. QED BY <1>7, <1>8

\* The open of a bar: what the fill leaves passes the ledger's checks.
LEMMA OpenIs ==
  ASSUME LotAssumption, RunAssumption, RunOK, NEW price \in OpenPrices, OpenBar(price)
  PROVE  LET result == Fill(price)
         IN /\ phase = "open" /\ FillOK(result)
            /\ ledger' = result.ledger /\ phase' = "close" /\ bar' = bar
            /\ Booked(result, result.ledger, price)
            /\ Book(result.ledger, OpenTime(bar)) /\ OneSide(result.ledger)
            /\ result.ledger.lots = <<>> =>
                 EquityByCash(result.ledger, price) = result.ledger.cash
<1> DEFINE result == Fill(price)
           l == result.ledger
<1>1. phase = "open" /\ Filled(result, price) BY DEF OpenBar
<1>2. FillOK(result) BY <1>1, FillIs
<1> HIDE DEF result
<1>3. Book(l, OpenTime(bar)) /\ OneSide(l) BY <1>2 DEF FillOK, FillKeeps
<1>4. price \in Nat /\ OpenTime(bar) \in Int
  <2>1. bar \in Nat BY DEF RunOK
  <2>2. OpenTime(bar) \in Nat BY <2>1, Times
  <2>. QED BY <2>2 DEF RunAssumption
<1>5. Checked(l, price) = l BY <1>3, <1>4, ChecksPass
<1>6. l.raised = FALSE /\ l \in Ledger
  <2>1. l \in Ledger BY <1>3 DEF Book
  <2>. QED BY <2>1, BookTypes
<1>7. Booked(result, l, price) BY <1>1, <1>5 DEF Filled
<1>8. ledger' = l /\ phase' = "close" /\ bar' = bar BY <1>6, <1>7 DEF Booked
<1>9. ASSUME l.lots = <<>> PROVE EquityByCash(l, price) = l.cash
  <2>1. Holding(l) = 0 BY <1>6, <1>9, HoldingIs
  <2>2. l.cash \in Nat BY <1>6, BookTypes
  <2>3. 0 * price = 0 BY <1>4
  <2>. QED BY <2>1, <2>2, <2>3 DEF EquityByCash
<1>. QED BY <1>1, <1>2, <1>3, <1>7, <1>8, <1>9 DEF result

LEMMA RunOpens ==
  ASSUME LotAssumption, RunAssumption, RunOK, CurveOK, NEW price \in OpenPrices, OpenBar(price)
  PROVE  RunOK' /\ CurveOK'
<1> DEFINE result == Fill(price)
           l == result.ledger
           at == OpenTime(bar)
<1>1. /\ phase = "open" /\ FillOK(result) /\ ledger' = l /\ phase' = "close" /\ bar' = bar
      /\ Booked(result, l, price) /\ Book(l, at) /\ OneSide(l)
      /\ l.lots = <<>> => EquityByCash(l, price) = l.cash
  BY OpenIs
<1> HIDE DEF result
<1>2. /\ FillKeeps(result, ledger, at)
      /\ result.filled => at > 0 /\ at < EndAt
  BY <1>1 DEF FillOK
<1>3. /\ result.filled \in BOOLEAN
      /\ ~result.filled => /\ l.lots = ledger.lots /\ l.cash = ledger.cash
                           /\ l.trades = ledger.trades
  BY <1>2 DEF FillKeeps
<1>4. at \in Int /\ EndAt \in Int
  <2>1. bar \in Nat BY DEF RunOK
  <2>2. at \in Nat /\ EndAt \in Nat BY <2>1, Times
  <2> HIDE DEF at
  <2>. QED BY <2>2
<1>5. /\ UNCHANGED <<pending, reason, prices>>
      /\ fillTimes' = IF result.filled THEN fillTimes \cup {at} ELSE fillTimes
      /\ points' = IF result.filled /\ at > 0
                   THEN Put(points, at, EquityByCash(l, price)) ELSE points
  BY <1>1 DEF Booked
<1> HIDE DEF l
<1>6. RunOK'
  <2>1. Seen' = at BY <1>1 DEF Seen, OpenTime
  <2>2. Book(ledger', Seen') /\ OneSide(ledger') BY <1>1, <2>1
  <2>3. ledger'.lots # <<>> => EndAt > 0
    <3>1. CASE result.filled BY <1>2, <1>4, <3>1
    <3>2. CASE ~result.filled BY <1>1, <1>3, <3>2 DEF RunOK
    <3>. QED BY <3>1, <3>2
  <2>. QED BY <1>1, <1>5, <2>2, <2>3 DEF RunOK, OrderOK
<1>7. CurveOK'
  <2>0. /\ fillTimes \subseteq DOMAIN points /\ DOMAIN points \subseteq 1..EndAt
        /\ \A t \in DOMAIN points : t <= at
        /\ points # <<>> /\ ledger.lots = <<>> => points[Max(DOMAIN points)] = ledger.cash
        /\ ledger.trades # <<>> => points # <<>>
    BY <1>1 DEF CurveOK
  <2>1. CASE ~result.filled
    <3>1. /\ fillTimes' = fillTimes /\ points' = points /\ ledger'.lots = ledger.lots
          /\ ledger'.cash = ledger.cash /\ ledger'.trades = ledger.trades
      BY <1>1, <1>3, <1>5, <2>1
    <3>2. OpenTime(bar)' = at BY <1>1 DEF OpenTime
    <3> HIDE DEF at
    <3>. QED BY <1>1, <2>0, <3>1, <3>2 DEF CurveOK
  <2>2. CASE result.filled
    <3> DEFINE more == Put(points, at, EquityByCash(l, price))
    <3>1. fillTimes' = fillTimes \cup {at} /\ points' = more BY <1>2, <1>5, <2>2
    <3>2. DOMAIN points \subseteq Int BY <1>4, <2>0
    <3>3. /\ DOMAIN more = DOMAIN points \cup {at} /\ more # <<>>
          /\ more[Max(DOMAIN more)] = EquityByCash(l, price)
      <4> HIDE DEF at
      <4>. QED BY <1>4, <2>0, <3>2, PutIs
    <3> HIDE DEF more
    <3>4. OpenTime(bar)' = at BY <1>1 DEF OpenTime
    <3>5. at \in 1..EndAt BY <1>2, <1>4, <2>2
    <3>6. \A t \in DOMAIN more : t <= at BY <1>4, <2>0, <3>3
    <3> HIDE DEF at
    <3>. QED BY <1>1, <2>0, <3>1, <3>3, <3>4, <3>5, <3>6 DEF CurveOK
  <2>. QED BY <1>3, <2>1, <2>2
<1>. QED BY <1>6, <1>7

LEMMA RunCloses ==
  ASSUME LotAssumption, RunAssumption, RunOK, CurveOK,
         NEW price \in ClosePrices, NEW signal \in Signals \cup {Hold}, CloseBar(price, signal)
  PROVE  /\ RunOK' /\ CurveOK' /\ ledger' = ledger /\ phase = "close"
         /\ phase' = IF bar < LastBar THEN "open" ELSE "end"
<1>1. /\ phase = "close" /\ bar \in 0..LastBar /\ LastBar \in Nat /\ bar \in Nat
      /\ OneSide(ledger) /\ OrderOK(pending) /\ prices \in Seq(Nat)
      /\ reason \in {"none", "time_expiry"}
  BY Times DEF CloseBar, RunOK
<1> DEFINE at == OpenTime(bar)
           close == CloseTime(bar)
<1>2. /\ at \in Int /\ close \in Int /\ close = OpenTime(bar + 1) /\ at < close /\ close > 0
      /\ EndAt \in Int /\ 0 <= at
  <2>1. bar + 1 \in Nat BY <1>1
  <2>2. /\ at \in Nat /\ close = OpenTime(bar + 1) /\ at < OpenTime(bar + 1)
        /\ OpenTime(bar + 1) \in Nat /\ EndAt \in Nat
    BY <1>1, <2>1, Times
  <2> HIDE DEF at, close
  <2>. QED BY <2>2
<1>3. Book(ledger, at) BY <1>1 DEF RunOK, Seen
<1>4. price \in Nat BY DEF RunAssumption
<1>5. Checked(ledger, price) = ledger
  <2> HIDE DEF at
  <2>. QED BY <1>1, <1>2, <1>3, <1>4, ChecksPass
<1>6. ledger.raised = FALSE
  <2>1. ledger \in Ledger BY <1>3 DEF Book
  <2>. QED BY <2>1, BookTypes
<1>7. /\ ledger' = ledger /\ phase' = IF bar < LastBar THEN "open" ELSE "end"
      /\ bar' = IF bar < LastBar THEN bar + 1 ELSE bar
      /\ prices' = Append(prices, price) /\ UNCHANGED fillTimes
      /\ pending' = Decide(signal).pending /\ reason' = Decide(signal).reason
      /\ points' = IF Marks THEN Put(points, close, EquityByCash(ledger, price)) ELSE points
  BY <1>5, <1>6 DEF CloseBar
<1>8. /\ OrderOK(pending') /\ reason' \in {"none", "time_expiry"}
      /\ pending'.action # "hold" => bar < LastBar /\ close < EndAt
  <2>1. /\ OrderOK(signal) /\ OrderOK(Hold) /\ Hold.action = "hold"
        /\ OrderOK(Signal("sell_all")) /\ Signal("sell_all").action = "sell_all"
    BY OrdersAre
  <2>2. Decides => bar < LastBar /\ close < EndAt
    <3> HIDE DEF close
    <3>. QED BY <1>2 DEF Decides
  <2>3. CASE ~Decides
    <3>1. pending' = Hold /\ reason' = reason BY <1>7, <2>3 DEF Decide
    <3>. QED BY <1>1, <2>1, <3>1
  <2>4. CASE Decides
    <3>1. pending' \in {Signal("sell_all"), Hold, signal} /\ reason' \in {"none", "time_expiry"}
      BY <1>7, <2>4 DEF Decide
    <3> HIDE DEF close
    <3>. QED BY <2>1, <2>2, <2>4, <3>1
  <2>. QED BY <2>3, <2>4
<1>9. RunOK'
  <2>1. CASE bar < LastBar
    <3>1. phase' = "open" /\ bar' = bar + 1 /\ bar' \in 0..LastBar BY <1>1, <1>7, <2>1
    <3>2. Seen' = close - 1
      <4>1. Seen' = OpenTime(bar') - 1 BY <3>1 DEF Seen, OpenTime
      <4>. QED BY <1>2, <3>1, <4>1
    <3> DEFINE before == close - 1
    <3>3. before \in Int /\ at <= before
      <4> HIDE DEF at, close
      <4>. QED BY <1>2
    <3>4. Book(ledger, before)
      <4> HIDE DEF at, before
      <4>. QED BY <1>2, <1>3, <3>3, BookLater
    <3>5. Book(ledger', Seen') BY <1>7, <3>2, <3>4
    <3>6. OpenTime(bar)' = close
      <4>1. OpenTime(bar)' = OpenTime(bar') BY DEF OpenTime
      <4>. QED BY <1>2, <3>1, <4>1
    <3>7. prices' \in Seq(Nat) BY <1>1, <1>4, <1>7
    <3> HIDE DEF close, before
    <3>. QED BY <1>1, <1>2, <1>7, <1>8, <3>1, <3>5, <3>6, <3>7 DEF RunOK, OrderOK, OneSide
  <2>2. CASE ~(bar < LastBar)
    <3>1. phase' = "end" /\ bar' = bar /\ bar' \in 0..LastBar /\ bar' = LastBar BY <1>1, <1>7, <2>2
    <3>2. Seen' = at BY <3>1 DEF Seen, OpenTime
    <3>3. Book(ledger', Seen') BY <1>3, <1>7, <3>2
    <3>4. prices' \in Seq(Nat) /\ prices' # <<>> BY <1>1, <1>4, <1>7
    <3>. QED BY <1>1, <1>7, <1>8, <3>1, <3>3, <3>4 DEF RunOK, OrderOK, OneSide
  <2>. QED BY <2>1, <2>2
<1>10. CurveOK'
  <2>0. /\ fillTimes \subseteq DOMAIN points /\ DOMAIN points \subseteq 1..EndAt
        /\ \A t \in DOMAIN points : t <= at
        /\ points # <<>> /\ ledger.lots = <<>> => points[Max(DOMAIN points)] = ledger.cash
        /\ ledger.trades # <<>> => points # <<>>
    BY <1>1 DEF CurveOK
  <2>1. phase' \in {"open", "close"} => OpenTime(bar)' = close
    <3>1. ASSUME phase' \in {"open", "close"} PROVE OpenTime(bar)' = close
      <4>1. bar' = bar + 1 BY <1>7, <3>1
      <4>2. OpenTime(bar)' = OpenTime(bar') BY DEF OpenTime
      <4>. QED BY <1>2, <4>1, <4>2
    <3>. QED BY <3>1
  <2>2. CASE ~Marks
    <3>1. points' = points BY <1>7, <2>2
    <3>2. \A t \in DOMAIN points : t \in Int BY <1>2, <2>0
    <3>3. \A t \in DOMAIN points : t <= close
      <4> HIDE DEF at, close
      <4>. QED BY <1>2, <2>0, <3>2
    <3> HIDE DEF at, close
    <3>. QED BY <1>7, <2>0, <2>1, <3>1, <3>3 DEF CurveOK
  <2>3. CASE Marks
    <3> DEFINE more == Put(points, close, EquityByCash(ledger, price))
    <3>1. points' = more /\ ledger.lots # <<>> /\ close < EndAt BY <1>7, <2>3 DEF Marks
    <3>2. DOMAIN points \subseteq Int BY <1>2, <2>0
    <3>3. DOMAIN more = DOMAIN points \cup {close} /\ more # <<>>
      <4> HIDE DEF at, close
      <4>. QED BY <1>2, <3>2, PutIs
    <3> HIDE DEF more
    <3>4. close \in 1..EndAt
      <4> HIDE DEF close
      <4>. QED BY <1>2, <3>1
    <3>5. \A t \in DOMAIN more : t <= close
      <4> HIDE DEF at, close
      <4>. QED BY <1>2, <2>0, <3>2, <3>3
    <3> HIDE DEF at, close
    <3>. QED BY <1>7, <2>0, <2>1, <3>1, <3>3, <3>4, <3>5 DEF CurveOK
  <2>. QED BY <2>2, <2>3
<1>. QED BY <1>1, <1>7, <1>9, <1>10

LEMMA RunFinishes ==
  ASSUME LotAssumption, RunAssumption, RunOK, CurveOK, Finish
  PROVE  RunOK' /\ CurveOK' /\ phase = "end" /\ phase' = "done"
<1>1. /\ phase = "end" /\ bar \in 0..LastBar /\ bar = LastBar /\ bar \in Nat
      /\ OneSide(ledger) /\ prices \in Seq(Nat) /\ prices # <<>>
      /\ UNCHANGED <<bar, pending, reason, prices>>
  BY Times DEF Finish, RunOK, history
<1> DEFINE at == OpenTime(bar)
<1>2. at \in Int /\ EndAt \in Nat /\ EndAt \in Int
  <2>1. at \in Nat /\ EndAt \in Nat BY <1>1, Times
  <2>. QED BY <2>1
<1>3. Book(ledger, at) BY <1>1 DEF RunOK, Seen
<1>4. ledger \in Ledger BY <1>3 DEF Book
<1>5. /\ fillTimes \subseteq DOMAIN points /\ DOMAIN points \subseteq 1..EndAt
      /\ points # <<>> /\ ledger.lots = <<>> => points[Max(DOMAIN points)] = ledger.cash
      /\ ledger.trades # <<>> => points # <<>>
  BY DEF CurveOK
<1>6. CASE ledger.lots = <<>>
  <2>1. phase' = "done" /\ UNCHANGED <<ledger, points, fillTimes>> BY <1>6 DEF Finish
  <2>2. Seen' = at BY <1>1, <2>1 DEF Seen, OpenTime
  <2>3. Book(ledger', Seen') BY <1>3, <2>1, <2>2
  <2>4. RunOK' BY <1>1, <1>6, <2>1, <2>3 DEF RunOK, OrderOK, OneSide
  <2>5. CurveOK' BY <1>5, <2>1 DEF CurveOK
  <2>. QED BY <1>1, <2>1, <2>4, <2>5
<1>7. CASE ledger.lots # <<>>
  <2> DEFINE price == Last(prices)
             h == Holding(ledger)
             m == SellQty(ledger, h, EndAt, price, "end_of_data")
  <2>1. price \in Nat
    <3>1. Len(prices) \in 1..Len(prices) BY <1>1
    <3>. QED BY <1>1, <3>1 DEF Last
  <2>2. h \in Nat /\ h <= Holding(ledger) BY <1>4, HoldingIs
  <2>3. "end_of_data" \in TradeKinds /\ Closes(EndAt, "end_of_data") BY DEF TradeKinds, Closes
  <2>4. /\ Book(m, at) /\ m.lots = <<>>
        /\ m.buys_this_bar = ledger.buys_this_bar /\ m.sells_this_bar = ledger.sells_this_bar
    <3> HIDE DEF price, at
    <3>1. h = Holding(ledger) OBVIOUS
    <3> HIDE DEF h
    <3>. QED BY <1>2, <1>3, <2>1, <2>2, <2>3, <3>1, QtySold
  <2>5. SoldOut(Checked(m, price)) BY <1>7 DEF Finish
  <2> HIDE DEF m, price
  <2>6. OneSide(m) BY <1>1, <2>4 DEF OneSide
  <2>7. Checked(m, price) = m
    <3> HIDE DEF at
    <3>. QED BY <1>2, <2>1, <2>4, <2>6, ChecksPass
  <2>8. m \in Ledger BY <2>4 DEF Book
  <2>9. m.raised = FALSE BY <2>8, BookTypes
  <2>10. /\ ledger' = m /\ phase' = "done" /\ points' = Put(points, EndAt, m.cash)
         /\ fillTimes' = fillTimes \cup {EndAt}
    BY <2>4, <2>5, <2>7, <2>9 DEF SoldOut
  <2>11. EndAt > 0 BY <1>7 DEF RunOK
  <2>12. RunOK'
    <3>1. Seen' = at BY <1>1, <2>10 DEF Seen, OpenTime
    <3>2. Book(ledger', Seen') /\ OneSide(ledger') /\ ledger'.lots = <<>>
      BY <2>4, <2>6, <2>10, <3>1
    <3>. QED BY <1>1, <2>10, <2>11, <3>2 DEF RunOK, OrderOK
  <2>13. CurveOK'
    <3> DEFINE more == Put(points, EndAt, m.cash)
    <3>1. DOMAIN points \subseteq Int /\ \A t \in DOMAIN points : t <= EndAt BY <1>2, <1>5
    <3>2. /\ DOMAIN more = DOMAIN points \cup {EndAt} /\ more # <<>>
          /\ more[Max(DOMAIN more)] = m.cash
      BY <1>2, <3>1, PutIs
    <3> HIDE DEF more
    <3>3. points' = more BY <2>10 DEF more
    <3>4. EndAt \in 1..EndAt BY <1>2, <2>11
    <3>. QED BY <1>5, <2>10, <3>2, <3>3, <3>4 DEF CurveOK
  <2>. QED BY <1>1, <2>10, <2>12, <2>13
<1>. QED BY <1>6, <1>7

LEMMA RunStays ==
  ASSUME RunOK, CurveOK, UNCHANGED vars PROVE RunOK' /\ CurveOK'
<1>1. /\ phase' = phase /\ bar' = bar /\ ledger' = ledger /\ pending' = pending
      /\ reason' = reason /\ points' = points /\ fillTimes' = fillTimes /\ prices' = prices
  BY DEF vars, history
<1>2. Seen' = Seen BY <1>1 DEF Seen, OpenTime
<1>3. OpenTime(bar)' = OpenTime(bar) BY <1>1 DEF OpenTime
<1>4. RunOK' BY <1>1, <1>2, <1>3 DEF RunOK, OrderOK
<1>5. CurveOK' BY <1>1, <1>3 DEF CurveOK
<1>. QED BY <1>4, <1>5
-----------------------------------------------------------------------------
(***************************************************************************)
(* The round's clock.                                                      *)
(***************************************************************************)
\* The closes after e, up to n of them, held lots, and the one before did not.
Since(closes, e, n) == (\A j \in (e + 1)..n : closes[j]) /\ (e = 0 \/ ~closes[e])

\* Is a round that started at bar e due at the close of bar b?
DueAt(e, b) ==
  \/ MaxHoldingBars > 0 /\ b - e + 1 >= MaxHoldingBars
  \/ MaxHoldingTime > 0 /\ OpenTime(b + 1) - OpenTime(e) >= MaxHoldingTime
  \/ \E c \in Cutoffs : OpenTime(e) <= c /\ c <= OpenTime(b + 1)

\* Lots held at the close of bar i in a round that started at bar e.
Within(e, i) ==
  /\ MaxHoldingBars > 0 => i - e + 1 <= MaxHoldingBars
  /\ MaxHoldingTime > 0 => OpenTime(i) - OpenTime(e) < MaxHoldingTime
  /\ \A c \in Cutoffs : ~(OpenTime(e) <= c /\ c <= OpenTime(i))

InTime(closes) ==
  \A i \in 0..Len(closes) - 1 : \A e \in 0..i :
    closes[i + 1] /\ Since(closes, e, i + 1) /\ e < i /\ OpenTime(i) < EndAt => Within(e, i)

ClockOK ==
  /\ held \in Seq(BOOLEAN)
  /\ Len(held) = IF phase \in {"open", "close"} THEN bar ELSE LastBar + 1
  /\ entryBar \in 0..LastBar \cup {None}
  /\ phase = "open" /\ bar > 0 => (held[bar] <=> ledger.lots # <<>>)
  /\ TimeLayer /\ phase \in {"open", "close"} =>
       /\ entryBar = None <=> ledger.lots = <<>>
       /\ entryBar # None => entryBar <= bar /\ Since(held, entryBar, bar)
  /\ TimeLayer /\ phase \in {"open", "close"} =>
       (entryBar # None /\ entryBar < bar /\ OpenTime(bar) < EndAt /\ DueAt(entryBar, bar - 1)
          => phase = "open" /\ pending.action = "sell_all")
  /\ TimeLayer => InTime(held)

LEMMA NoneIsNoBar == ASSUME LotAssumption PROVE \A i \in Int : i # None
BY DEF LotAssumption

LEMMA NotDueIsWithin ==
  ASSUME RunAssumption, NEW i \in Nat, i > 0, NEW e \in 0..i, ~DueAt(e, i - 1)
  PROVE  Within(e, i)
<1>1. MaxHoldingBars \in Nat /\ MaxHoldingTime \in Nat BY DEF RunAssumption
<1>2. OpenTime(i) \in Nat /\ OpenTime(e) \in Nat BY Times
<1>3. (i - 1) + 1 = i /\ (i - 1) - e + 1 = i - e OBVIOUS
<1>4. MaxHoldingBars > 0 => i - e + 1 <= MaxHoldingBars BY <1>1, <1>3 DEF DueAt
<1>5. MaxHoldingTime > 0 => OpenTime(i) - OpenTime(e) < MaxHoldingTime
  <2> DEFINE a == OpenTime(i)
             b == OpenTime(e)
  <2>1. MaxHoldingTime > 0 => ~(a - b >= MaxHoldingTime) BY <1>3 DEF DueAt
  <2>2. a \in Nat /\ b \in Nat BY <1>2
  <2> HIDE DEF a, b
  <2>3. MaxHoldingTime > 0 => a - b < MaxHoldingTime BY <1>1, <2>1, <2>2
  <2>. QED BY <2>3 DEF a, b
<1>6. \A c \in Cutoffs : ~(OpenTime(e) <= c /\ c <= OpenTime(i)) BY <1>3 DEF DueAt
<1>. QED BY <1>4, <1>5, <1>6 DEF Within

LEMMA ClockInit == ASSUME LotAssumption, RunAssumption, Init PROVE ClockOK
<1>1. held \in Seq(BOOLEAN) /\ Len(held) = 0 BY DEF Init
<1>2. ledger.lots = <<>> BY DEF Init, EmptyLedger
<1>3. InTime(held) BY <1>1 DEF InTime
<1>. QED BY <1>1, <1>2, <1>3 DEF ClockOK, Init

LEMMA ClockOpens ==
  ASSUME LotAssumption, RunAssumption, RunOK, ClockOK,
         NEW price \in OpenPrices, OpenBar(price)
  PROVE  ClockOK'
<1> DEFINE result == Fill(price)
           l == result.ledger
<1>1. /\ phase = "open" /\ FillOK(result) /\ ledger' = l /\ phase' = "close" /\ bar' = bar
      /\ Booked(result, l, price)
  BY OpenIs
<1> HIDE DEF result
<1>2. /\ result.filled \in BOOLEAN
      /\ ~result.filled => l.lots = ledger.lots
      /\ result.filled => pending.action # "hold"
      /\ result.filled /\ pending.action # "buy" => ledger.lots # <<>>
      /\ pending.action = "sell_all" => (result.filled <=> ledger.lots # <<>>) /\ l.lots = <<>>
  <2>1. pending.action \in Actions BY DEF RunOK, OrderOK
  <2>2. FillKeeps(result, ledger, OpenTime(bar)) BY <1>1 DEF FillOK
  <2>3. result.filled \in BOOLEAN /\ (~result.filled => l.lots = ledger.lots)
    BY <2>2 DEF FillKeeps
  <2>4. pending.action \in {"hold", "buy", "sell", "sell_lot", "sell_all"} BY <2>1 DEF Actions
  <2>. QED BY <1>1, <2>3, <2>4 DEF FillOK
<1>3. bar \in 0..LastBar /\ bar \in Int /\ bar # None
  <2>1. LastBar \in Nat /\ bar \in 0..LastBar BY Times DEF RunOK
  <2>. QED BY <2>1, NoneIsNoBar
<1>4. /\ held' = held /\ pending' = pending /\ entryBar' = RoundStart(result)
  BY <1>1 DEF Booked
<1>5. /\ held \in Seq(BOOLEAN) /\ Len(held) = bar /\ entryBar \in 0..LastBar \cup {None}
      /\ bar > 0 => (held[bar] <=> ledger.lots # <<>>)
      /\ TimeLayer => (entryBar = None <=> ledger.lots = <<>>)
      /\ TimeLayer /\ entryBar # None => entryBar <= bar /\ Since(held, entryBar, bar)
      /\ TimeLayer /\ entryBar # None /\ entryBar < bar /\ OpenTime(bar) < EndAt
           /\ DueAt(entryBar, bar - 1) => pending.action = "sell_all"
      /\ TimeLayer => InTime(held)
  BY <1>1 DEF ClockOK
<1>6. /\ RoundStart(result) \in 0..LastBar \cup {None}
  BY <1>3, <1>5 DEF RoundStart
<1>7. ASSUME TimeLayer
      PROVE  /\ RoundStart(result) = None <=> l.lots = <<>>
             /\ RoundStart(result) # None =>
                  RoundStart(result) <= bar /\ Since(held, RoundStart(result), bar)
             /\ ~(RoundStart(result) # None /\ RoundStart(result) < bar /\ OpenTime(bar) < EndAt
                  /\ DueAt(RoundStart(result), bar - 1))
  <2>1. CASE ~result.filled
    <3>1. RoundStart(result) = entryBar /\ l.lots = ledger.lots BY <1>2, <2>1 DEF RoundStart
    <3>2. pending.action = "sell_all" => entryBar = None BY <1>2, <1>5, <1>7, <2>1
    <3>. QED BY <1>5, <1>7, <3>1, <3>2
  <2>2. CASE result.filled /\ l.lots = <<>>
    <3>1. RoundStart(result) = None BY <1>7, <2>2 DEF RoundStart
    <3>. QED BY <2>2, <3>1
  <2>3. CASE result.filled /\ l.lots # <<>> /\ pending.action = "buy" /\ ledger.lots = <<>>
    <3>1. RoundStart(result) = bar BY <1>7, <2>3 DEF RoundStart
    <3>2. Since(held, bar, bar) BY <1>3, <1>5, <2>3 DEF Since
    <3>. QED BY <1>3, <2>3, <3>1, <3>2
  <2>4. CASE result.filled /\ l.lots # <<>> /\ ~(pending.action = "buy" /\ ledger.lots = <<>>)
    <3>1. RoundStart(result) = entryBar BY <1>7, <2>4 DEF RoundStart
    <3>2. ledger.lots # <<>> BY <1>2, <2>4
    <3>3. pending.action # "sell_all" BY <1>2, <2>4
    <3>. QED BY <1>5, <1>7, <2>4, <3>1, <3>2, <3>3
  <2>. QED BY <1>2, <2>1, <2>2, <2>3, <2>4
<1> DEFINE start == RoundStart(result)
<1> HIDE DEF start
<1>8. OpenTime(bar)' = OpenTime(bar) BY <1>1 DEF OpenTime
<1>9. /\ start \in 0..LastBar \cup {None} /\ entryBar' = start
      /\ TimeLayer => /\ start = None <=> l.lots = <<>>
                      /\ start # None => start <= bar /\ Since(held, start, bar)
                      /\ ~(start # None /\ start < bar /\ OpenTime(bar) < EndAt
                           /\ DueAt(start, bar - 1))
  BY <1>4, <1>6, <1>7 DEF start
<1>10. DueAt(entryBar, bar - 1)' <=> DueAt(start, bar - 1) BY <1>1, <1>9 DEF DueAt, OpenTime
<1>11. Since(held, entryBar, bar)' <=> Since(held, start, bar) BY <1>1, <1>4, <1>9 DEF Since
<1>12. InTime(held)' <=> InTime(held) BY <1>4 DEF InTime, Since, Within, OpenTime
<1>. QED BY <1>1, <1>4, <1>5, <1>8, <1>9, <1>10, <1>11, <1>12 DEF ClockOK

\* A history of closes in time stays so when a round within its limits goes on.
LEMMA InTimeGrows ==
  ASSUME RunAssumption, NEW closes \in Seq(BOOLEAN), InTime(closes), NEW more \in BOOLEAN,
         \A e \in 0..Len(closes) :
           more /\ e < Len(closes) /\ OpenTime(Len(closes)) < EndAt /\ Since(closes, e, Len(closes))
             => Within(e, Len(closes))
  PROVE  InTime(Append(closes, more))
<1> DEFINE n == Len(closes)
           later == Append(closes, more)
<1>1. /\ n \in Nat /\ Len(later) = n + 1 /\ later[n + 1] = more
      /\ \A j \in 1..n : later[j] = closes[j]
  OBVIOUS
<1> HIDE DEF later
<1>2. ASSUME NEW i \in 0..n, NEW e \in 0..i, later[i + 1], Since(later, e, i + 1), e < i,
             OpenTime(i) < EndAt
      PROVE  Within(e, i)
  <2>1. i \in Int /\ e \in Int /\ 0 <= e /\ e < i /\ i <= n BY <1>1, <1>2
  <2>2. (e = 0 \/ ~closes[e])
    <3>1. e # 0 => e \in 1..n BY <1>1, <2>1
    <3>. QED BY <1>1, <1>2, <3>1 DEF Since
  <2>3. CASE i < n
    <3>1. i + 1 \in 1..n /\ i \in 0..(n - 1) BY <1>1, <2>1, <2>3
    <3>2. \A j \in (e + 1)..(i + 1) : closes[j]
      <4>1. \A j \in (e + 1)..(i + 1) : j \in 1..n BY <1>1, <2>1, <2>3
      <4>. QED BY <1>1, <1>2, <4>1 DEF Since
    <3>3. Since(closes, e, i + 1) /\ closes[i + 1] BY <1>1, <1>2, <2>2, <3>1, <3>2 DEF Since
    <3>. QED BY <1>2, <3>1, <3>3 DEF InTime
  <2>4. CASE i = n
    <3>1. \A j \in (e + 1)..n : closes[j]
      <4>1. \A j \in (e + 1)..n : j \in 1..n /\ j \in (e + 1)..(i + 1) BY <1>1, <2>1, <2>4
      <4>. QED BY <1>1, <1>2, <4>1 DEF Since
    <3>2. Since(closes, e, n) BY <2>2, <3>1 DEF Since
    <3>3. more BY <1>1, <1>2, <2>4
    <3>4. e \in 0..n /\ e < n BY <2>1, <2>4
    <3>. QED BY <1>2, <2>4, <3>2, <3>3, <3>4
  <2>. QED BY <1>1, <2>1, <2>3, <2>4
<1>3. 0..(Len(later) - 1) = 0..n BY <1>1
<1>. QED BY <1>2, <1>3 DEF InTime, later

\* A round has one first bar.
LEMMA OneStart ==
  ASSUME NEW closes, NEW n \in Nat, NEW e \in 0..n, NEW f \in 0..n,
         Since(closes, e, n), Since(closes, f, n)
  PROVE  e = f
<1>1. ASSUME NEW a \in 0..n, NEW b \in 0..n, Since(closes, a, n), Since(closes, b, n), a < b
      PROVE  FALSE
  <2>1. b \in (a + 1)..n /\ b # 0 BY <1>1
  <2>. QED BY <1>1, <2>1 DEF Since
<1>2. e < f \/ f < e \/ e = f OBVIOUS
<1>. QED BY <1>1, <1>2

LEMMA ClockCloses ==
  ASSUME LotAssumption, RunAssumption, RunOK, CurveOK, ClockOK,
         NEW price \in ClosePrices, NEW signal \in Signals \cup {Hold}, CloseBar(price, signal)
  PROVE  ClockOK'
<1> DEFINE more == ledger.lots # <<>>
<1>1. /\ phase = "close" /\ ledger' = ledger /\ bar \in Nat /\ bar <= LastBar /\ LastBar \in Nat
      /\ phase' = IF bar < LastBar THEN "open" ELSE "end"
  <2>1. bar \in 0..LastBar /\ LastBar \in Nat BY Times DEF RunOK
  <2>2. bar \in Nat /\ bar <= LastBar BY <2>1
  <2>. QED BY <2>1, <2>2, RunCloses
<1>2. /\ bar' = IF bar < LastBar THEN bar + 1 ELSE bar
      /\ held' = Append(held, more) /\ entryBar' = entryBar
      /\ pending' = Decide(signal).pending
  BY DEF CloseBar
<1>3. /\ held \in Seq(BOOLEAN) /\ Len(held) = bar /\ entryBar \in 0..LastBar \cup {None}
      /\ TimeLayer => (entryBar = None <=> ledger.lots = <<>>)
      /\ TimeLayer /\ entryBar # None => entryBar <= bar /\ Since(held, entryBar, bar)
      /\ TimeLayer /\ entryBar # None /\ entryBar < bar /\ OpenTime(bar) < EndAt
           => ~DueAt(entryBar, bar - 1)
      /\ TimeLayer => InTime(held)
  BY <1>1 DEF ClockOK
<1> DEFINE later == Append(held, more)
<1>4. /\ later \in Seq(BOOLEAN) /\ Len(later) = bar + 1 /\ later[bar + 1] = more
      /\ \A j \in 1..bar : later[j] = held[j]
  <2>1. more \in BOOLEAN OBVIOUS
  <2> HIDE DEF more
  <2>. QED BY <1>3, <2>1
<1>5. entryBar # None => entryBar \in Nat BY <1>3
<1>6. ASSUME TimeLayer, entryBar # None PROVE entryBar <= bar + 1 /\ Since(later, entryBar, bar + 1)
  <2>1. entryBar \in Nat /\ entryBar <= bar /\ Since(held, entryBar, bar) /\ more
    BY <1>3, <1>5, <1>6
  <2> HIDE DEF later, more
  <2>2. \A j \in (entryBar + 1)..(bar + 1) : later[j]
    <3>1. ASSUME NEW j \in (entryBar + 1)..(bar + 1) PROVE later[j]
      <4>1. CASE j = bar + 1 BY <1>4, <2>1, <4>1
      <4>2. CASE j # bar + 1
        <5>1. j \in (entryBar + 1)..bar /\ j \in 1..bar BY <1>1, <2>1, <4>2
        <5>. QED BY <1>4, <2>1, <5>1 DEF Since
      <4>. QED BY <4>1, <4>2
    <3>. QED BY <3>1
  <2>3. entryBar = 0 \/ ~later[entryBar]
    <3>1. entryBar # 0 => entryBar \in 1..bar BY <1>1, <2>1
    <3>. QED BY <1>4, <2>1, <3>1 DEF Since
  <2>4. entryBar <= bar + 1 BY <1>1, <2>1
  <2>. QED BY <2>2, <2>3, <2>4 DEF Since
<1>7. TimeLayer => InTime(later)
  <2>1. SUFFICES ASSUME TimeLayer PROVE InTime(later) OBVIOUS
  <2>2. ASSUME NEW e \in 0..bar, more, e < bar, OpenTime(bar) < EndAt, Since(held, e, bar)
        PROVE  Within(e, bar)
    <3>1. entryBar # None /\ entryBar \in Nat /\ entryBar <= bar /\ Since(held, entryBar, bar)
      BY <1>3, <1>5, <2>1, <2>2
    <3>2. entryBar \in 0..bar BY <1>1, <3>1
    <3>3. entryBar = e BY <1>1, <2>2, <3>1, <3>2, OneStart
    <3>4. ~DueAt(e, bar - 1) BY <1>3, <2>1, <2>2, <3>1, <3>3
    <3>5. bar > 0 BY <1>1, <2>2
    <3>. QED BY <1>1, <3>4, <3>5, NotDueIsWithin
  <2>3. more \in BOOLEAN OBVIOUS
  <2>4. \A e \in 0..Len(held) :
          more /\ e < Len(held) /\ OpenTime(Len(held)) < EndAt /\ Since(held, e, Len(held))
            => Within(e, Len(held))
    <3> HIDE DEF more
    <3>. QED BY <1>3, <2>2
  <2> HIDE DEF more
  <2>. QED BY <1>3, <2>1, <2>3, <2>4, InTimeGrows
<1>8. ASSUME TimeLayer, bar < LastBar, entryBar # None, OpenTime(bar + 1) < EndAt,
             DueAt(entryBar, bar)
      PROVE  pending'.action = "sell_all"
  <2>1. Decides BY <1>8 DEF Decides
  <2>2. CloseTime(bar) = OpenTime(bar + 1) BY DEF CloseTime, OpenTime
  <2>3. ExpiryDue BY <1>8, <2>2 DEF ExpiryDue, DueAt
  <2>4. pending' = Signal("sell_all") BY <1>2, <2>1, <2>3 DEF Decide
  <2>. QED BY <2>4, OrdersAre
<1> HIDE DEF later
<1>9. held' = later /\ (InTime(held)' <=> InTime(later))
  <2>1. held' = later BY <1>2 DEF later
  <2>. QED BY <2>1 DEF InTime, Since, Within, OpenTime
<1>10. CASE bar < LastBar
  <2>1. /\ phase' = "open" /\ bar' = bar + 1 /\ (bar + 1) - 1 = bar BY <1>1, <1>2, <1>10
  <2>2. OpenTime(bar)' = OpenTime(bar + 1) BY <2>1 DEF OpenTime
  <2>3. Since(held, entryBar, bar)' <=> Since(later, entryBar, bar + 1)
    BY <1>2, <1>9, <2>1 DEF Since
  <2>4. DueAt(entryBar, bar - 1)' <=> DueAt(entryBar, bar)
    <3>1. bar' - 1 = bar BY <2>1
    <3>. QED BY <1>2, <3>1 DEF DueAt, OpenTime
  <2>5. held'[bar'] <=> ledger'.lots # <<>> BY <1>1, <1>4, <1>9, <2>1
  <2>6. TimeLayer => /\ entryBar' = None <=> ledger'.lots = <<>>
                     /\ entryBar' # None => entryBar' <= bar' /\ Since(held, entryBar, bar)'
    <3> HIDE DEF more
    <3>. QED BY <1>1, <1>2, <1>3, <1>6, <2>1, <2>3
  <2>7. TimeLayer =>
          (entryBar' # None /\ entryBar' < bar' /\ OpenTime(bar)' < EndAt
             /\ DueAt(entryBar, bar - 1)' => phase' = "open" /\ pending'.action = "sell_all")
    BY <1>2, <1>8, <1>10, <2>1, <2>2, <2>4
  <2> HIDE DEF more
  <2>. QED BY <1>2, <1>3, <1>4, <1>7, <1>9, <2>1, <2>5, <2>6, <2>7 DEF ClockOK
<1>11. CASE ~(bar < LastBar)
  <2>1. phase' = "end" /\ bar' = bar /\ bar + 1 = LastBar + 1 BY <1>1, <1>2, <1>11
  <2> HIDE DEF more
  <2>. QED BY <1>2, <1>3, <1>4, <1>7, <1>9, <2>1 DEF ClockOK
<1>. QED BY <1>10, <1>11

LEMMA ClockFinishes ==
  ASSUME LotAssumption, RunAssumption, RunOK, CurveOK, ClockOK, Finish PROVE ClockOK'
<1>1. phase = "end" /\ phase' = "done" BY RunFinishes
<1>2. held' = held /\ entryBar' = entryBar BY DEF Finish, history
<1>3. InTime(held)' <=> InTime(held) BY <1>2 DEF InTime, Since, Within, OpenTime
<1>. QED BY <1>1, <1>2, <1>3 DEF ClockOK

LEMMA ClockStays == ASSUME ClockOK, UNCHANGED vars PROVE ClockOK'
<1>1. /\ phase' = phase /\ bar' = bar /\ ledger' = ledger /\ pending' = pending
      /\ entryBar' = entryBar /\ held' = held
  BY DEF vars, history
<1>2. InTime(held)' <=> InTime(held) BY <1>1 DEF InTime, Since, Within, OpenTime
<1>3. OpenTime(bar)' = OpenTime(bar) BY <1>1 DEF OpenTime
<1>4. DueAt(entryBar, bar - 1)' <=> DueAt(entryBar, bar - 1) BY <1>1 DEF DueAt, OpenTime
<1>5. Since(held, entryBar, bar)' <=> Since(held, entryBar, bar) BY <1>1 DEF Since
<1>. QED BY <1>1, <1>2, <1>3, <1>4, <1>5 DEF ClockOK
-----------------------------------------------------------------------------
(***************************************************************************)
(* The theorems of the run.                                                *)
(***************************************************************************)
RunInvariant == RunOK /\ CurveOK /\ ClockOK

LEMMA RunSteps ==
  ASSUME LotAssumption, RunAssumption, RunInvariant, [Next]_vars PROVE RunInvariant'
<1>1. RunOK /\ CurveOK /\ ClockOK BY DEF RunInvariant
<1>2. ASSUME NEW price \in OpenPrices, OpenBar(price) PROVE RunInvariant'
  BY <1>1, <1>2, RunOpens, ClockOpens DEF RunInvariant
<1>3. ASSUME NEW price \in ClosePrices, NEW signal \in Signals \cup {Hold}, CloseBar(price, signal)
      PROVE  RunInvariant'
  BY <1>1, <1>3, RunCloses, ClockCloses DEF RunInvariant
<1>4. CASE Finish BY <1>1, <1>4, RunFinishes, ClockFinishes DEF RunInvariant
<1>5. CASE UNCHANGED vars BY <1>1, <1>5, RunStays, ClockStays DEF RunInvariant
<1>. QED BY <1>2, <1>3, <1>4, <1>5 DEF Next

\* The books of a run, its curve and its round's clock are what they should be,
\* whatever the signals, prices, charges, capital and limits.
THEOREM LotRunInvariance ==
  ASSUME LotAssumption, RunAssumption PROVE Spec => []RunInvariant
<1>1. Init => RunInvariant BY RunInit, ClockInit DEF RunInvariant
<1>2. RunInvariant /\ [Next]_vars => RunInvariant' BY RunSteps
<1>. QED BY <1>1, <1>2, PTL DEF Spec

\* The types of the ledger, of its lots and trades, and of the order pending.
THEOREM LotTypesCorrect ==
  ASSUME LotAssumption, RunAssumption PROVE Spec => []TypeOK
<1>1. ASSUME RunInvariant PROVE TypeOK
  <2>1. Book(ledger, Seen) BY <1>1 DEF RunInvariant, RunOK
  <2>2. ledger \in Ledger BY <2>1 DEF Book
  <2>3. ledger.cash \in Nat /\ ledger.lots \in Seq(Lot) /\ ledger.trades \in Seq(Trade)
    BY <2>2, BookTypes
  <2>4. /\ \A i \in 1..Len(ledger.lots) : ledger.lots[i] \in Lot
        /\ \A i \in 1..Len(ledger.trades) : ledger.trades[i] \in Trade
    BY <2>3
  <2>. QED BY <1>1, <2>3, <2>4 DEF RunInvariant, RunOK, CurveOK, ClockOK, OrderOK, TypeOK
<1>2. RunInvariant => TypeOK BY <1>1
<1>. QED BY <1>2, LotRunInvariance, PTL

\* check_invariants and the assertion of _close_portion never fire: cash and
\* profit agree on the equity, quantities add up, cash is never borrowed, no
\* bar buys and sells, lots leave in their order.
THEOREM LedgerNeverFails ==
  ASSUME LotAssumption, RunAssumption PROVE Spec => []NeverEngineError
<1>1. RunInvariant => NeverEngineError BY DEF RunInvariant, RunOK, NeverEngineError
<1>. QED BY <1>1, LotRunInvariance, PTL

\* The curve of a finished run ends at the cash it leaves, the capital and every
\* trade's profit; a trade closes at end_at exactly when the data's end closed it.
THEOREM CurvesEndRight ==
  ASSUME LotAssumption, RunAssumption PROVE Spec => []CurveEndsAtTheResult
<1>1. ASSUME RunInvariant, phase = "done" PROVE CurveEndsAtTheResult
  <2>1. /\ Book(ledger, Seen) /\ ledger.lots = <<>> BY <1>1 DEF RunInvariant, RunOK
  <2>2. /\ fillTimes \subseteq DOMAIN points
        /\ points # <<>> => points[Max(DOMAIN points)] = ledger.cash
        /\ points = <<>> => ledger.trades = <<>>
    BY <1>1, <2>1 DEF RunInvariant, CurveOK
  <2>3. ledger \in Ledger /\ Adds(ledger) /\ Dated(ledger.trades) BY <2>1 DEF Book
  <2> DEFINE profit == Total(Profits(ledger.trades))
  <2>4. ledger.cash = Capital + profit
    <3>1. Costs(ledger.lots) = <<>> BY <2>1 DEF Costs
    <3>2. ledger.cash + Total(<<>>) = Capital + ledger.realized /\ ledger.realized = profit
      BY <2>3, <3>1 DEF Adds
    <3>3. ledger.cash \in Nat BY <2>3, BookTypes
    <3> HIDE DEF profit
    <3>. QED BY <3>2, <3>3, TotalEmpty
  <2>5. \A i \in 1..Len(ledger.trades) :
          (ledger.trades[i].closed_at = EndAt) <=> (ledger.trades[i].kind = "end_of_data")
    BY <2>3 DEF Dated, Closes
  <2>. QED BY <2>2, <2>4, <2>5 DEF CurveEndsAtTheResult, Profits
<1>2. RunInvariant => CurveEndsAtTheResult BY <1>1 DEF CurveEndsAtTheResult
<1>. QED BY <1>2, LotRunInvariance, PTL

\* A round that holds at a close has a first bar.
LEMMA RoundHasFirst ==
  ASSUME held \in Seq(BOOLEAN), NEW i \in 0..Len(held) - 1, held[i + 1]
  PROVE  RoundFirst(i) \in 0..i /\ Since(held, RoundFirst(i), i + 1)
<1> DEFINE R == {e \in 0..i : \A j \in e..i : held[j + 1]}
<1>1. Len(held) \in Nat /\ i \in Nat /\ i \in R OBVIOUS
<1>2. R \subseteq Nat BY <1>1
<1>3. PICK e \in R : \A k \in R : ~(k < e)
  <2> HIDE DEF R
  <2>1. IsWellFoundedOn(OpToRel(<, Nat), Nat) BY NatLessThanWellFounded
  <2>2. PICK n \in R : \A k \in R : ~(<<k, n>> \in OpToRel(<, Nat))
    BY <1>1, <1>2, <2>1, WFMin
  <2>3. \A k \in R : ~(k < n) BY <1>2, <2>2 DEF OpToRel
  <2>. QED BY <2>3
<1>4. e \in 0..i /\ \A j \in e..i : held[j + 1] BY <1>3
<1>5. e = 0 \/ ~held[e]
  <2>1. SUFFICES ASSUME e # 0, held[e] PROVE FALSE OBVIOUS
  <2>2. e - 1 \in 0..i /\ e - 1 < e BY <1>1, <1>4, <2>1
  <2>3. ASSUME NEW j \in (e - 1)..i PROVE held[j + 1]
    <3>1. CASE j = e - 1
      <4>1. j + 1 = e BY <1>1, <1>4, <3>1
      <4>. QED BY <2>1, <4>1
    <3>2. CASE j # e - 1
      <4>1. j \in e..i BY <1>1, <1>4, <3>2
      <4>. QED BY <1>4, <4>1
    <3>. QED BY <3>1, <3>2
  <2>4. e - 1 \in R BY <2>2, <2>3
  <2> HIDE DEF R
  <2>. QED BY <1>3, <2>2, <2>4
<1>6. /\ RoundFirst(i) \in 0..i /\ \A j \in RoundFirst(i)..i : held[j + 1]
      /\ RoundFirst(i) = 0 \/ ~held[RoundFirst(i)]
  BY <1>4, <1>5 DEF RoundFirst
<1> DEFINE f == RoundFirst(i)
<1> HIDE DEF f
<1>7. f \in 0..i /\ (\A j \in f..i : held[j + 1]) /\ (f = 0 \/ ~held[f]) BY <1>6 DEF f
<1>8. \A j \in (f + 1)..(i + 1) : held[j]
  <2>1. ASSUME NEW j \in (f + 1)..(i + 1) PROVE held[j]
    <3>1. j - 1 \in f..i /\ (j - 1) + 1 = j BY <1>1, <1>7
    <3>2. held[(j - 1) + 1] BY <1>7, <3>1
    <3>. QED BY <3>1, <3>2
  <2>. QED BY <2>1
<1>9. f \in 0..i /\ Since(held, f, i + 1) BY <1>7, <1>8 DEF Since
<1>. QED BY <1>9 DEF f

\* No close holds lots of a round that was due at an earlier close, counting from
\* the round's first fill, whatever was added, sold in part or refused since.
THEOREM RoundsNeverOutlast ==
  ASSUME LotAssumption, RunAssumption PROVE Spec => []RoundsExpire
<1>1. ASSUME RunInvariant PROVE RoundsExpire
  <2>1. held \in Seq(BOOLEAN) /\ (TimeLayer => InTime(held)) BY <1>1 DEF RunInvariant, ClockOK
  <2>2. ASSUME NEW i \in 0..Len(held) - 1, held[i + 1], OpenTime(i) < EndAt, RoundFirst(i) < i
        PROVE  Within(RoundFirst(i), i)
    <3>1. RoundFirst(i) \in 0..i /\ Since(held, RoundFirst(i), i + 1) BY <2>1, <2>2, RoundHasFirst
    <3>2. CASE TimeLayer BY <2>1, <2>2, <3>1, <3>2 DEF InTime
    <3>3. CASE ~TimeLayer
      <4>1. MaxHoldingBars = 0 /\ MaxHoldingTime = 0 /\ Cutoffs = {}
        BY <3>3 DEF RunAssumption
      <4>. QED BY <4>1 DEF Within
    <3>. QED BY <3>2, <3>3
  <2>. QED BY <2>2 DEF RoundsExpire, Within
<1>2. RunInvariant => RoundsExpire BY <1>1
<1>. QED BY <1>2, LotRunInvariance, PTL
-----------------------------------------------------------------------------
(***************************************************************************)
(* The grid.                                                               *)
(***************************************************************************)
GridParameters == LotAssumption /\ RunAssumption /\ GridAssumption

\* A bounded set of numbers that is not empty has a largest.
LEMMA LargestIs ==
  ASSUME NEW top \in Nat, NEW S, S \subseteq 0..top, S # {}
  PROVE  Max(S) \in S /\ \A x \in S : Max(S) >= x
<1> DEFINE B == {n \in Nat : \A x \in S : x <= n}
<1>1. top \in B /\ B \subseteq Nat OBVIOUS
<1>2. PICK m \in B : \A k \in B : ~(k < m)
  <2> HIDE DEF B
  <2>1. IsWellFoundedOn(OpToRel(<, Nat), Nat) BY NatLessThanWellFounded
  <2>2. PICK n \in B : \A k \in B : ~(<<k, n>> \in OpToRel(<, Nat))
    BY <1>1, <2>1, WFMin
  <2>3. \A k \in B : ~(k < n) BY <1>1, <2>2 DEF OpToRel
  <2>. QED BY <2>3
<1>3. m \in Nat /\ \A x \in S : x <= m BY <1>2
<1>4. m \in S
  <2>1. SUFFICES ASSUME m \notin S PROVE FALSE OBVIOUS
  <2>2. PICK x \in S : TRUE OBVIOUS
  <2>3. \A y \in S : y \in Int /\ y <= m /\ y # m BY <1>3, <2>1
  <2>4. \A y \in S : y <= m - 1 BY <1>3, <2>3
  <2>5. 0 <= x BY <2>2
  <2>6. m - 1 \in Nat BY <1>3, <2>2, <2>3, <2>5
  <2>7. m - 1 \in B /\ m - 1 < m BY <1>3, <2>4, <2>6
  <2> HIDE DEF B
  <2>. QED BY <1>2, <2>7
<1>5. \E n \in S : \A x \in S : n >= x
  <2>1. \A x \in S : m >= x
    <3>1. \A x \in S : x \in Int /\ m \in Int BY <1>3
    <3>. QED BY <1>3, <3>1
  <2>. QED BY <1>4, <2>1
<1>. QED BY <1>5 DEF Max

LEMMA GridSize ==
  ASSUME GridParameters
  PROVE  /\ GridCount \in Nat /\ GridCount >= 5 /\ GridCount - 1 \in Nat
         /\ \A i \in 0..GridCount : Lines[i] \in Nat
<1>1. GridCount \in 5..100 /\ Lines \in [0..GridCount -> Nat \ {0}]
  BY Zenon DEF GridParameters, GridAssumption
<1>. QED BY <1>1

LEMMA LevelIs == ASSUME GridParameters, NEW price \in Nat PROVE Level(price) \in -1..GridCount + 1
<1>1. /\ GridCount \in Nat /\ \A i \in 0..GridCount : Lines[i] \in Nat
  BY GridSize
<1> DEFINE S == {i \in 0..GridCount : Lines[i] <= price}
<1>2. CASE price < Lines[0] BY <1>1, <1>2 DEF Level
<1>3. CASE ~(price < Lines[0])
  <2>1. 0 \in S BY <1>1, <1>3
  <2>2. S \subseteq 0..GridCount OBVIOUS
  <2>3. Max(S) \in 0..GridCount
    <3> HIDE DEF S
    <3>1. Max(S) \in S BY <1>1, <2>1, <2>2, LargestIs
    <3>. QED BY <2>2, <3>1
  <2>4. Level(price) = IF price > Lines[GridCount] THEN GridCount + 1 ELSE Max(S)
    BY <1>3 DEF Level
  <2> HIDE DEF S
  <2>. QED BY <1>1, <2>3, <2>4
<1>. QED BY <1>2, <1>3

LEMMA BelowIsBelow ==
  ASSUME GridParameters, NEW price \in Nat, price < Lines[0] PROVE Level(price) = -1
BY DEF Level

\* The template asks for what its signals are.
LEMMA GridSignals ==
  ASSUME GridParameters, NEW lv
  PROVE  /\ GridSignal(lv) \in Signals \cup {Hold}
         /\ GridSignal(lv).action \in {"hold", "buy", "sell_lot", "sell_all"}
         /\ GridSignal(lv).action = "buy" => lv # -1 /\ ~Resets(lv) /\ WantsBuy(lv)
<1>1. Signals = {Signal("buy"), Signal("sell_lot"), [Signal("sell_all") EXCEPT !.kind = "stop_loss"]}
  BY DEF GridParameters, GridAssumption
<1>2. /\ Signal("buy").action = "buy" /\ Signal("sell_lot").action = "sell_lot"
      /\ Hold.action = "hold" /\ [Signal("sell_all") EXCEPT !.kind = "stop_loss"].action = "sell_all"
  BY DEF Signal, Hold
<1>. QED BY <1>1, <1>2 DEF GridSignal

\* Every step of the template is one of the run.
LEMMA GridStep ==
  ASSUME GridParameters, [GridNext]_gridVars PROVE [Next]_vars
<1>1. ASSUME NEW price \in OpenPrices, GridOpen(price) PROVE Next BY <1>1 DEF GridOpen, Next
<1>2. ASSUME NEW price \in ClosePrices, GridClose(price) PROVE Next
  <2>1. CASE bar = 0 BY <1>2, <2>1 DEF GridClose, Next
  <2>2. CASE bar # 0 /\ Asks
    <3>1. CloseBar(price, GridSignal(Level(price))) BY <1>2, <2>2 DEF GridClose
    <3>2. GridSignal(Level(price)) \in Signals \cup {Hold} BY GridSignals
    <3>. QED BY <3>1, <3>2 DEF Next
  <2>3. CASE bar # 0 /\ ~Asks BY <1>2, <2>3 DEF GridClose, Next
  <2>. QED BY <2>1, <2>2, <2>3
<1>3. CASE Finish /\ UNCHANGED memory BY <1>3 DEF Next
<1>4. CASE UNCHANGED gridVars BY <1>4 DEF gridVars
<1>. QED BY <1>1, <1>2, <1>3, <1>4 DEF GridNext

\* The grid template is a signal function of run_scale_in_out.
THEOREM GridIsALotRun == ASSUME GridParameters PROVE GridSpec => Spec
<1>1. GridInit => Init BY DEF GridInit
<1>2. [GridNext]_gridVars => [Next]_vars BY GridStep
<1>. QED BY <1>1, <1>2, PTL DEF GridSpec, Spec

Flat == ledger.lots = <<>>

\* The lots are gone, or are sold at this open.
ToClear ==
  IF phase = "open" THEN pending.action = "sell_all" \/ (Flat /\ pending.action # "buy") ELSE Flat

\* The memory of the template beside the ledger.
MemoryOK ==
  /\ refLevel \in -1..GridCount + 1
  /\ lotLines \in Seq(1..GridCount - 1)
  /\ \A i \in 1..Len(lotLines) - 1 : lotLines[i + 1] = lotLines[i] - 1
  /\ lotLines # <<>> => refLevel = lotLines[Len(lotLines)] - 1
  /\ resetPending \in BOOLEAN
  /\ phase # "done" => Len(lotLines) = Len(ledger.lots)
  /\ pending.action \in {"hold", "buy", "sell_lot", "sell_all"}
  /\ phase = "open" /\ pending.action = "buy" =>
       pendingLine = Lesser(refLevel, GridCount - 1) /\ pendingLine >= 1
  /\ phase \in {"open", "close"} /\ resetPending => ToClear
  /\ phase \in {"open", "close"} /\ bar = 0 => Flat

Below0(price) == Below = "stop_loss" /\ price < Lines[0]

\* No close below the range is followed by one that holds lots.
Cleared ==
  \A i \in 1..Len(prices) - 1 : Below0(prices[i]) /\ OpenTime(i) < EndAt => ~held[i + 1]

\* With the range stop on, no lot outlives the open after a close below the range.
FlatOK ==
  /\ Len(prices) = IF phase \in {"open", "close"} THEN bar ELSE LastBar + 1
  /\ phase \in {"open", "close"} /\ bar > 0 /\ OpenTime(bar) < EndAt /\ Below0(prices[bar])
       => ToClear
  /\ Cleared

GridInvariant == RunInvariant /\ MemoryOK /\ FlatOK

LEMMA GridInits == ASSUME GridParameters, GridInit PROVE GridInvariant
<1>1. RunInvariant BY RunInit, ClockInit DEF GridInit, GridParameters, RunInvariant
<1>2. GridCount \in Nat BY GridSize
<1>3. /\ Flat /\ ledger.lots = <<>> /\ lotLines = <<>> /\ refLevel = 0 /\ resetPending = FALSE
      /\ pending.action = "hold" /\ prices = <<>> /\ bar = 0 /\ phase = "open"
  BY DEF GridInit, Init, EmptyGrid, EmptyLedger, Hold, Signal, Flat
<1>4. lotLines \in Seq(1..GridCount - 1) /\ Len(lotLines) = 0
  <2> DEFINE S == 1..GridCount - 1
  <2> HIDE DEF S
  <2>1. <<>> \in Seq(S) /\ Len(<<>>) = 0 OBVIOUS
  <2>. QED BY <1>3, <2>1 DEF S
<1>5. Len(ledger.lots) = 0 /\ Len(prices) = 0 BY <1>3
<1>6. MemoryOK
  <2>1. refLevel \in -1..GridCount + 1 BY <1>2, <1>3
  <2>2. \A i \in 1..Len(lotLines) - 1 : lotLines[i + 1] = lotLines[i] - 1 BY <1>4
  <2>. QED BY <1>3, <1>4, <1>5, <2>1, <2>2 DEF MemoryOK
<1>7. FlatOK BY <1>3, <1>5 DEF FlatOK, Cleared
<1>. QED BY <1>1, <1>6, <1>7 DEF GridInvariant

\* What a fill does to the lines.
LEMMA LinesFill ==
  ASSUME GridParameters, NEW lines \in Seq(1..GridCount - 1), NEW line \in 1..GridCount - 1,
         \A i \in 1..Len(lines) - 1 : lines[i + 1] = lines[i] - 1,
         lines # <<>> => line = lines[Len(lines)] - 1
  PROVE  LET more == Append(lines, line)
         IN /\ more \in Seq(1..GridCount - 1) /\ Len(more) = Len(lines) + 1 /\ more # <<>>
            /\ \A i \in 1..Len(more) - 1 : more[i + 1] = more[i] - 1
            /\ more[Len(more)] = line
<1> DEFINE more == Append(lines, line)
<1>1. /\ more \in Seq(1..GridCount - 1) /\ Len(more) = Len(lines) + 1 /\ Len(lines) \in Nat
      /\ more[Len(lines) + 1] = line /\ \A i \in 1..Len(lines) : more[i] = lines[i]
      /\ more # <<>>
  <2> DEFINE S == 1..GridCount - 1
  <2> HIDE DEF S
  <2>1. lines \in Seq(S) /\ line \in S BY DEF S
  <2>2. /\ more \in Seq(S) /\ Len(more) = Len(lines) + 1 /\ Len(lines) \in Nat
        /\ more[Len(lines) + 1] = line /\ \A i \in 1..Len(lines) : more[i] = lines[i]
    BY <2>1, AppendIs
  <2>3. more # <<>> BY <2>1
  <2>. QED BY <2>2, <2>3 DEF S
<1> HIDE DEF more
<1>2. ASSUME NEW i \in 1..Len(more) - 1 PROVE more[i + 1] = more[i] - 1
  <2>1. i \in 1..Len(lines) BY <1>1
  <2>2. CASE i = Len(lines)
    <3>1. lines # <<>> BY <2>1
    <3>. QED BY <1>1, <2>1, <2>2, <3>1
  <2>3. CASE i # Len(lines)
    <3>1. i \in 1..Len(lines) - 1 /\ i + 1 \in 1..Len(lines) BY <1>1, <2>1, <2>3
    <3>. QED BY <1>1, <2>1, <3>1
  <2>. QED BY <2>2, <2>3
<1>. QED BY <1>1, <1>2 DEF more

LEMMA LinesDrop ==
  ASSUME GridParameters, NEW lines \in Seq(1..GridCount - 1), lines # <<>>,
         \A i \in 1..Len(lines) - 1 : lines[i + 1] = lines[i] - 1
  PROVE  LET less == Front(lines)
         IN /\ less \in Seq(1..GridCount - 1) /\ Len(less) = Len(lines) - 1
            /\ \A i \in 1..Len(less) - 1 : less[i + 1] = less[i] - 1
            /\ Last(lines) \in 1..GridCount - 1
            /\ less # <<>> => Last(lines) = less[Len(less)] - 1
<1> DEFINE less == Front(lines)
           top == GridCount - 1
           S == 1..top
<1>1. Len(lines) \in Nat /\ Len(lines) > 0 /\ lines \in Seq(S) OBVIOUS
<1>2. /\ less \in Seq(S) /\ Len(less) = Len(lines) - 1
      /\ \A i \in 1..Len(lines) - 1 : less[i] = lines[i]
  <2> HIDE DEF S
  <2>1. Len(lines) \in Nat /\ Len(lines) > 0 BY <1>1
  <2>2. less = SubSeq(lines, 1, Len(lines) - 1) BY DEF Front
  <2>3. SubSeq(lines, 1, Len(lines) - 1) = [i \in 1..Len(lines) - 1 |-> lines[i]]
    BY <1>1, <2>1
  <2>4. [i \in 1..Len(lines) - 1 |-> lines[i]] \in Seq(S)
    <3>1. \A i \in 1..Len(lines) - 1 : lines[i] \in S BY <1>1, <2>1
    <3>. QED BY <2>1, <3>1
  <2>5. Len([i \in 1..Len(lines) - 1 |-> lines[i]]) = Len(lines) - 1 BY <2>1
  <2>. QED BY <2>2, <2>3, <2>4, <2>5
<1> HIDE DEF less
<1>3. Last(lines) \in S /\ Last(lines) = lines[Len(lines)]
  <2> HIDE DEF S
  <2>1. Len(lines) \in 1..Len(lines) BY <1>1
  <2>. QED BY <1>1, <2>1 DEF Last
<1>4. \A i \in 1..Len(less) - 1 : less[i + 1] = less[i] - 1
  <2>1. ASSUME NEW i \in 1..Len(less) - 1 PROVE less[i + 1] = less[i] - 1
    <3>1. i \in 1..Len(lines) - 1 /\ i + 1 \in 1..Len(lines) - 1 BY <1>1, <1>2, <2>1
    <3>. QED BY <1>2, <3>1
  <2>. QED BY <2>1
<1>5. ASSUME less # <<>> PROVE Last(lines) = less[Len(less)] - 1
  <2>1. Len(less) # 0 BY <1>2, <1>5
  <2>2. Len(less) \in 1..Len(lines) - 1 /\ Len(less) + 1 = Len(lines) BY <1>1, <1>2, <2>1
  <2>3. lines[Len(less) + 1] = lines[Len(less)] - 1 BY <2>2
  <2>. QED BY <1>2, <1>3, <2>2, <2>3
<1>. QED BY <1>2, <1>3, <1>4, <1>5 DEF less
\* What a fill does to the memory, by the order filled.
LEMMA FillIsTold ==
  ASSUME GridParameters, NEW filled, NEW price, OnFill(filled, price),
         filled => pending.action # "hold",
         pending.action \in {"hold", "buy", "sell_lot", "sell_all"}
  PROVE  /\ ~filled => UNCHANGED memory
         /\ filled /\ pending.action = "buy" =>
              /\ lotLines' = Append(lotLines, pendingLine)
              /\ refLevel' = pendingLine - 1 /\ resetPending' = resetPending
         /\ filled /\ pending.action = "sell_lot" =>
              /\ lotLines' = Front(lotLines)
              /\ refLevel' = Last(lotLines) /\ resetPending' = resetPending
         /\ filled /\ pending.action = "sell_all" =>
              /\ lotLines' = <<>>
              /\ refLevel' = refLevel \/ refLevel' = Level(price)
              /\ resetPending' = resetPending \/ resetPending' = FALSE
<1>1. CASE ~filled BY <1>1 DEF OnFill
<1>2. CASE filled /\ pending.action = "buy" BY <1>2 DEF OnFill
<1>3. CASE filled /\ pending.action = "sell_lot" BY <1>3 DEF OnFill
<1>4. CASE filled /\ pending.action = "sell_all" BY <1>4 DEF OnFill
<1>. QED BY <1>1, <1>2, <1>3, <1>4

LEMMA GridOpens ==
  ASSUME GridParameters, GridInvariant, NEW price \in OpenPrices, GridOpen(price)
  PROVE  MemoryOK' /\ FlatOK'
<1> DEFINE result == Fill(price)
           l == result.ledger
           top == GridCount - 1
<1>1. LotAssumption /\ RunAssumption /\ RunOK /\ OpenBar(price) /\ OnFill(result.filled, price)
  BY DEF GridParameters, GridInvariant, RunInvariant, GridOpen
<1>2. /\ phase = "open" /\ FillOK(result) /\ ledger' = l /\ phase' = "close" /\ bar' = bar
      /\ Booked(result, l, price)
  BY <1>1, OpenIs
<1> HIDE DEF result
<1>3. pending' = pending /\ prices' = prices /\ held' = held BY <1>2 DEF Booked
<1>4. /\ refLevel \in -1..GridCount + 1 /\ lotLines \in Seq(1..top)
      /\ \A i \in 1..Len(lotLines) - 1 : lotLines[i + 1] = lotLines[i] - 1
      /\ lotLines # <<>> => refLevel = lotLines[Len(lotLines)] - 1
      /\ resetPending \in BOOLEAN /\ Len(lotLines) = Len(ledger.lots)
      /\ pending.action \in {"hold", "buy", "sell_lot", "sell_all"}
      /\ pending.action = "buy" => pendingLine = Lesser(refLevel, top) /\ pendingLine >= 1
      /\ resetPending => ToClear
      /\ bar = 0 => Flat
  BY <1>2 DEF GridInvariant, MemoryOK
<1>5. /\ result.filled \in BOOLEAN
      /\ ~result.filled => l.lots = ledger.lots
      /\ result.filled => OpenTime(bar) > 0 /\ pending.action # "hold"
      /\ pending.action = "buy" /\ result.filled => Len(l.lots) = Len(ledger.lots) + 1
      /\ pending.action = "sell_lot" =>
           /\ result.filled <=> ledger.lots # <<>>
           /\ result.filled => Len(l.lots) = Len(ledger.lots) - 1
      /\ pending.action = "sell_all" =>
           (result.filled <=> ledger.lots # <<>>) /\ l.lots = <<>>
  BY <1>2 DEF FillOK, FillKeeps
<1>6. /\ GridCount \in Nat /\ GridCount >= 5 /\ top \in Nat BY GridSize
<1>7. /\ ~result.filled => UNCHANGED memory
      /\ result.filled /\ pending.action = "buy" =>
           /\ lotLines' = Append(lotLines, pendingLine)
           /\ refLevel' = pendingLine - 1 /\ resetPending' = resetPending
      /\ result.filled /\ pending.action = "sell_lot" =>
           /\ lotLines' = Front(lotLines)
           /\ refLevel' = Last(lotLines) /\ resetPending' = resetPending
      /\ result.filled /\ pending.action = "sell_all" =>
           /\ lotLines' = <<>>
           /\ refLevel' = refLevel \/ refLevel' = Level(price)
           /\ resetPending' = resetPending \/ resetPending' = FALSE
  BY <1>1, <1>4, <1>5, FillIsTold
<1>8. ToClear => l.lots = <<>>
  BY <1>2, <1>4, <1>5 DEF ToClear, Flat
<1>9. bar = 0 => l.lots = <<>>
  <2>1. OpenTime(0) = 0 BY <1>1, Times
  <2>. QED BY <1>4, <1>5, <2>1 DEF Flat
<1>10. resetPending' => resetPending
  BY <1>4, <1>5, <1>7 DEF memory
<1>11. /\ refLevel' \in -1..GridCount + 1 /\ lotLines' \in Seq(1..top)
       /\ \A i \in 1..Len(lotLines') - 1 : lotLines'[i + 1] = lotLines'[i] - 1
       /\ lotLines' # <<>> => refLevel' = lotLines'[Len(lotLines')] - 1
       /\ resetPending' \in BOOLEAN /\ Len(lotLines') = Len(l.lots)
  <2>1. CASE ~result.filled
    <3>1. UNCHANGED <<refLevel, lotLines, resetPending>> /\ l.lots = ledger.lots
      BY <1>5, <1>7, <2>1 DEF memory
    <3>. QED BY <1>4, <3>1
  <2>2. CASE result.filled /\ pending.action = "buy"
    <3>1. pendingLine = Lesser(refLevel, top) /\ pendingLine >= 1 BY <1>4, <2>2
    <3>2. refLevel \in Int /\ pendingLine \in 1..top BY <1>4, <1>6, <3>1 DEF Lesser
    <3>3. ASSUME lotLines # <<>> PROVE pendingLine = lotLines[Len(lotLines)] - 1
      <4> DEFINE S == 1..top
      <4>1. lotLines \in Seq(S) BY <1>4
      <4>2. lotLines[Len(lotLines)] \in 1..top
        <5> HIDE DEF S
        <5>1. lotLines[Len(lotLines)] \in S BY <3>3, <4>1
        <5>. QED BY <5>1 DEF S
      <4>3. refLevel = lotLines[Len(lotLines)] - 1 BY <1>4, <3>3
      <4>. QED BY <1>6, <3>1, <4>2, <4>3 DEF Lesser
    <3> DEFINE more == Append(lotLines, pendingLine)
    <3>4. /\ more \in Seq(1..top) /\ Len(more) = Len(lotLines) + 1 /\ more # <<>>
          /\ \A i \in 1..Len(more) - 1 : more[i + 1] = more[i] - 1
          /\ more[Len(more)] = pendingLine
      BY <1>4, <3>2, <3>3, LinesFill
    <3>5. lotLines' = more /\ refLevel' = pendingLine - 1 /\ resetPending' = resetPending
      BY <1>7, <2>2
    <3>6. refLevel' \in -1..GridCount + 1 BY <1>6, <3>2, <3>5
    <3>7. Len(lotLines') = Len(l.lots) BY <1>4, <1>5, <2>2, <3>4, <3>5
    <3> HIDE DEF more
    <3>. QED BY <1>4, <3>4, <3>5, <3>6, <3>7
  <2>3. CASE result.filled /\ pending.action = "sell_lot"
    <3>1. lotLines # <<>>
      <4>1. ledger.lots # <<>> BY <1>5, <2>3
      <4>2. Len(ledger.lots) # 0
        <5>1. Book(ledger, Seen) BY <1>1 DEF RunOK
        <5>2. ledger.lots \in Seq(Lot) BY <5>1, BookTypes DEF Book
        <5>. QED BY <4>1, <5>2
      <4>. QED BY <1>4, <4>2
    <3> DEFINE less == Front(lotLines)
    <3>2. /\ less \in Seq(1..top) /\ Len(less) = Len(lotLines) - 1
          /\ \A i \in 1..Len(less) - 1 : less[i + 1] = less[i] - 1
          /\ Last(lotLines) \in 1..top
          /\ less # <<>> => Last(lotLines) = less[Len(less)] - 1
      BY <1>4, <3>1, LinesDrop
    <3>3. lotLines' = less /\ refLevel' = Last(lotLines) /\ resetPending' = resetPending
      BY <1>7, <2>3
    <3>4. refLevel' \in -1..GridCount + 1
      <4> DEFINE x == Last(lotLines)
      <4>1. x \in 1..top /\ refLevel' = x BY <3>2, <3>3
      <4> HIDE DEF x
      <4>. QED BY <1>6, <4>1
    <3>5. Len(lotLines') = Len(l.lots) BY <1>4, <1>5, <2>3, <3>2, <3>3
    <3> HIDE DEF less
    <3>. QED BY <1>4, <3>2, <3>3, <3>4, <3>5
  <2>4. CASE result.filled /\ pending.action = "sell_all"
    <3>1. lotLines' = <<>> /\ l.lots = <<>> BY <1>5, <1>7, <2>4
    <3>2. lotLines' \in Seq(1..top) /\ Len(lotLines') = 0
      <4> DEFINE S == 1..top
      <4> HIDE DEF S
      <4>1. <<>> \in Seq(S) /\ Len(<<>>) = 0 OBVIOUS
      <4>. QED BY <3>1, <4>1 DEF S
    <3>3. refLevel' \in -1..GridCount + 1
      <4>1. price \in Nat BY <1>1 DEF RunAssumption
      <4>2. Level(price) \in -1..GridCount + 1 BY <4>1, LevelIs
      <4>. QED BY <1>4, <1>7, <2>4, <4>2
    <3>4. resetPending' \in BOOLEAN BY <1>4, <1>7, <2>4
    <3>5. Len(l.lots) = 0 BY <3>1
    <3>6. \A i \in 1..Len(lotLines') - 1 : lotLines'[i + 1] = lotLines'[i] - 1 BY <3>2
    <3>. QED BY <3>1, <3>2, <3>3, <3>4, <3>5, <3>6
  <2>. QED BY <1>4, <1>5, <2>1, <2>2, <2>3, <2>4
<1>12. MemoryOK'
  <2>1. phase' = "close" /\ ledger'.lots = l.lots /\ pending' = pending BY <1>2, <1>3
  <2>2. resetPending' => ToClear' BY <1>4, <1>8, <1>10, <2>1 DEF ToClear, Flat
  <2>3. bar' = 0 => Flat' BY <1>2, <1>9, <2>1 DEF Flat
  <2>. QED BY <1>4, <1>11, <2>1, <2>2, <2>3 DEF MemoryOK
<1>13. FlatOK'
  <2>1. /\ Len(prices) = bar /\ Cleared
        /\ bar > 0 /\ OpenTime(bar) < EndAt /\ Below0(prices[bar]) => ToClear
    BY <1>2 DEF GridInvariant, FlatOK
  <2>2. phase' = "close" /\ ledger'.lots = l.lots /\ bar' = bar /\ prices' = prices /\ held' = held
    BY <1>2, <1>3
  <2>3. ToClear => ToClear' BY <1>8, <2>2 DEF ToClear, Flat
  <2>4. Cleared' BY <2>1, <2>2 DEF Cleared, Below0, OpenTime
  <2>5. OpenTime(bar)' = OpenTime(bar) BY <2>2 DEF OpenTime
  <2>6. Below0(prices[bar])' <=> Below0(prices[bar]) BY <2>2 DEF Below0
  <2>. QED BY <2>1, <2>2, <2>3, <2>4, <2>5, <2>6 DEF FlatOK
<1>. QED BY <1>12, <1>13
\* What the template asks for at a level.
LEMMA GridAsksFor ==
  ASSUME GridParameters, NEW lv
  PROVE  LET s == GridSignal(lv)
         IN /\ s.action = "sell_all" => lv = -1
            /\ lv = -1 => s.action = IF StopsOut(lv) /\ lotLines # <<>> THEN "sell_all" ELSE "hold"
<1>1. /\ Signal("buy").action = "buy" /\ Signal("sell_lot").action = "sell_lot"
      /\ Hold.action = "hold" /\ [Signal("sell_all") EXCEPT !.kind = "stop_loss"].action = "sell_all"
  BY DEF Signal, Hold
<1>. QED BY <1>1 DEF GridSignal

\* What a close does to the memory and to the order pending, in its three cases.
LEMMA GridCloseIs ==
  ASSUME GridParameters, GridInvariant, NEW price \in ClosePrices, GridClose(price)
  PROVE  LET lv == Level(price)
         IN /\ phase = "close" /\ ledger' = ledger
            /\ phase' = IF bar < LastBar THEN "open" ELSE "end"
            /\ bar' = IF bar < LastBar THEN bar + 1 ELSE bar
            /\ prices' = Append(prices, price) /\ held' = Append(held, ledger.lots # <<>>)
            /\ \/ /\ bar = 0 /\ refLevel' = lv /\ UNCHANGED <<lotLines, resetPending>>
                  /\ pending'.action \in {"hold", "sell_all"}
               \/ /\ bar # 0 /\ Asks /\ Remember(lv)
                  /\ \/ pending'.action = GridSignal(lv).action
                     \/ pending'.action = "hold" /\ GridSignal(lv).action = "buy"
               \/ /\ bar # 0 /\ ~Asks /\ UNCHANGED memory
                  /\ pending'.action = IF Decides THEN "sell_all" ELSE "hold"
<1> DEFINE lv == Level(price)
<1>1. LotAssumption /\ RunAssumption /\ RunOK /\ CurveOK
  BY DEF GridParameters, GridInvariant, RunInvariant
<1>2. Hold.action = "hold" /\ Signal("sell_all").action = "sell_all" BY DEF Hold, Signal
<1>3. ASSUME NEW signal \in Signals \cup {Hold}, CloseBar(price, signal)
      PROVE  /\ phase = "close" /\ ledger' = ledger
             /\ phase' = IF bar < LastBar THEN "open" ELSE "end"
             /\ bar' = IF bar < LastBar THEN bar + 1 ELSE bar
             /\ prices' = Append(prices, price) /\ held' = Append(held, ledger.lots # <<>>)
             /\ pending' = Decide(signal).pending
  BY <1>1, <1>3, RunCloses DEF CloseBar
<1>4. CASE bar = 0
  <2>1. CloseBar(price, Hold) /\ refLevel' = lv /\ UNCHANGED <<lotLines, resetPending>>
    BY <1>4 DEF GridClose
  <2>2. Decide(Hold).pending.action \in {"hold", "sell_all"} BY <1>2 DEF Decide
  <2>. QED BY <1>3, <1>4, <2>1, <2>2
<1>5. CASE bar # 0 /\ Asks
  <2> DEFINE s == GridSignal(lv)
  <2>1. CloseBar(price, s) /\ Remember(lv) BY <1>5 DEF GridClose
  <2>2. s \in Signals \cup {Hold} BY GridSignals
  <2>3. \/ Decide(s).pending.action = s.action
        \/ Decide(s).pending.action = "hold" /\ s.action = "buy"
    BY <1>2, <1>5 DEF Decide, Asks, Blocked
  <2> HIDE DEF s
  <2>. QED BY <1>3, <1>5, <2>1, <2>2, <2>3 DEF s
<1>6. CASE bar # 0 /\ ~Asks
  <2>1. CloseBar(price, Hold) /\ UNCHANGED memory BY <1>6 DEF GridClose
  <2>2. Decide(Hold).pending.action = IF Decides THEN "sell_all" ELSE "hold"
    BY <1>2, <1>6 DEF Decide, Asks
  <2>. QED BY <1>3, <1>6, <2>1, <2>2
<1>. QED BY <1>4, <1>5, <1>6

LEMMA GridCloses ==
  ASSUME GridParameters, GridInvariant, NEW price \in ClosePrices, GridClose(price)
  PROVE  MemoryOK' /\ FlatOK'
<1> DEFINE lv == Level(price)
           top == GridCount - 1
<1>1. LotAssumption /\ RunAssumption /\ RunOK /\ ClockOK
  BY DEF GridParameters, GridInvariant, RunInvariant
<1>2. /\ phase = "close" /\ ledger' = ledger
      /\ phase' = IF bar < LastBar THEN "open" ELSE "end"
      /\ bar' = IF bar < LastBar THEN bar + 1 ELSE bar
      /\ prices' = Append(prices, price) /\ held' = Append(held, ledger.lots # <<>>)
      /\ \/ /\ bar = 0 /\ refLevel' = lv /\ UNCHANGED <<lotLines, resetPending>>
            /\ pending'.action \in {"hold", "sell_all"}
         \/ /\ bar # 0 /\ Asks /\ Remember(lv)
            /\ \/ pending'.action = GridSignal(lv).action
               \/ pending'.action = "hold" /\ GridSignal(lv).action = "buy"
         \/ /\ bar # 0 /\ ~Asks /\ UNCHANGED memory
            /\ pending'.action = IF Decides THEN "sell_all" ELSE "hold"
  BY GridCloseIs
<1>3. /\ refLevel \in -1..GridCount + 1 /\ lotLines \in Seq(1..top)
      /\ \A i \in 1..Len(lotLines) - 1 : lotLines[i + 1] = lotLines[i] - 1
      /\ lotLines # <<>> => refLevel = lotLines[Len(lotLines)] - 1
      /\ resetPending \in BOOLEAN /\ Len(lotLines) = Len(ledger.lots)
      /\ resetPending => Flat
      /\ bar = 0 => Flat
  BY <1>2 DEF GridInvariant, MemoryOK, ToClear
<1>4. /\ GridCount \in Nat /\ GridCount >= 5 /\ top \in Nat BY GridSize
<1>5. price \in Nat /\ lv \in -1..GridCount + 1
  <2>1. price \in Nat BY <1>1 DEF RunAssumption
  <2>. QED BY <2>1, LevelIs
<1> HIDE DEF lv
<1>6. Flat <=> lotLines = <<>>
  <2>1. Book(ledger, Seen) BY <1>1 DEF RunOK
  <2>2. ledger.lots \in Seq(Lot) BY <2>1, BookTypes DEF Book
  <2>3. ledger.lots = <<>> <=> Len(ledger.lots) = 0 BY <2>2
  <2>4. lotLines = <<>> <=> Len(lotLines) = 0
    <3> DEFINE S == 1..top
    <3> HIDE DEF S
    <3>1. lotLines \in Seq(S) BY <1>3 DEF S
    <3>. QED BY <3>1
  <2>. QED BY <1>3, <2>3, <2>4 DEF Flat
<1>7. bar \in 0..LastBar /\ LastBar \in Nat BY <1>1, Times DEF RunOK
<1>8. /\ Asks /\ Remember(lv) =>
           /\ resetPending' = (StopsOut(lv) \/ (resetPending /\ ~Resets(lv)))
           /\ refLevel' = IF Resets(lv) THEN lv
                          ELSE IF lv # -1 /\ ~WantsBuy(lv) /\ lotLines = <<>> /\ lv > refLevel
                          THEN Lesser(lv, GridCount) ELSE refLevel
           /\ pendingLine' = IF lv # -1 /\ ~Resets(lv) /\ WantsBuy(lv) THEN BuyLine ELSE pendingLine
           /\ lotLines' = lotLines
      /\ UNCHANGED memory =>
           refLevel' = refLevel /\ lotLines' = lotLines /\ resetPending' = resetPending
  BY DEF Remember, memory
<1>9. lotLines' = lotLines BY <1>2, <1>8
<1>10. Resets(lv) => lotLines = <<>> BY <1>3, <1>6 DEF Resets
<1>11. refLevel' \in -1..GridCount + 1
  <2>1. Lesser(lv, GridCount) \in -1..GridCount + 1 BY <1>4, <1>5 DEF Lesser
  <2>. QED BY <1>2, <1>3, <1>5, <1>8, <2>1
<1>12. lotLines # <<>> => refLevel' = lotLines[Len(lotLines)] - 1
  BY <1>2, <1>3, <1>6, <1>8, <1>10
<1>13. resetPending' \in BOOLEAN
  <2>1. StopsOut(lv) \in BOOLEAN /\ Resets(lv) \in BOOLEAN
    BY <1>3 DEF StopsOut, Resets, InRange
  <2>. QED BY <1>2, <1>3, <1>8, <2>1
<1>14. pending'.action \in {"hold", "buy", "sell_lot", "sell_all"}
  BY <1>2, GridSignals
<1>15. ASSUME pending'.action = "buy"
       PROVE  /\ bar # 0 /\ Asks /\ Remember(lv) /\ lv # -1 /\ ~Resets(lv) /\ WantsBuy(lv)
              /\ ~StopsOut(lv) /\ InRange(lv) /\ ~resetPending'
              /\ pendingLine' = Lesser(refLevel', top) /\ pendingLine' >= 1
  <2>1. bar # 0 /\ Asks /\ Remember(lv) /\ GridSignal(lv).action = "buy" BY <1>2, <1>15
  <2>2. lv # -1 /\ ~Resets(lv) /\ WantsBuy(lv) BY <2>1, GridSignals
  <2>3. InRange(lv) /\ lv < BuyLine /\ ~StopsOut(lv) BY <2>2 DEF WantsBuy, StopsOut
  <2>4. ~resetPending BY <1>3, <2>2, <2>3 DEF Resets
  <2>5. ~resetPending' BY <1>8, <2>1, <2>3, <2>4
  <2>6. refLevel' = refLevel /\ pendingLine' = BuyLine BY <1>8, <2>1, <2>2
  <2>7. BuyLine = Lesser(refLevel', top) BY <2>6 DEF BuyLine
  <2>8. BuyLine >= 1
    <3>1. BuyLine \in Int BY <1>3, <1>4 DEF BuyLine, Lesser
    <3>2. 0 <= lv BY <2>3 DEF InRange
    <3>. QED BY <1>5, <2>3, <3>1, <3>2
  <2>. QED BY <2>1, <2>2, <2>3, <2>5, <2>6, <2>7, <2>8
<1>16. Flat' <=> Flat BY <1>2 DEF Flat
<1>17. ASSUME phase' = "open", resetPending' PROVE pending'.action = "sell_all" \/ (Flat /\ pending'.action # "buy")
  <2>1. pending'.action # "buy" BY <1>15, <1>17
  <2>2. CASE resetPending BY <1>3, <2>1, <2>2
  <2>3. CASE ~resetPending
    <3>1. bar # 0 => Asks /\ Remember(lv) /\ StopsOut(lv) BY <1>2, <1>8, <1>17, <2>3
    <3>2. bar = 0 => Flat BY <1>3
    <3>3. CASE bar # 0
      <4>1. lv = -1 /\ StopsOut(lv) BY <3>1, <3>3 DEF StopsOut
      <4>2. lotLines # <<>> => GridSignal(lv).action = "sell_all" BY <4>1, GridAsksFor
      <4>3. lotLines # <<>> => pending'.action = "sell_all" BY <1>2, <3>1, <3>3, <4>2
      <4>. QED BY <1>6, <2>1, <4>3
    <3>. QED BY <2>1, <3>2, <3>3
  <2>. QED BY <2>2, <2>3
<1>18. bar' # 0 \/ phase' = "end"
  BY <1>2, <1>7
<1>19. MemoryOK'
  <2>1. phase' # "close" /\ (phase' = "open" => bar' # 0) BY <1>2, <1>18
  <2>2. phase' = "open" /\ resetPending' => ToClear' BY <1>16, <1>17 DEF ToClear
  <2>3. phase' = "open" /\ pending'.action = "buy" =>
          pendingLine' = Lesser(refLevel', top) /\ pendingLine' >= 1
    BY <1>15
  <2>4. Len(lotLines') = Len(ledger'.lots) BY <1>2, <1>3, <1>9
  <2>. QED BY <1>3, <1>9, <1>11, <1>12, <1>13, <1>14, <2>1, <2>2, <2>3, <2>4 DEF MemoryOK
<1>20. /\ prices \in Seq(Nat) /\ Len(prices) = bar
       /\ held \in Seq(BOOLEAN) /\ Len(held) = bar /\ Cleared
       /\ bar > 0 /\ OpenTime(bar) < EndAt /\ Below0(prices[bar]) => Flat
  BY <1>1, <1>2 DEF RunOK, ClockOK, GridInvariant, FlatOK, ToClear
<1> DEFINE more == Append(prices, price)
           later == Append(held, ledger.lots # <<>>)
<1>21. /\ Len(more) = bar + 1 /\ more[bar + 1] = price /\ \A i \in 1..bar : more[i] = prices[i]
  BY <1>5, <1>20
<1>22. /\ Len(later) = bar + 1 /\ later[bar + 1] = (ledger.lots # <<>>)
       /\ \A i \in 1..bar : later[i] = held[i]
  <2> DEFINE b == ledger.lots # <<>>
  <2>1. b \in BOOLEAN OBVIOUS
  <2> HIDE DEF b
  <2>. QED BY <1>20, <2>1
<1>23. prices' = more /\ held' = later BY <1>2
<1> HIDE DEF more, later
<1>24. Cleared'
  <2>1. ASSUME NEW i \in 1..bar, Below0(more[i]), OpenTime(i) < EndAt PROVE ~later[i + 1]
    <3>1. Below0(prices[i]) BY <1>21, <2>1
    <3>2. CASE i = bar
      <4>1. bar > 0 BY <2>1, <3>2
      <4>2. Flat BY <1>20, <2>1, <3>1, <3>2, <4>1
      <4>. QED BY <1>22, <3>2, <4>2 DEF Flat
    <3>3. CASE i # bar
      <4>1. i \in 1..Len(prices) - 1 /\ i + 1 \in 1..bar BY <1>7, <1>20, <2>1, <3>3
      <4>2. ~held[i + 1] BY <1>20, <2>1, <3>1, <4>1 DEF Cleared
      <4>. QED BY <1>22, <4>1, <4>2
    <3>. QED BY <3>2, <3>3
  <2>2. Len(more) - 1 = bar BY <1>7, <1>21
  <2>3. \A i \in 1..Len(more) - 1 : Below0(more[i]) /\ OpenTime(i) < EndAt => ~later[i + 1]
    BY <2>1, <2>2
  <2>. QED BY <1>23, <2>3 DEF Cleared, Below0, OpenTime
<1>25. ASSUME bar < LastBar, OpenTime(bar + 1) < EndAt, Below0(price)
       PROVE  pending'.action = "sell_all" \/ (Flat /\ pending'.action # "buy")
  <2>1. lv = -1 BY <1>5, <1>25, BelowIsBelow DEF Below0, lv
  <2>2. pending'.action # "buy" BY <1>15, <2>1
  <2>3. Decides BY <1>25 DEF Decides
  <2>4. CASE bar = 0 BY <1>3, <2>2, <2>4
  <2>5. CASE bar # 0 /\ ~Asks BY <1>2, <2>3, <2>5
  <2>6. CASE bar # 0 /\ Asks
    <3>1. CASE resetPending BY <1>3, <2>2, <3>1
    <3>2. CASE ~resetPending
      <4>1. StopsOut(lv) BY <1>25, <2>1, <3>2 DEF StopsOut, Below0
      <4>2. lotLines # <<>> => GridSignal(lv).action = "sell_all" BY <2>1, <4>1, GridAsksFor
      <4>3. lotLines # <<>> => pending'.action = "sell_all" BY <1>2, <2>6, <4>2
      <4>. QED BY <1>6, <2>2, <4>3
    <3>. QED BY <3>1, <3>2
  <2>. QED BY <2>4, <2>5, <2>6
<1>26. FlatOK'
  <2>1. CASE bar < LastBar
    <3>1. phase' = "open" /\ bar' = bar + 1 BY <1>2, <2>1
    <3>2. OpenTime(bar)' = OpenTime(bar + 1) /\ (prices[bar])' = price
      BY <1>21, <1>23, <3>1 DEF OpenTime
    <3>3. Below0(prices[bar])' <=> Below0(price) BY <3>2 DEF Below0
    <3>4. OpenTime(bar)' < EndAt /\ Below0(prices[bar])' => ToClear'
      BY <1>16, <1>25, <2>1, <3>1, <3>2, <3>3 DEF ToClear
    <3>5. Len(prices') = bar' BY <1>21, <1>23, <3>1
    <3>. QED BY <1>24, <3>1, <3>4, <3>5 DEF FlatOK
  <2>2. CASE ~(bar < LastBar)
    <3>1. phase' = "end" /\ bar = LastBar BY <1>2, <1>7, <2>2
    <3>2. Len(prices') = LastBar + 1 BY <1>21, <1>23, <3>1
    <3>. QED BY <1>24, <3>1, <3>2 DEF FlatOK
  <2>. QED BY <2>1, <2>2
<1>. QED BY <1>19, <1>26

LEMMA GridFinishes ==
  ASSUME GridParameters, GridInvariant, Finish, UNCHANGED memory
  PROVE  MemoryOK' /\ FlatOK'
<1>1. LotAssumption /\ RunAssumption /\ RunOK /\ CurveOK
  BY DEF GridParameters, GridInvariant, RunInvariant
<1>2. phase = "end" /\ phase' = "done" BY <1>1, RunFinishes
<1>3. /\ refLevel' = refLevel /\ lotLines' = lotLines /\ resetPending' = resetPending
      /\ pending' = pending /\ prices' = prices /\ held' = held
  BY DEF Finish, history, memory
<1>4. MemoryOK' BY <1>2, <1>3 DEF GridInvariant, MemoryOK
<1>5. Cleared' BY <1>3 DEF GridInvariant, FlatOK, Cleared, Below0, OpenTime
<1>6. FlatOK' BY <1>2, <1>3, <1>5 DEF GridInvariant, FlatOK
<1>. QED BY <1>4, <1>6

LEMMA GridStays ==
  ASSUME GridInvariant, UNCHANGED gridVars PROVE MemoryOK' /\ FlatOK'
<1>1. /\ refLevel' = refLevel /\ lotLines' = lotLines /\ resetPending' = resetPending
      /\ pendingLine' = pendingLine /\ phase' = phase /\ bar' = bar /\ ledger' = ledger
      /\ pending' = pending /\ prices' = prices /\ held' = held
  BY DEF gridVars, vars, history, memory
<1>2. ToClear' <=> ToClear BY <1>1 DEF ToClear, Flat
<1>3. MemoryOK' BY <1>1, <1>2 DEF GridInvariant, MemoryOK, Flat
<1>4. Cleared' BY <1>1 DEF GridInvariant, FlatOK, Cleared, Below0, OpenTime
<1>5. OpenTime(bar)' = OpenTime(bar) /\ (Below0(prices[bar])' <=> Below0(prices[bar]))
  BY <1>1 DEF OpenTime, Below0
<1>6. FlatOK' BY <1>1, <1>2, <1>4, <1>5 DEF GridInvariant, FlatOK
<1>. QED BY <1>3, <1>6

LEMMA GridSteps ==
  ASSUME GridParameters, GridInvariant, [GridNext]_gridVars PROVE GridInvariant'
<1>1. LotAssumption /\ RunAssumption /\ RunInvariant BY DEF GridParameters, GridInvariant
<1>2. [Next]_vars BY GridStep
<1>3. RunInvariant' BY <1>1, <1>2, RunSteps
<1>4. ASSUME NEW price \in OpenPrices, GridOpen(price) PROVE MemoryOK' /\ FlatOK'
  BY <1>4, GridOpens
<1>5. ASSUME NEW price \in ClosePrices, GridClose(price) PROVE MemoryOK' /\ FlatOK'
  BY <1>5, GridCloses
<1>6. ASSUME Finish, UNCHANGED memory PROVE MemoryOK' /\ FlatOK' BY <1>6, GridFinishes
<1>7. ASSUME UNCHANGED gridVars PROVE MemoryOK' /\ FlatOK' BY <1>7, GridStays
<1>8. MemoryOK' /\ FlatOK' BY <1>4, <1>5, <1>6, <1>7 DEF GridNext
<1>. QED BY <1>3, <1>8 DEF GridInvariant

\* The grid's memory follows the book it trades, and with the range stop on no lot
\* survives the open after a close below the range, whatever the lines, prices,
\* refusals and limits.
THEOREM GridInvariance == ASSUME GridParameters PROVE GridSpec => []GridInvariant
<1>1. GridInit => GridInvariant BY GridInits
<1>2. GridInvariant /\ [GridNext]_gridVars => GridInvariant' BY GridSteps
<1>. QED BY <1>1, <1>2, PTL DEF GridSpec

\* Types of the template's memory; the ledger never raises under it.
THEOREM GridTypesCorrect == ASSUME GridParameters PROVE GridSpec => []GridTypeOK
<1>1. ASSUME GridInvariant PROVE /\ refLevel \in -1..GridCount + 1
                                 /\ \A i \in 1..Len(lotLines) : lotLines[i] \in Int
                                 /\ resetPending \in BOOLEAN
  <2> DEFINE S == 1..GridCount - 1
  <2>1. refLevel \in -1..GridCount + 1 /\ lotLines \in Seq(S) /\ resetPending \in BOOLEAN
    BY <1>1 DEF GridInvariant, MemoryOK
  <2>2. S \subseteq Int OBVIOUS
  <2>3. \A i \in 1..Len(lotLines) : lotLines[i] \in S
    <3> HIDE DEF S
    <3>. QED BY <2>1
  <2> HIDE DEF S
  <2>. QED BY <2>1, <2>2, <2>3
<1>2. GridInvariant => /\ refLevel \in -1..GridCount + 1
                       /\ \A i \in 1..Len(lotLines) : lotLines[i] \in Int
                       /\ resetPending \in BOOLEAN
  BY <1>1
<1>3. LotAssumption /\ RunAssumption BY DEF GridParameters
<1>4. Spec => []TypeOK BY <1>3, LotTypesCorrect
<1>5. Spec => []NeverEngineError BY <1>3, LedgerNeverFails
<1>. QED BY <1>2, <1>4, <1>5, GridInvariance, GridIsALotRun, PTL DEF GridTypeOK

\* One line per held lot, each below the one bought before it, none of them the bottom
\* or the top one, and the next buy is for the line under the newest lot - whatever was
\* refused, short of cash or expired on the way.
THEOREM GridMirrorsTheBook == ASSUME GridParameters PROVE GridSpec => []LinesMirrorTheLots
<1>1. ASSUME GridInvariant PROVE LinesMirrorTheLots
  <2> DEFINE S == 1..GridCount - 1
  <2>1. /\ lotLines \in Seq(S)
        /\ \A i \in 1..Len(lotLines) - 1 : lotLines[i + 1] = lotLines[i] - 1
        /\ lotLines # <<>> => refLevel = lotLines[Len(lotLines)] - 1
        /\ phase # "done" => Len(lotLines) = Len(ledger.lots)
    BY <1>1 DEF GridInvariant, MemoryOK
  <2>2. \A i \in 1..Len(lotLines) : lotLines[i] \in S
    <3> HIDE DEF S
    <3>. QED BY <2>1
  <2>3. \A i \in 1..Len(lotLines) - 1 : lotLines[i] > lotLines[i + 1]
    <3>1. ASSUME NEW i \in 1..Len(lotLines) - 1 PROVE lotLines[i] > lotLines[i + 1]
      <4>1. Len(lotLines) \in Nat
        <5> HIDE DEF S
        <5>. QED BY <2>1
      <4>2. i \in 1..Len(lotLines) BY <4>1
      <4>3. lotLines[i] \in Int BY <2>2, <4>2
      <4>4. lotLines[i + 1] = lotLines[i] - 1 BY <2>1
      <4>. QED BY <4>3, <4>4
    <3>. QED BY <3>1
  <2>. QED BY <2>1, <2>2, <2>3 DEF LinesMirrorTheLots, Last
<1>2. GridInvariant => LinesMirrorTheLots BY <1>1
<1>. QED BY <1>2, GridInvariance, PTL

\* With the range stop on, a close below the range is followed by an open that
\* leaves no lot held.
THEOREM GridClearsBelow == ASSUME GridParameters PROVE GridSpec => []BelowRangeIsFlat
<1>1. GridInvariant => BelowRangeIsFlat
  BY DEF GridInvariant, FlatOK, Cleared, Below0, BelowRangeIsFlat
<1>. QED BY <1>1, GridInvariance, PTL

-----------------------------------------------------------------------------
(***************************************************************************)
(* The templates that read a line.  The lots Fear & Greed counts are the   *)
(* book's: its only sale is of all of them, and a buy is asked for below   *)
(* the cap only.  The days of an archive without a hole are a grid: a day  *)
(* off it would have a successor a day later, and that one too, beyond the *)
(* last day there is.                                                      *)
(***************************************************************************)
SeriesAssumption == LotAssumption /\ RunAssumption /\ SeriesParameters

\* The template asks for what its signals are.
LEMMA SeriesSignals ==
  ASSUME SeriesAssumption, NEW value
  PROVE  /\ GreedSignal(value) \in Signals \cup {Hold}
         /\ ThresholdSignal(value) \in Signals \cup {Hold}
         /\ GreedSignal(value).action \in {"hold", "buy", "sell_all"}
         /\ GreedSignal(value).action = "buy" => ~Capped
<1>1. Signals = {Signal("buy"), Signal("sell"), Signal("sell_all")}
  BY DEF SeriesAssumption, SeriesParameters
<1>2. /\ Signal("buy").action = "buy" /\ Signal("sell_all").action = "sell_all"
      /\ Hold.action = "hold"
  BY DEF Signal, Hold
<1>3. /\ GreedSignal(value) \in {Hold, Signal("buy"), Signal("sell_all")}
      /\ GreedSignal(value) = Signal("buy") => ~Capped
  <2>1. Hold # Signal("buy") /\ Signal("sell_all") # Signal("buy") BY <1>2
  <2>. QED BY <2>1 DEF GreedSignal
<1>4. ThresholdSignal(value) \in {Hold, Signal("buy"), Signal("sell")} BY DEF ThresholdSignal
<1>5. GreedSignal(value).action = "buy" => GreedSignal(value) = Signal("buy") BY <1>2, <1>3
<1>. QED BY <1>1, <1>2, <1>3, <1>4, <1>5

\* Every step of a run that is served is one of the run, and its feed does not change.
LEMMA SeriesStep ==
  ASSUME SeriesAssumption, [SeriesNext]_seriesVars
  PROVE  feed' = feed /\ (Refuse \/ [Next]_vars)
<1>1. ASSUME NEW price \in OpenPrices, SeriesOpen(price) PROVE Next /\ feed' = feed
  BY <1>1 DEF SeriesOpen, Next
<1>2. ASSUME NEW price \in ClosePrices, SeriesClose(price) PROVE Next /\ feed' = feed
  <2>1. feed' = feed BY <1>2 DEF SeriesClose
  <2>2. CASE ~Asks BY <1>2, <2>1, <2>2 DEF SeriesClose, Next
  <2>3. CASE Asks
    <3>1. \E value : CloseBar(price, GreedSignal(value)) \/ CloseBar(price, ThresholdSignal(value))
      BY <1>2, <2>3 DEF SeriesClose
    <3>2. \E signal \in Signals \cup {Hold} : CloseBar(price, signal) BY <3>1, SeriesSignals
    <3>. QED BY <2>1, <3>2 DEF Next
  <2>. QED BY <2>2, <2>3
<1>3. CASE Finish /\ UNCHANGED reader BY <1>3 DEF Next, reader
<1>4. CASE Refuse BY <1>4 DEF Refuse, reader
<1>5. CASE UNCHANGED seriesVars BY <1>5 DEF seriesVars, reader
<1>. QED BY <1>1, <1>2, <1>3, <1>4, <1>5 DEF SeriesNext

\* The lots counted, and the buy that may be pending.
CountsOK ==
  feed.kind = "greed" /\ phase \in {"open", "close", "end"} =>
    /\ heldLots = Len(ledger.lots) /\ heldLots <= MaxLots
    /\ pending.action \in {"hold", "buy", "sell_all"}
    /\ phase = "open" /\ pending.action = "buy" => heldLots < MaxLots

SeriesInvariant ==
  /\ phase = "refused" \/ RunInvariant
  /\ feed \in Feeds
  /\ phase # "refused" /\ (bar > 0 \/ phase # "open") => Served
  /\ CountsOK

LEMMA SeriesInits == ASSUME SeriesAssumption, SeriesInit PROVE SeriesInvariant
<1>1. RunInvariant BY RunInit, ClockInit DEF SeriesInit, SeriesAssumption, RunInvariant
<1>2. /\ heldLots = 0 /\ ledger.lots = <<>> /\ pending.action = "hold" /\ feed \in Feeds
      /\ phase = "open" /\ bar = 0
  BY DEF SeriesInit, Init, EmptyLedger, Hold, Signal
<1>3. Len(ledger.lots) = 0 BY <1>2
<1>4. MaxLots \in Nat /\ MaxLots > 0 BY DEF SeriesAssumption, SeriesParameters
<1>5. CountsOK BY <1>2, <1>3, <1>4 DEF CountsOK
<1>. QED BY <1>1, <1>2, <1>5 DEF SeriesInvariant

LEMMA SeriesOpens ==
  ASSUME SeriesAssumption, SeriesInvariant, NEW price \in OpenPrices, SeriesOpen(price)
  PROVE  CountsOK'
<1> DEFINE result == Fill(price)
           l == result.ledger
<1>0. LotAssumption /\ RunAssumption BY DEF SeriesAssumption
<1>1. OpenBar(price) /\ GreedFill(result.filled) /\ feed' = feed BY DEF SeriesOpen
<1>2. phase = "open" BY <1>1 DEF OpenBar
<1>3. RunOK BY <1>2 DEF SeriesInvariant, RunInvariant
<1>4. /\ FillOK(result) /\ ledger' = l /\ phase' = "close" /\ Booked(result, l, price)
  BY <1>0, <1>1, <1>3, OpenIs
<1> HIDE DEF result
<1>5. /\ result.filled \in BOOLEAN
      /\ ~result.filled => l.lots = ledger.lots
      /\ result.filled => pending.action # "hold"
      /\ pending.action = "buy" /\ result.filled => Len(l.lots) = Len(ledger.lots) + 1
      /\ pending.action = "sell_all" => l.lots = <<>>
  BY <1>4 DEF FillOK, FillKeeps
<1>6. pending' = pending BY <1>4 DEF Booked
<1>7. SUFFICES ASSUME feed.kind = "greed"
               PROVE  heldLots' = Len(l.lots) /\ heldLots' <= MaxLots
                      /\ pending.action \in {"hold", "buy", "sell_all"}
  BY <1>1, <1>4, <1>6 DEF CountsOK
<1>8. /\ heldLots = Len(ledger.lots) /\ heldLots <= MaxLots
      /\ pending.action \in {"hold", "buy", "sell_all"}
      /\ pending.action = "buy" => heldLots < MaxLots
  BY <1>2, <1>7 DEF SeriesInvariant, CountsOK
<1>9. MaxLots \in Nat /\ Len(ledger.lots) \in Nat
  <2>1. Book(ledger, Seen) BY <1>3 DEF RunOK
  <2>2. ledger.lots \in Seq(Lot) BY <2>1, BookTypes DEF Book
  <2>. QED BY <2>2 DEF SeriesAssumption, SeriesParameters
<1>10. CASE ~result.filled
  <2>1. heldLots' = heldLots BY <1>1, <1>10 DEF GreedFill
  <2>. QED BY <1>5, <1>8, <1>10, <2>1
<1>11. CASE result.filled /\ pending.action = "buy"
  <2>1. heldLots' = heldLots + 1 BY <1>1, <1>7, <1>11 DEF GreedFill
  <2>. QED BY <1>5, <1>8, <1>9, <1>11, <2>1
<1>12. CASE result.filled /\ pending.action = "sell_all"
  <2>1. heldLots' = 0 BY <1>1, <1>7, <1>12 DEF GreedFill
  <2>2. Len(l.lots) = 0 BY <1>5, <1>12
  <2>. QED BY <1>8, <1>9, <2>1, <2>2
<1>. QED BY <1>5, <1>8, <1>10, <1>11, <1>12

LEMMA SeriesCloses ==
  ASSUME SeriesAssumption, SeriesInvariant, NEW price \in ClosePrices, SeriesClose(price)
  PROVE  CountsOK'
<1>0. LotAssumption /\ RunAssumption BY DEF SeriesAssumption
<1>1. PICK signal \in Signals \cup {Hold} :
        /\ CloseBar(price, signal)
        /\ feed.kind = "greed" =>
             /\ signal.action \in {"hold", "buy", "sell_all"}
             /\ signal.action = "buy" => ~Capped
  <2>1. Hold.action = "hold" BY DEF Hold, Signal
  <2>2. CASE ~Asks BY <2>1, <2>2 DEF SeriesClose
  <2>3. CASE Asks /\ feed.kind = "greed" /\ CloseBar(price, GreedSignal(Usable(bar)))
    BY <2>3, SeriesSignals
  <2>4. CASE Asks /\ feed.kind = "rsi" /\ \E value : CloseBar(price, ThresholdSignal(value))
    <3>1. PICK value : CloseBar(price, ThresholdSignal(value)) BY <2>4
    <3>2. feed.kind # "greed" BY <2>4
    <3>. QED BY <3>1, <3>2, SeriesSignals
  <2>. QED BY <2>2, <2>3, <2>4 DEF SeriesClose
<1>2. phase = "close" BY <1>1 DEF CloseBar
<1>3. RunOK /\ CurveOK BY <1>2 DEF SeriesInvariant, RunInvariant
<1>4. ledger' = ledger /\ phase' \in {"open", "end"} BY <1>0, <1>1, <1>3, RunCloses
<1>5. pending' \in {Hold, Signal("sell_all"), signal} BY <1>1 DEF CloseBar, Decide
<1>6. feed' = feed /\ heldLots' = heldLots BY DEF SeriesClose
<1>7. SUFFICES ASSUME feed.kind = "greed"
               PROVE  /\ heldLots = Len(ledger.lots) /\ heldLots <= MaxLots
                      /\ pending'.action \in {"hold", "buy", "sell_all"}
                      /\ pending'.action = "buy" => heldLots < MaxLots
  BY <1>4, <1>6 DEF CountsOK
<1>8. heldLots = Len(ledger.lots) /\ heldLots <= MaxLots
  BY <1>2, <1>7 DEF SeriesInvariant, CountsOK
<1>9. Hold.action = "hold" /\ Signal("sell_all").action = "sell_all" BY DEF Hold, Signal
<1>10. /\ pending'.action \in {"hold", "buy", "sell_all"}
       /\ pending'.action = "buy" => ~Capped
  BY <1>1, <1>5, <1>7, <1>9
<1>11. MaxLots \in Nat /\ Len(ledger.lots) \in Nat
  <2>1. Book(ledger, Seen) BY <1>3 DEF RunOK
  <2>2. ledger.lots \in Seq(Lot) BY <2>1, BookTypes DEF Book
  <2>. QED BY <2>2 DEF SeriesAssumption, SeriesParameters
<1>12. Capped <=> heldLots >= MaxLots BY DEF Capped
<1>. QED BY <1>8, <1>10, <1>11, <1>12

LEMMA SeriesSteps ==
  ASSUME SeriesAssumption, SeriesInvariant, [SeriesNext]_seriesVars
  PROVE  SeriesInvariant'
<1>0. LotAssumption /\ RunAssumption BY DEF SeriesAssumption
<1>1. feed' = feed /\ (Refuse \/ [Next]_vars) BY SeriesStep
<1>2. feed' \in Feeds BY <1>1 DEF SeriesInvariant
<1>3. Served' <=> Served BY <1>1 DEF Served, Whole, Fetched, NeedFirst, NeedLast
<1>4. CASE Refuse
  <2>1. phase' = "refused" BY <1>4 DEF Refuse
  <2>. QED BY <1>2, <2>1 DEF SeriesInvariant, CountsOK
<1>5. ASSUME NEW price \in OpenPrices, SeriesOpen(price) PROVE SeriesInvariant'
  <2>1. OpenBar(price) /\ Served BY <1>5 DEF SeriesOpen
  <2>2. phase = "open" BY <2>1 DEF OpenBar
  <2>3. Next BY <2>1 DEF Next
  <2>4. RunInvariant BY <2>2 DEF SeriesInvariant
  <2>5. RunInvariant' BY <1>0, <2>3, <2>4, RunSteps
  <2>. QED BY <1>2, <1>3, <1>5, <2>1, <2>5, SeriesOpens DEF SeriesInvariant
<1>6. ASSUME NEW price \in ClosePrices, SeriesClose(price) PROVE SeriesInvariant'
  <2>1. phase = "close" BY <1>6 DEF SeriesClose, CloseBar
  <2>2. Served /\ RunInvariant BY <2>1 DEF SeriesInvariant
  <2>3. [Next]_vars
    <3>1. ~Refuse BY <2>1 DEF Refuse
    <3>. QED BY <1>1, <3>1
  <2>4. RunInvariant' BY <1>0, <2>2, <2>3, RunSteps
  <2>. QED BY <1>2, <1>3, <1>6, <2>2, <2>4, SeriesCloses DEF SeriesInvariant
<1>7. CASE Finish /\ UNCHANGED reader
  <2>1. phase = "end" BY <1>7 DEF Finish
  <2>2. Served /\ RunInvariant BY <2>1 DEF SeriesInvariant
  <2>3. RunInvariant' BY <1>0, <1>7, <2>2, RunSteps DEF Next
  <2>4. phase' = "done"
    <3>1. RunOK /\ CurveOK BY <2>2 DEF RunInvariant
    <3>. QED BY <1>0, <1>7, <3>1, RunFinishes
  <2>. QED BY <1>2, <1>3, <2>2, <2>3, <2>4 DEF SeriesInvariant, CountsOK
<1>8. CASE UNCHANGED seriesVars
  <2>1. UNCHANGED vars /\ UNCHANGED reader BY <1>8 DEF seriesVars
  <2>2. phase # "refused" => RunInvariant'
    <3>1. SUFFICES ASSUME phase # "refused" PROVE RunInvariant' OBVIOUS
    <3>2. RunInvariant BY <3>1 DEF SeriesInvariant
    <3>. QED BY <1>0, <2>1, <3>2, RunSteps
  <2>3. phase' = phase /\ bar' = bar /\ ledger' = ledger /\ pending' = pending /\ heldLots' = heldLots
    BY <2>1 DEF vars, reader
  <2>4. CountsOK' BY <1>1, <2>3 DEF SeriesInvariant, CountsOK
  <2>. QED BY <1>2, <1>3, <2>2, <2>3, <2>4 DEF SeriesInvariant
<1>. QED BY <1>4, <1>5, <1>6, <1>7, <1>8 DEF SeriesNext

\* The lots Fear & Greed counts are the ledger's, whatever buys were refused, too
\* dear or blocked and whatever the time limit sold, and never more than max_lots.
THEOREM GreedCountsItsLots == ASSUME SeriesAssumption PROVE SeriesSpec => []LotsAreCounted
<1>1. SeriesInit => SeriesInvariant BY SeriesInits
<1>2. SeriesInvariant /\ [SeriesNext]_seriesVars => SeriesInvariant' BY SeriesSteps
<1>3. SeriesInvariant => LotsAreCounted BY DEF SeriesInvariant, CountsOK, LotsAreCounted
<1>. QED BY <1>1, <1>2, <1>3, PTL DEF SeriesSpec

-----------------------------------------------------------------------------
\* A bounded set of integers that is not empty has a largest, and one bounded
\* below a smallest.
LEMMA TopIs ==
  ASSUME NEW top \in Int, NEW S, S \subseteq Int, S # {}, \A x \in S : x <= top
  PROVE  Max(S) \in S /\ \A x \in S : Max(S) >= x
<1> DEFINE B == {top - x : x \in S}
<1>1. B \subseteq Nat
  <2>1. \A x \in S : x \in Int /\ top - x \in Nat OBVIOUS
  <2>. QED BY <2>1
<1>2. PICK b \in B : \A k \in B : ~(k < b)
  <2>0. B # {} OBVIOUS
  <2> HIDE DEF B
  <2>1. IsWellFoundedOn(OpToRel(<, Nat), Nat) BY NatLessThanWellFounded
  <2>2. PICK n \in B : \A k \in B : ~(<<k, n>> \in OpToRel(<, Nat))
    BY <1>1, <2>0, <2>1, WFMin
  <2>3. \A k \in B : ~(k < n) BY <1>1, <2>2 DEF OpToRel
  <2>. QED BY <2>3
<1>3. PICK m \in S : b = top - m BY <1>2
<1>4. ASSUME NEW x \in S PROVE m >= x
  <2>1. top - x \in B BY <1>4
  <2>2. ~(top - x < b) BY <1>2, <2>1
  <2>3. x \in Int /\ m \in Int BY <1>3, <1>4
  <2> HIDE DEF B
  <2>. QED BY <1>3, <2>2, <2>3
<1>. QED BY <1>3, <1>4 DEF Max

LEMMA BottomIs ==
  ASSUME NEW low \in Int, NEW S, S \subseteq Int, S # {}, \A x \in S : low <= x
  PROVE  Min(S) \in S /\ \A x \in S : Min(S) <= x
<1>1. PICK m \in S : \A x \in S : m <= x
  <2> DEFINE B == {x - low : x \in S}
  <2>1. B \subseteq Nat
    <3>1. \A x \in S : x \in Int /\ x - low \in Nat OBVIOUS
    <3>. QED BY <3>1
  <2>2. PICK b \in B : \A k \in B : ~(k < b)
    <3>0. B # {} OBVIOUS
    <3> HIDE DEF B
    <3>1. IsWellFoundedOn(OpToRel(<, Nat), Nat) BY NatLessThanWellFounded
    <3>2. PICK n \in B : \A k \in B : ~(<<k, n>> \in OpToRel(<, Nat))
      BY <2>1, <3>0, <3>1, WFMin
    <3>3. \A k \in B : ~(k < n) BY <2>1, <3>2 DEF OpToRel
    <3>. QED BY <3>3
  <2>3. PICK m \in S : b = m - low BY <2>2
  <2>4. ASSUME NEW x \in S PROVE m <= x
    <3>1. x - low \in B BY <2>4
    <3>2. ~(x - low < b) BY <2>2, <3>1
    <3>3. x \in Int /\ m \in Int BY <2>3, <2>4
    <3> HIDE DEF B
    <3>. QED BY <2>3, <3>2, <3>3
  <2>. QED BY <2>4
<1>. QED BY <1>1 DEF Min

\* A step more is a step more.
LEMMA Multiples ==
  ASSUME NEW step \in Nat, step > 0, NEW a \in Int, NEW b \in Int
  PROVE  /\ a * step \in Int
         /\ (a + 1) * step = a * step + step /\ (a - 1) * step + step = a * step
         /\ a <= b => a * step <= b * step
<1>1. a * step \in Int BY Product
<1>2. (a + 1) * step = a * step + step /\ (a - 1) * step + step = a * step OBVIOUS
<1>3. ASSUME a <= b PROVE a * step <= b * step
  <2>1. b - a \in Nat BY <1>3
  <2>2. (b - a) * step \in Nat BY <2>1, ProductNat
  <2>3. b * step = a * step + (b - a) * step OBVIOUS
  <2> DEFINE x == a * step
             y == (b - a) * step
             z == b * step
  <2>4. x \in Int /\ y \in Nat /\ z = x + y BY <1>1, <2>2, <2>3
  <2> HIDE DEF x, y, z
  <2>5. x <= z BY <2>4
  <2>. QED BY <2>5 DEF x, z
<1>. QED BY <1>1, <1>2, <1>3

\* From first to last every step of days is there, and nothing between two of them.
LEMMA WholeDays ==
  ASSUME NEW step \in Nat, step > 0, NEW days, days \subseteq Int,
         NEW first \in days, NEW last \in Int, \A d \in days : d <= last,
         \A d \in days \ {last} : d + step \in days,
         NEW p \in Nat, NEW n \in Nat, NEW day \in Int,
         day = first + p * step, last = day + n * step
  PROVE  day \in days /\ \A d \in days : d < day + step => d <= day
<1>0. first \in Int OBVIOUS
<1> DEFINE S == {k \in 0..p : first + k * step \in days}
<1>1. 0 \in S
  <2>1. first + 0 * step = first BY <1>0
  <2>. QED BY <2>1
<1>2. ASSUME NEW k \in 1..p, k - 1 \in S PROVE k \in S
  <2> DEFINE x == (k - 1) * step
             y == k * step
             z == p * step
             u == n * step
  <2>0. /\ x \in Int /\ y \in Int /\ z \in Int /\ u \in Nat /\ x + step = y /\ y <= z
    <3>1. k \in Int /\ k - 1 \in Int /\ k <= p /\ p \in Int OBVIOUS
    <3>. QED BY <3>1, Multiples, ProductNat
  <2>1. first + x \in days /\ day = first + z /\ last = day + u BY <1>2
  <2> HIDE DEF x, y, z, u
  <2>2. first + x < last BY <1>0, <2>0, <2>1
  <2>3. first + x # last BY <1>0, <2>0, <2>2
  <2>4. first + x + step \in days BY <2>1, <2>3
  <2>5. first + x + step = first + y BY <1>0, <2>0
  <2>. QED BY <2>4, <2>5 DEF y
<1>3. day \in days
  <2>1. \A k \in 0..p : k \in S
    <3> HIDE DEF S
    <3>. QED BY <1>1, <1>2, AllUpTo
  <2>. QED BY <2>1
<1>4. ASSUME NEW d \in days, d < day + step, ~(d <= day) PROVE FALSE
  <2>0. d \in Int /\ day < d BY <1>4
  <2> DEFINE T == {k \in 0..n : d + k * step \in days}
  <2>1. 0 \in T
    <3>1. d + 0 * step = d BY <2>0
    <3>. QED BY <3>1
  <2>2. ASSUME NEW k \in 1..n, k - 1 \in T PROVE k \in T
    <3> DEFINE x == (k - 1) * step
               y == k * step
               u == n * step
    <3>0. x \in Int /\ y \in Int /\ u \in Int /\ x + step = y /\ y <= u
      <4>1. k \in Int /\ k - 1 \in Int /\ k <= n /\ n \in Int OBVIOUS
      <4>. QED BY <4>1, Multiples
    <3>1. d + x \in days /\ last = day + u BY <2>2
    <3> HIDE DEF x, y, u
    <3>2. d + x # last BY <1>4, <2>0, <3>0, <3>1
    <3>3. d + x + step \in days BY <3>1, <3>2
    <3>4. d + x + step = d + y BY <2>0, <3>0
    <3>. QED BY <3>3, <3>4 DEF y
  <2>3. n \in T
    <3>1. \A k \in 0..n : k \in T
      <4> HIDE DEF T
      <4>. QED BY <2>1, <2>2, AllUpTo
    <3>. QED BY <3>1
  <2> DEFINE u == n * step
  <2>4. u \in Nat /\ d + u \in days /\ last = day + u BY <2>3, ProductNat
  <2> HIDE DEF u
  <2>5. d + u <= last BY <2>4
  <2>. QED BY <2>0, <2>4, <2>5
<1>. QED BY <1>3, <1>4

\* The last day over by a time, and that later times have later days.
LEMMA DayIs ==
  ASSUME SeriesAssumption, NEW close \in Nat
  PROVE  /\ close \div DayLength \in Nat /\ DayBefore(close) \in Int
         /\ DayBefore(close) = (close \div DayLength) * DayLength - DayLength
         /\ DayBefore(close) + DayLength <= close
         /\ close < DayBefore(close) + DayLength + DayLength
<1>1. DayLength \in Nat /\ DayLength > 0 BY DEF SeriesAssumption, SeriesParameters
<1> DEFINE q == close \div DayLength
           r == close % DayLength
<1>2. q \in Nat BY <1>1, Quotient
<1>3. r \in 0..DayLength - 1 BY <1>1
<1>4. close = DayLength * q + r BY <1>1
<1>5. DayLength * q = q * DayLength BY <1>1, <1>2
<1> HIDE DEF q, r
<1> DEFINE z == q * DayLength
<1>6. z \in Int /\ close = z + r BY <1>1, <1>2, <1>4, <1>5, Product
<1>7. DayBefore(close) = z - DayLength BY DEF DayBefore, q
<1> HIDE DEF z
<1>8. /\ z - DayLength \in Int /\ z - DayLength + DayLength <= close
      /\ close < z - DayLength + DayLength + DayLength
  BY <1>1, <1>3, <1>6
<1>. QED BY <1>2, <1>7, <1>8 DEF q, z

LEMMA DaysGrow ==
  ASSUME SeriesAssumption, NEW early \in Nat, NEW late \in Nat, early <= late
  PROVE  \E n \in Nat : DayBefore(late) = DayBefore(early) + n * DayLength
<1>1. DayLength \in Nat /\ DayLength > 0 BY DEF SeriesAssumption, SeriesParameters
<1> DEFINE a == early \div DayLength
           b == late \div DayLength
           x == a * DayLength
           y == b * DayLength
<1>2. /\ a \in Nat /\ b \in Nat /\ DayBefore(early) = x - DayLength
      /\ DayBefore(late) = y - DayLength
      /\ x - DayLength + DayLength <= early
      /\ late < y - DayLength + DayLength + DayLength
  BY DayIs
<1> HIDE DEF a, b
<1>3. x \in Int /\ y \in Int /\ (b + 1) * DayLength = y + DayLength BY <1>1, <1>2, Multiples
<1>4. a <= b
  <2>1. SUFFICES ASSUME b + 1 <= a PROVE FALSE BY <1>2
  <2>2. (b + 1) * DayLength <= x BY <1>1, <1>2, <2>1, Multiples
  <2> HIDE DEF x, y
  <2>. QED BY <1>1, <1>2, <1>3, <2>2
<1>5. b - a \in Nat BY <1>2, <1>4
<1>6. y = x + (b - a) * DayLength BY <1>1, <1>2
<1> DEFINE z == (b - a) * DayLength
<1>7. z \in Int BY <1>1, <1>5, Product
<1>8. y - DayLength = x - DayLength + z
  <2>1. y = x + z BY <1>6
  <2> HIDE DEF x, y, z
  <2>. QED BY <1>1, <1>3, <1>7, <2>1
<1>. QED BY <1>2, <1>5, <1>8

LEMMA ReadsTheDay ==
  ASSUME SeriesAssumption, SeriesInvariant, feed.kind = "greed", phase = "close"
  PROVE  /\ DayBefore(CloseTime(bar)) \in DOMAIN feed.archive
         /\ Usable(bar) = feed.archive[DayBefore(CloseTime(bar))]
<1> DEFINE close == CloseTime(bar)
           day == DayBefore(close)
           F == Fetched
<1>1. DayLength \in Nat /\ DayLength > 0 /\ DOMAIN feed.archive \subseteq Int
  BY DEF SeriesAssumption, SeriesParameters, SeriesInvariant
<1>2. /\ CloseTime(0) \in Nat /\ close \in Nat /\ CloseTime(LastBar) \in Nat
      /\ CloseTime(0) <= close /\ close <= CloseTime(LastBar)
  <2>1. bar \in 0..LastBar BY DEF SeriesInvariant, RunInvariant, RunOK
  <2>2. /\ LastBar \in Nat
        /\ \A i \in Nat : OpenTime(i) \in Nat /\ CloseTime(i) = OpenTime(i + 1)
        /\ \A i, j \in Nat : i <= j => OpenTime(i) <= OpenTime(j)
    BY Times DEF SeriesAssumption
  <2>3. /\ 0 \in Nat /\ 0 + 1 \in Nat /\ bar \in Nat /\ bar + 1 \in Nat /\ LastBar + 1 \in Nat
        /\ 0 + 1 <= bar + 1 /\ bar + 1 <= LastBar + 1
    BY <2>1, <2>2
  <2>. QED BY <2>2, <2>3
<1> HIDE DEF close
<1>3. /\ NeedFirst \in Int /\ NeedLast \in Int /\ day \in Int
      /\ day + DayLength <= close /\ close < day + DayLength + DayLength
  BY <1>2, DayIs DEF NeedFirst, NeedLast
<1>4. PICK p \in Nat : day = NeedFirst + p * DayLength BY <1>2, DaysGrow DEF NeedFirst
<1>5. PICK n \in Nat : NeedLast = day + n * DayLength BY <1>2, DaysGrow DEF NeedLast
<1> HIDE DEF day
<1>6. /\ F # {} /\ Min(F) = NeedFirst /\ Max(F) = NeedLast
      /\ \A d \in F \ {NeedLast} : d + DayLength \in F
  BY DEF SeriesInvariant, Served, Whole
<1>7. /\ F \subseteq DOMAIN feed.archive /\ F \subseteq Int
      /\ \A d \in F : NeedFirst <= d /\ d <= NeedLast + DayLength
  BY <1>1, <1>3 DEF Fetched
<1>8. Usable(bar) = LET known == {d \in F : d + DayLength <= close}
                    IN IF known = {} THEN None ELSE feed.archive[Max(known)]
  BY DEF Usable, close
<1> HIDE DEF F
<1>9. NeedFirst \in F BY <1>3, <1>6, <1>7, BottomIs
<1>10. \A d \in F : d <= NeedLast
  <2>1. NeedLast + DayLength \in Int BY <1>1, <1>3
  <2>2. \A d \in F : Max(F) >= d BY <1>6, <1>7, <2>1, TopIs
  <2>3. \A d \in F : d \in Int BY <1>7
  <2>. QED BY <1>3, <1>6, <2>2, <2>3
<1>11. day \in F /\ \A d \in F : d < day + DayLength => d <= day
  BY <1>1, <1>3, <1>4, <1>5, <1>6, <1>7, <1>9, <1>10, WholeDays
<1> DEFINE known == {d \in F : d + DayLength <= close}
<1>12. day \in known /\ known \subseteq Int BY <1>3, <1>7, <1>11
<1>13. \A d \in known : d <= day
  <2>1. ASSUME NEW d \in known PROVE d <= day
    <3>1. d \in Int /\ d + DayLength <= close /\ d \in F BY <1>7, <2>1
    <3>2. d < day + DayLength BY <1>1, <1>2, <1>3, <3>1
    <3>. QED BY <1>11, <3>1, <3>2
  <2>. QED BY <2>1
<1> HIDE DEF known
<1>14. Max(known) = day
  <2>1. known # {} BY <1>12
  <2>2. Max(known) \in known /\ \A d \in known : Max(known) >= d
    BY <1>3, <1>12, <1>13, <2>1, TopIs
  <2>3. Max(known) <= day /\ Max(known) >= day /\ Max(known) \in Int BY <1>12, <1>13, <2>2
  <2>. QED BY <1>3, <2>3
<1>. QED BY <1>7, <1>8, <1>11, <1>12, <1>14 DEF known, day, close

\* A close reads the last day that was over by then, of an archive that has every
\* one of them: not the day it lies in, nor an older one over a gap.
THEOREM GreedReadsTheDay == ASSUME SeriesAssumption PROVE SeriesSpec => []ReadsTheLastWholeDay
<1>1. SeriesInit => SeriesInvariant BY SeriesInits
<1>2. SeriesInvariant /\ [SeriesNext]_seriesVars => SeriesInvariant' BY SeriesSteps
<1>3. SeriesInvariant => ReadsTheLastWholeDay BY ReadsTheDay DEF ReadsTheLastWholeDay
<1>. QED BY <1>1, <1>2, <1>3, PTL DEF SeriesSpec

-----------------------------------------------------------------------------
(***************************************************************************)
(* The DCA.  Its orders buy a lot or sell the round, so that the lots and  *)
(* what the template adds up of them change together; every other close    *)
(* and fill leaves both alone.                                             *)
(***************************************************************************)
DcaAssumption == LotAssumption /\ RunAssumption /\ DcaParameters

\* What the lots cost, without their charges.
Spent(lots) == [i \in DOMAIN lots |-> lots[i].qty * lots[i].entry_price]

LEMMA SpentIs ==
  ASSUME NEW lots \in Seq(Lot)
  PROVE  /\ Spent(lots) \in Seq(Int) /\ Len(Spent(lots)) = Len(lots)
         /\ \A i \in 1..Len(lots) : Spent(lots)[i] = lots[i].qty * lots[i].entry_price
<1>1. DOMAIN lots = 1..Len(lots) /\ Len(lots) \in Nat /\ \A i \in 1..Len(lots) : lots[i] \in Lot
  OBVIOUS
<1>2. \A i \in 1..Len(lots) : lots[i].qty * lots[i].entry_price \in Int
  <2>1. ASSUME NEW lot \in Lot PROVE lot.qty * lot.entry_price \in Int
    <3>1. lot.qty \in Int /\ lot.entry_price \in Int BY DEF Lot
    <3>. QED BY <3>1, Product
  <2>. QED BY <1>1, <2>1
<1>3. Spent(lots) \in [1..Len(lots) -> Int] BY <1>1, <1>2 DEF Spent
<1>. QED BY <1>1, <1>3 DEF Spent

\* One more lot.
LEMMA SpentMore ==
  ASSUME NEW lots \in Seq(Lot), NEW lot \in Lot
  PROVE  Total(Spent(Append(lots, lot))) = Total(Spent(lots)) + lot.qty * lot.entry_price
<1> DEFINE rows == Append(lots, lot)
           v == lot.qty * lot.entry_price
           vs == Spent(lots)
           rs == Spent(rows)
<1>1. /\ rows \in Seq(Lot) /\ Len(rows) = Len(lots) + 1 /\ rows[Len(lots) + 1] = lot
      /\ \A i \in 1..Len(lots) : rows[i] = lots[i]
      /\ Len(lots) \in Nat
  BY AppendIs
<1> HIDE DEF rows
<1>2. v \in Int
  <2>1. lot.qty \in Int /\ lot.entry_price \in Int BY DEF Lot
  <2>. QED BY <2>1, Product
<1>3. /\ vs \in Seq(Int) /\ Len(vs) = Len(lots)
      /\ \A i \in 1..Len(lots) : vs[i] = lots[i].qty * lots[i].entry_price
  BY SpentIs
<1>4. /\ rs \in Seq(Int) /\ Len(rs) = Len(rows)
      /\ \A i \in 1..Len(rows) : rs[i] = rows[i].qty * rows[i].entry_price
  BY <1>1, SpentIs
<1>5. rs[Len(lots) + 1] = v /\ \A i \in 1..Len(lots) : rs[i] = vs[i]
  <2>1. \A i \in 1..Len(lots) : i \in 1..Len(rows) BY <1>1
  <2>2. Len(lots) + 1 \in 1..Len(rows) BY <1>1
  <2> HIDE DEF vs, rs
  <2>. QED BY <1>1, <1>3, <1>4, <2>1, <2>2
<1> HIDE DEF v, vs, rs
<1>6. rs = Append(vs, v)
  <2>1. Append(vs, v) \in Seq(Int) /\ Len(Append(vs, v)) = Len(rs) BY <1>1, <1>2, <1>3, <1>4
  <2>2. \A i \in 1..Len(rs) : rs[i] = Append(vs, v)[i] BY <1>1, <1>2, <1>3, <1>4, <1>5
  <2>. QED BY <1>4, <2>1, <2>2, SeqEqual
<1>. QED BY <1>2, <1>3, <1>6, TotalAppend DEF v, vs, rs, rows

\* The template's sums of lots, and the price of the last.
SumsOf(qty, notional, last, lots) ==
  /\ qty = Total(Qtys(lots)) /\ notional = Total(Spent(lots))
  /\ last = IF lots = <<>> THEN None ELSE Last(lots).entry_price

\* What a buy that fills adds.
Adding(l, lots, notional, price) ==
  \E lot \in Lot : /\ lots = Append(l, lot)
                   /\ lot.qty = FloorQty(notional, price) /\ lot.entry_price = price

LEMMA BuyAdds ==
  ASSUME LotAssumption, NEW l \in Ledger, NEW at \in Int, NEW price \in Nat, price > 0,
         NEW notional \in Nat
  PROVE  LET result == Buy(l, at, price, notional)
         IN /\ result.filled => Adding(l.lots, result.ledger.lots, notional, price)
            /\ result.ledger.trades = l.trades
<1> DEFINE qty == FloorQty(notional, price)
           gross == qty * price
           fee == Charge(gross, FeeBps)
           slippage == Charge(gross, SlippageBps)
           lot == [opened_at |-> at, entry_price |-> price, qty |-> qty,
                   fee_left |-> fee, slippage_left |-> slippage]
<1>1. qty \in Nat BY Quotient DEF FloorQty
<1> HIDE DEF qty
<1>2. gross \in Nat BY <1>1, ProductNat
<1> HIDE DEF gross
<1>3. fee \in Nat /\ slippage \in Nat BY <1>2, LotParameters, ChargeNat
<1> HIDE DEF fee, slippage
<1>4. lot \in Lot /\ lot.qty = qty /\ lot.entry_price = price BY <1>1, <1>3 DEF Lot
<1>5. CASE qty = 0 BY <1>5 DEF Buy, qty
<1>6. CASE qty # 0 /\ Cost(gross, fee, slippage) > l.cash
  <2> DEFINE m == [l EXCEPT !.skipped_buys = l.skipped_buys + 1]
             result == [filled |-> FALSE, ledger |-> m]
  <2>1. Buy(l, at, price, notional) = result
    BY <1>6 DEF Buy, qty, gross, fee, slippage
  <2>2. m.trades = l.trades BY DEF Ledger
  <2> HIDE DEF m
  <2>3. result.filled = FALSE /\ result.ledger = m OBVIOUS
  <2> HIDE DEF result
  <2>. QED BY <2>1, <2>2, <2>3
<1>7. CASE qty # 0 /\ ~(Cost(gross, fee, slippage) > l.cash)
  <2> DEFINE m == Bought(l, at, price, qty, fee, slippage)
             result == [filled |-> TRUE, ledger |-> m]
  <2>1. Buy(l, at, price, notional) = result
    BY <1>7 DEF Buy, Bought, qty, gross, fee, slippage
  <2>2. m.lots = Append(l.lots, lot) /\ m.trades = l.trades BY DEF Bought, Ledger
  <2> HIDE DEF m, lot
  <2>3. Adding(l.lots, m.lots, notional, price) BY <1>4, <2>2 DEF Adding, qty
  <2>4. result.ledger = m OBVIOUS
  <2> HIDE DEF result
  <2>. QED BY <2>1, <2>2, <2>3, <2>4
<1>. QED BY <1>5, <1>6, <1>7

\* The sums of one lot more.
LEMMA SumsMore ==
  ASSUME NEW lots \in Seq(Lot), NEW more, NEW notional, NEW price,
         Adding(lots, more, notional, price), NEW qty, NEW cost, NEW last,
         SumsOf(qty, cost, last, lots)
  PROVE  LET bought == FloorQty(notional, price)
         IN SumsOf(qty + bought, cost + bought * price, price, more)
<1>1. PICK lot \in Lot : /\ more = Append(lots, lot)
                         /\ lot.qty = FloorQty(notional, price) /\ lot.entry_price = price
  BY DEF Adding
<1>2. /\ Total(Qtys(more)) = Total(Qtys(lots)) + lot.qty
      /\ Total(Spent(more)) = Total(Spent(lots)) + lot.qty * lot.entry_price
  BY <1>1, LotAdded, SpentMore
<1>3. more # <<>> /\ Last(more) = lot
  <2>1. /\ more \in Seq(Lot) /\ Len(more) = Len(lots) + 1 /\ more[Len(lots) + 1] = lot
        /\ Len(lots) \in Nat
    BY <1>1, AppendIs
  <2>. QED BY <2>1 DEF Last
<1>. QED BY <1>1, <1>2, <1>3 DEF SumsOf

LEMMA SumsNone == SumsOf(0, 0, None, <<>>)
<1>1. Qtys(<<>>) = <<>> /\ Spent(<<>>) = <<>> BY DEF Qtys, Spent
<1>. QED BY <1>1, TotalEmpty DEF SumsOf

-----------------------------------------------------------------------------
(***************************************************************************)
(* The trades of a sale.                                                   *)
(***************************************************************************)
LEMMA PortionTraded ==
  ASSUME NEW l \in Ledger, NEW qty, NEW at, NEW price, NEW kind
  PROVE  \E t : /\ SellPortion(l, qty, at, price, kind).trades = Append(l.trades, t)
                /\ t.closed_at = at /\ t.kind = kind
<1> DEFINE lot == l.lots[HeadAt(l.lots)]
           entryFee == EntryShare(lot, qty, lot.fee_left, FeeBps)
           entrySlippage == EntryShare(lot, qty, lot.slippage_left, SlippageBps)
           gross == price * qty
           fee == entryFee + ExitFee(gross)
           slippage == entrySlippage + ExitSlippage(gross)
           pnl == (price - lot.entry_price) * qty - fee - slippage
           t == [opened_at |-> lot.opened_at, closed_at |-> at, qty |-> qty,
                 entry_price |-> lot.entry_price, exit_price |-> price,
                 fee |-> fee, slippage |-> slippage, pnl |-> pnl, kind |-> kind]
           rest == [lot EXCEPT !.qty = @ - qty, !.fee_left = @ - entryFee,
                               !.slippage_left = @ - entrySlippage]
           cash == l.cash + gross - ExitFee(gross) - ExitSlippage(gross)
           realized == l.realized + pnl
           sold == l.sold + qty
           raised == l.raised \/ OutOfOrder(l.last_sold, lot)
           after == [l EXCEPT !.cash = cash, !.realized = realized, !.sold = sold,
                              !.last_sold = lot.opened_at, !.raised = raised,
                              !.trades = Append(l.trades, t)]
           closed == ClosePortion(l, lot, qty, at, price, kind)
           rows == IF qty = lot.qty THEN RemoveAt(l.lots, HeadAt(l.lots))
                   ELSE [l.lots EXCEPT ![HeadAt(l.lots)] = closed.rest]
<1>1. t.closed_at = at /\ t.kind = kind OBVIOUS
<1>2. closed = [ledger |-> after, rest |-> rest] BY Zenon DEF ClosePortion
<1>3. SellPortion(l, qty, at, price, kind) = [closed.ledger EXCEPT !.lots = rows]
  BY Zenon DEF SellPortion
<1> HIDE DEF t, rest, cash, realized, sold, raised, rows, closed, lot
<1> DEFINE x == lot.opened_at
           y == Append(l.trades, t)
<1> HIDE DEF x, y
<1>4. after.trades = y /\ DOMAIN after = DOMAIN l BY DEF x, y, Ledger
<1>5. "trades" \in DOMAIN l BY DEF Ledger
<1> HIDE DEF after
<1>6. closed.ledger = after BY <1>2
<1>7. [after EXCEPT !.lots = rows].trades = after.trades BY <1>4, <1>5
<1>. QED BY <1>1, <1>3, <1>4, <1>6, <1>7 DEF y

\* Trades that all close at a time, as a kind, came after the ones before.
TradedOn(before, after, at, kind) ==
  /\ after \in Seq(Trade) /\ Len(after) >= Len(before)
  /\ \A i \in 1..Len(before) : after[i] = before[i]
  /\ \A i \in (Len(before) + 1)..Len(after) : after[i].closed_at = at /\ after[i].kind = kind

LEMMA TradedMore ==
  ASSUME NEW before \in Seq(Trade), NEW mid, NEW at, NEW kind,
         TradedOn(before, mid, at, kind), NEW t, Append(mid, t) \in Seq(Trade),
         t.closed_at = at, t.kind = kind
  PROVE  TradedOn(before, Append(mid, t), at, kind) /\ Len(Append(mid, t)) > Len(before)
<1> DEFINE after == Append(mid, t)
<1>1. mid \in Seq(Trade) BY DEF TradedOn
<1>2. /\ Len(after) = Len(mid) + 1 /\ after[Len(mid) + 1] = t
      /\ \A i \in 1..Len(mid) : after[i] = mid[i] /\ Len(mid) \in Nat /\ Len(before) \in Nat
  <2>1. mid \in Seq(Trade \cup {t}) /\ t \in Trade \cup {t} BY <1>1
  <2>. QED BY <2>1, AppendIs
<1>3. Len(mid) \in Nat /\ Len(before) \in Nat BY <1>1
<1>4. after \in Seq(Trade) OBVIOUS
<1> HIDE DEF after
<1>5. /\ Len(mid) >= Len(before) /\ \A i \in 1..Len(before) : mid[i] = before[i]
      /\ \A i \in (Len(before) + 1)..Len(mid) : mid[i].closed_at = at /\ mid[i].kind = kind
  BY DEF TradedOn
<1>6. ASSUME NEW i \in 1..Len(before) PROVE after[i] = before[i]
  <2>1. i \in 1..Len(mid) BY <1>3, <1>5
  <2>. QED BY <1>2, <1>5, <2>1
<1>7. ASSUME NEW i \in (Len(before) + 1)..Len(after)
      PROVE  after[i].closed_at = at /\ after[i].kind = kind
  <2>1. CASE i = Len(mid) + 1 BY <1>2, <2>1
  <2>2. CASE i # Len(mid) + 1
    <3>1. i \in 1..Len(mid) /\ i \in (Len(before) + 1)..Len(mid) BY <1>2, <1>3, <2>2
    <3>. QED BY <1>2, <1>5, <3>1
  <2>. QED BY <2>1, <2>2
<1>8. Len(after) > Len(before) BY <1>2, <1>3, <1>5
<1>9. TradedOn(before, after, at, kind) BY <1>3, <1>4, <1>6, <1>7, <1>8 DEF TradedOn
<1>. QED BY <1>8, <1>9 DEF after

\* A sale of some of what is held closes trades, all at its open, and no other trade changes.
LEMMA QtyTraded ==
  ASSUME LotAssumption, NEW now \in Int, NEW l, Book(l, now),
         NEW target \in Nat, target <= Holding(l),
         NEW at \in Int, NEW price \in Nat, NEW kind \in TradeKinds, Closes(at, kind)
  PROVE  LET m == SellQty(l, target, at, price, kind)
         IN /\ TradedOn(l.trades, m.trades, at, kind)
            /\ target > 0 => Len(m.trades) > Len(l.trades)
<1> DEFINE L == Len(l.lots)
           f == SellSteps(l, target, at, price, kind)
           before == l.trades
           Added(n) == TradedOn(before, f[n].ledger.trades, at, kind)
           S == {n \in 0..L : /\ Selling(f[n], l, target, now, L - n)
                              /\ TradedOn(before, f[n].ledger.trades, at, kind)
                              /\ n = 0 \/ target = 0 \/ Len(f[n].ledger.trades) > Len(before)}
<1>1. l \in Ledger BY DEF Book
<1>2. /\ L \in Nat /\ Holding(l) \in Nat /\ before \in Seq(Trade)
      /\ l.lots = <<>> => Holding(l) = 0
  <2>1. l.lots \in Seq(Lot) /\ l.trades \in Seq(Trade) BY <1>1, BookTypes
  <2>. QED BY <1>1, <2>1, HoldingIs
<1>3. f = [n \in 0..L |-> SellStep(l, target, at, price, kind, f, n)] BY <1>2, StepsExist
<1> HIDE DEF f
<1>4. f[0] = [left |-> target, ledger |-> l]
  <2>1. 0 \in 0..L BY <1>2
  <2> HIDE DEF L
  <2>2. f[0] = SellStep(l, target, at, price, kind, f, 0) BY <1>3, <2>1
  <2>. QED BY <2>2 DEF SellStep
<1>5. \A n \in 1..L : f[n] = SellNext(f[n - 1], at, price, kind)
  <2>1. ASSUME NEW n \in 1..L PROVE f[n] = SellNext(f[n - 1], at, price, kind)
    <3>1. n \in 0..L /\ n # 0 BY <1>2
    <3> HIDE DEF L
    <3>2. f[n] = SellStep(l, target, at, price, kind, f, n) BY <1>3, <3>1
    <3>. QED BY <3>1, <3>2 DEF SellStep
  <2>. QED BY <2>1
<1>6. 0 \in S
  <2> DEFINE acc == [left |-> target, ledger |-> l]
  <2>1. acc.left = target /\ acc.ledger = l OBVIOUS
  <2> HIDE DEF acc
  <2>2. Selling(acc, l, target, now, L) BY <1>2, <2>1 DEF Selling
  <2>3. TradedOn(before, before, at, kind) BY <1>2 DEF TradedOn
  <2>4. L - 0 = L /\ 0 \in 0..L BY <1>2
  <2>. QED BY <1>4, <2>1, <2>2, <2>3, <2>4 DEF acc
<1> HIDE DEF before
<1>7. ASSUME NEW n \in 1..L, n - 1 \in S PROVE n \in S
  <2> DEFINE k == L - (n - 1)
             acc == f[n - 1]
             b == acc.ledger
             next == f[n]
  <2>1. k \in Int /\ k - 1 = L - n /\ n \in 0..L BY <1>2
  <2>2. /\ Selling(acc, l, target, now, k) /\ TradedOn(before, b.trades, at, kind)
        /\ n - 1 = 0 \/ target = 0 \/ Len(b.trades) > Len(before)
    BY <1>7
  <2>3. next = SellNext(acc, at, price, kind) BY <1>5
  <2>4. n - 1 = 0 => acc.left = target BY <1>4
  <2> HIDE DEF k, acc, next, L, b
  <2>5. Selling(next, l, target, now, k - 1)
    BY <1>1, <2>1, <2>2, <2>3, NextSold
  <2>6. /\ TradedOn(before, next.ledger.trades, at, kind)
        /\ target = 0 \/ Len(next.ledger.trades) > Len(before)
    <3>1. CASE acc.left = 0
      <4>1. next = acc BY <2>3, <3>1 DEF SellNext
      <4>. QED BY <2>2, <2>4, <3>1, <4>1 DEF b
    <3>2. CASE acc.left # 0
      <4> DEFINE portion == Lesser(b.lots[HeadAt(b.lots)].qty, acc.left)
                 m == SellPortion(b, portion, at, price, kind)
      <4>1. next.ledger = m BY <2>3, <3>2 DEF SellNext, b
      <4>2. b \in Ledger BY <2>2 DEF Selling, Book, b
      <4> HIDE DEF portion
      <4>3. PICK t : m.trades = Append(b.trades, t) /\ t.closed_at = at /\ t.kind = kind
        BY <4>2, PortionTraded
      <4> HIDE DEF m
      <4>4. m.trades \in Seq(Trade)
        <5>1. m \in Ledger BY <2>5, <4>1 DEF Selling, Book
        <5>. QED BY <5>1, BookTypes
      <4>. QED BY <1>2, <2>2, <4>1, <4>3, <4>4, TradedMore
    <3>. QED BY <3>1, <3>2
  <2>. QED BY <2>1, <2>5, <2>6 DEF next
<1>8. L \in S
  <2> HIDE DEF S, L
  <2>1. \A n \in 0..L : n \in S BY <1>2, <1>6, <1>7, AllUpTo
  <2>. QED BY <1>2, <2>1
<1>9. SellQty(l, target, at, price, kind) = f[L].ledger BY SaleIsSteps DEF f
<1>10. target > 0 => L # 0
  <2>1. CASE L = 0
    <3>1. l.lots \in Seq(Lot) BY <1>1, BookTypes
    <3>2. l.lots = <<>> BY <2>1, <3>1
    <3>. QED BY <1>2, <3>2
  <2>. QED BY <2>1
<1> HIDE DEF L
<1>11. /\ TradedOn(before, f[L].ledger.trades, at, kind)
       /\ target > 0 => Len(f[L].ledger.trades) > Len(before)
  BY <1>8, <1>10
<1>. QED BY <1>9, <1>11 DEF before

\* When rounds were sold.
SoldAt(trades) ==
  {trades[i].closed_at : i \in {k \in 1..Len(trades) : trades[k].kind # "end_of_data"}}

LEMMA SoldOnce ==
  ASSUME NEW before \in Seq(Trade), NEW after, NEW at, NEW kind,
         TradedOn(before, after, at, kind)
  PROVE  /\ kind = "end_of_data" => SoldAt(after) = SoldAt(before)
         /\ kind # "end_of_data" /\ Len(after) > Len(before) => SoldAt(after) = SoldAt(before) \cup {at}
<1>1. /\ after \in Seq(Trade) /\ Len(after) >= Len(before)
      /\ Len(after) \in Nat /\ Len(before) \in Nat
      /\ \A i \in 1..Len(before) : after[i] = before[i]
      /\ \A i \in (Len(before) + 1)..Len(after) : after[i].closed_at = at /\ after[i].kind = kind
  BY DEF TradedOn
<1>2. \A i \in 1..Len(before) : i \in 1..Len(after) BY <1>1
<1>3. \A i \in 1..Len(after) : i \in 1..Len(before) \/ i \in (Len(before) + 1)..Len(after) BY <1>1
<1>4. SoldAt(before) \subseteq SoldAt(after) BY <1>1, <1>2 DEF SoldAt
<1>5. kind = "end_of_data" => SoldAt(after) \subseteq SoldAt(before) BY <1>1, <1>3 DEF SoldAt
<1>6. SoldAt(after) \subseteq SoldAt(before) \cup {at} BY <1>1, <1>3 DEF SoldAt
<1>7. ASSUME kind # "end_of_data", Len(after) > Len(before) PROVE at \in SoldAt(after)
  <2>1. Len(after) \in 1..Len(after) /\ Len(after) \in (Len(before) + 1)..Len(after) BY <1>1, <1>7
  <2>2. after[Len(after)].closed_at = at /\ after[Len(after)].kind # "end_of_data" BY <1>1, <1>7, <2>1
  <2>. QED BY <2>1, <2>2 DEF SoldAt
<1>. QED BY <1>4, <1>5, <1>6, <1>7

\* What a fill of the template's orders does to lots and trades.
LEMMA DcaFill ==
  ASSUME LotAssumption, RunAssumption, RunOK, phase = "open", NEW price \in OpenPrices,
         pending.action \in {"hold", "buy", "sell_all"}
  PROVE  LET result == Fill(price)
         IN /\ pending.action = "buy" /\ result.filled =>
                 Adding(ledger.lots, result.ledger.lots, pending.notional, price)
            /\ pending.action # "sell_all" \/ ~result.filled => result.ledger.trades = ledger.trades
            /\ pending.action = "sell_all" /\ result.filled =>
                 SoldAt(result.ledger.trades) = SoldAt(ledger.trades) \cup {OpenTime(bar)}
            /\ \A i \in 1..Len(result.ledger.trades) :
                 result.ledger.trades[i].closed_at <= OpenTime(bar)
                   \/ (i \in 1..Len(ledger.trades) /\ result.ledger.trades[i] = ledger.trades[i])
<1> DEFINE at == OpenTime(bar)
           before == at - 1
           fresh == BeginBar(ledger)
           result == Fill(price)
           kind == ExitKind
<1>1. at \in Int /\ before \in Int /\ before < at
  <2>1. bar \in Nat BY DEF RunOK
  <2>2. at \in Nat BY <2>1, Times
  <2> HIDE DEF at
  <2>. QED BY <2>2
<1>2. Book(ledger, before) BY DEF RunOK, Seen
<1>3. /\ Book(fresh, before) /\ fresh.lots = ledger.lots /\ fresh.trades = ledger.trades
  BY <1>2, BeginBarKeeps
<1>4. fresh \in Ledger /\ ledger.trades \in Seq(Trade)
  <2>1. fresh \in Ledger /\ ledger \in Ledger BY <1>2, <1>3 DEF Book
  <2>. QED BY <2>1, BookTypes
<1> HIDE DEF before
<1>5. price \in Nat /\ price > 0 BY DEF RunAssumption
<1>6. OrderOK(pending) /\ (pending.action # "hold" => at > 0 /\ at < EndAt) BY DEF RunOK
<1>7. kind \in TradeKinds /\ kind # "end_of_data"
  <2>1. pending.kind \in OrderKinds BY <1>6 DEF OrderOK
  <2>2. pending.kind \in TradeKinds /\ pending.kind # "end_of_data"
    BY <2>1 DEF OrderKinds, TradeKinds
  <2>3. "time_exit" \in TradeKinds /\ "time_exit" # "end_of_data" BY DEF TradeKinds
  <2>. QED BY <2>2, <2>3 DEF ExitKind
<1>8. pending.action # "hold" => Closes(at, kind)
  <2>1. EndAt \in Int BY Times
  <2>2. at < EndAt => at # EndAt BY <1>1, <2>1
  <2>. QED BY <1>6, <1>7, <2>2 DEF Closes
<1> HIDE DEF at, fresh, kind, result
<1>9. CASE pending.action = "buy"
  <2>1. result = Buy(fresh, at, price, pending.notional)
    BY <1>9 DEF Fill, result, fresh, at
  <2>2. pending.notional \in Nat BY <1>6 DEF OrderOK
  <2> DEFINE notional == pending.notional
  <2> HIDE DEF notional
  <2>3. /\ Buy(fresh, at, price, notional).filled =>
             Adding(fresh.lots, Buy(fresh, at, price, notional).ledger.lots, notional, price)
        /\ Buy(fresh, at, price, notional).ledger.trades = fresh.trades
    BY <1>1, <1>4, <1>5, <2>2, BuyAdds DEF notional
  <2>4. /\ result.filled => Adding(ledger.lots, result.ledger.lots, notional, price)
        /\ result.ledger.trades = ledger.trades
    BY <1>3, <2>1, <2>3, Zenon DEF notional
  <2>. QED BY <1>9, <2>4 DEF result, notional
<1>10. CASE pending.action = "hold"
  <2>1. result = Unfilled(fresh) BY <1>10 DEF Fill, result, fresh, Unfilled
  <2>2. result.filled = FALSE /\ result.ledger = fresh BY <2>1 DEF Unfilled
  <2>3. result.ledger.trades = ledger.trades BY <1>3, <2>2
  <2>. QED BY <1>10, <2>3 DEF result
<1>11. CASE pending.action = "sell_all"
  <2>1. result = SellAll(fresh, at, price, kind) BY <1>11 DEF Fill, result, fresh, at, kind
  <2>2. CASE fresh.lots = <<>>
    <3>1. result = Unfilled(fresh) BY <2>1, <2>2 DEF SellAll, Unfilled
    <3>2. result.filled = FALSE /\ result.ledger = fresh BY <3>1 DEF Unfilled
    <3>3. result.ledger.trades = ledger.trades BY <1>3, <3>2
    <3>. QED BY <1>11, <3>2, <3>3 DEF result
  <2>3. CASE fresh.lots # <<>>
    <3> DEFINE m == SellQty(fresh, Holding(fresh), at, price, kind)
    <3>1. result = [filled |-> TRUE, ledger |-> CountSell(m)] BY <2>1, <2>3 DEF SellAll
    <3>2. Book(fresh, at) BY <1>1, <1>3, BookLater
    <3>3. Holding(fresh) \in Nat /\ Holding(fresh) <= Holding(fresh) BY <1>4, HoldingIs
    <3>4. Holding(fresh) > 0
      <4>1. fresh.lots \in Seq(Lot) BY <1>4, BookTypes
      <4>2. 1 \in 1..Len(fresh.lots) /\ fresh.lots[1] \in Lot BY <2>3, <4>1
      <4>3. fresh.lots[1].qty > 0 /\ fresh.lots[1].qty \in Nat
        BY <3>2, <4>2 DEF Book, Queued, Lot
      <4>4. fresh.lots[1].qty <= Holding(fresh) BY <1>4, <4>2, HoldingIs
      <4>. QED BY <3>3, <4>3, <4>4
    <3>5. /\ TradedOn(fresh.trades, m.trades, at, kind) /\ Len(m.trades) > Len(fresh.trades)
      BY <1>1, <1>5, <1>7, <1>8, <1>11, <3>2, <3>3, <3>4, QtyTraded
    <3>6. Book(m, at) BY <1>1, <1>5, <1>7, <1>8, <1>11, <3>2, <3>3, QtySold
    <3> HIDE DEF m
    <3>7. CountSell(m).trades = m.trades BY <3>6 DEF CountSell, Book, Ledger
    <3>8. result.filled = TRUE /\ result.ledger.trades = m.trades BY <3>1, <3>7
    <3>9. SoldAt(m.trades) = SoldAt(ledger.trades) \cup {at}
      BY <1>3, <1>4, <1>7, <3>5, SoldOnce
    <3>10. ASSUME NEW i \in 1..Len(m.trades)
           PROVE  m.trades[i].closed_at <= at
                  \/ (i \in 1..Len(ledger.trades) /\ m.trades[i] = ledger.trades[i])
      <4>1. CASE i \in 1..Len(ledger.trades) BY <1>3, <3>5, <4>1 DEF TradedOn
      <4>2. CASE i \notin 1..Len(ledger.trades)
        <5>1. Len(m.trades) \in Nat /\ Len(ledger.trades) \in Nat BY <1>4, <3>5 DEF TradedOn
        <5>2. i \in (Len(ledger.trades) + 1)..Len(m.trades) BY <4>2, <5>1
        <5>3. m.trades[i].closed_at = at BY <1>3, <3>5, <5>2 DEF TradedOn
        <5>. QED BY <1>1, <5>3
      <4>. QED BY <4>1, <4>2
    <3>. QED BY <1>11, <3>8, <3>9, <3>10 DEF result, at
  <2>. QED BY <2>2, <2>3
<1>. QED BY <1>9, <1>10, <1>11

\* What the template asks for.
LEMMA DcaSignals ==
  ASSUME DcaAssumption, NEW price
  PROVE  LET s == DcaSignal(price)
         IN /\ s \in Signals \cup {Hold}
            /\ s.action \in {"hold", "buy", "sell_all"}
            /\ ~AtTarget(price) /\ Dipped(price) => s.action = "buy"
            /\ Hold.action = "hold" /\ Signal("sell_all").action = "sell_all"
<1> DEFINE s == DcaSignal(price)
           dip == [Signal("buy") EXCEPT !.notional = DipAmount]
           all == [Signal("sell_all") EXCEPT !.kind = "take_profit"]
<1>1. Signals = {Signal("buy"), dip, all} BY DEF DcaAssumption, DcaParameters
<1>2. /\ Signal("buy").action = "buy" /\ Signal("sell_all").action = "sell_all"
      /\ Hold.action = "hold" /\ dip.action = "buy" /\ all.action = "sell_all"
  BY DEF Signal, Hold
<1>3. s \in {all, dip, Signal("buy"), Hold} /\ (~AtTarget(price) /\ Dipped(price) => s = dip)
  BY DEF DcaSignal
<1> HIDE DEF s, dip, all
<1>4. /\ s \in Signals \cup {Hold} /\ s.action \in {"hold", "buy", "sell_all"}
      /\ ~AtTarget(price) /\ Dipped(price) => s.action = "buy"
  BY <1>1, <1>2, <1>3
<1>. QED BY <1>2, <1>4 DEF s

\* Every step of the template is one of the run.
LEMMA DcaStep ==
  ASSUME DcaAssumption, [DcaNext]_dcaVars PROVE [Next]_vars
<1>1. ASSUME NEW price \in OpenPrices, DcaOpen(price) PROVE Next BY <1>1 DEF DcaOpen, Next
<1>2. ASSUME NEW price \in ClosePrices, DcaClose(price) PROVE Next
  <2>1. CASE ~Asks BY <1>2, <2>1 DEF DcaClose, Next
  <2>2. CASE Asks
    <3>1. CloseBar(price, DcaSignal(price)) BY <1>2, <2>2 DEF DcaClose
    <3>2. DcaSignal(price) \in Signals \cup {Hold} BY DcaSignals
    <3>. QED BY <3>1, <3>2 DEF Next
  <2>. QED BY <2>1, <2>2
<1>3. CASE Finish /\ UNCHANGED roundMemory BY <1>3 DEF Next
<1>4. CASE UNCHANGED dcaVars BY <1>4 DEF dcaVars
<1>. QED BY <1>1, <1>2, <1>3, <1>4 DEF DcaNext

RoundOK ==
  phase \in {"open", "close", "end"} =>
    /\ SumsOf(roundQty, roundNotional, lastBuyPrice, ledger.lots)
    /\ pending.action \in {"hold", "buy", "sell_all"}
    /\ phase = "open" /\ pending.action = "buy" => pendingAmount = pending.notional

\* The dips asked for since bar e.
DipsFrom(asked, e) == {i \in asked : i >= e}
DipsOf(spent, asked, e) == spent = Cardinality(DipsFrom(asked, e))

DipsOK ==
  phase \in {"open", "close"} =>
    /\ dips \subseteq 0..(bar - 1) /\ dipAdds \in 0..MaxDipAdds
    /\ ledger.lots = <<>> => dipAdds = 0
    /\ ledger.lots # <<>> => \E e \in 0..bar : Since(held, e, bar) /\ DipsOf(dipAdds, dips, e)

SalesOK ==
  /\ IsFiniteSet(SoldAt(ledger.trades))
  /\ roundsCompleted = Cardinality(SoldAt(ledger.trades))
  /\ phase \in {"open", "close", "end"} =>
       \A i \in 1..Len(ledger.trades) : ledger.trades[i].closed_at <= Seen

DcaInvariant == RunInvariant /\ RoundOK /\ DipsOK /\ SalesOK

LEMMA DcaInits == ASSUME DcaAssumption, DcaInit PROVE DcaInvariant
<1>1. RunInvariant BY RunInit, ClockInit DEF DcaInit, DcaAssumption, RunInvariant
<1>2. /\ ledger.lots = <<>> /\ ledger.trades = <<>> /\ pending.action = "hold"
      /\ roundQty = 0 /\ roundNotional = 0 /\ lastBuyPrice = None /\ dipAdds = 0
      /\ dips = {} /\ roundsCompleted = 0
  BY DEF DcaInit, Init, FirstRound, EmptyLedger, Hold, Signal
<1>3. RoundOK BY <1>2, SumsNone DEF RoundOK
<1>4. DipsOK
  <2>1. 0 \in 0..MaxDipAdds BY DEF DcaAssumption, DcaParameters
  <2>. QED BY <1>2, <2>1 DEF DipsOK
<1>5. SoldAt(ledger.trades) = {} BY <1>2 DEF SoldAt
<1>6. SalesOK
  <2>1. IsFiniteSet(SoldAt(ledger.trades)) /\ Cardinality(SoldAt(ledger.trades)) = 0
    BY <1>5, FS_EmptySet
  <2>2. \A i \in 1..Len(ledger.trades) : FALSE
    <3>1. Len(ledger.trades) = 0 BY <1>2
    <3>. QED BY <3>1
  <2>. QED BY <1>2, <2>1, <2>2 DEF SalesOK
<1>. QED BY <1>1, <1>3, <1>4, <1>6 DEF DcaInvariant

\* The memory after a fill.
LEMMA RoundFill ==
  ASSUME NEW filled \in BOOLEAN, NEW price, OnRoundFill(filled, price),
         filled => pending.action \in {"buy", "sell_all"}
  PROVE  /\ dips' = dips
         /\ ~filled => UNCHANGED <<roundQty, roundNotional, lastBuyPrice, dipAdds, roundsCompleted>>
         /\ filled /\ pending.action = "buy" =>
              /\ roundQty' = roundQty + FloorQty(pendingAmount, price)
              /\ roundNotional' = roundNotional + FloorQty(pendingAmount, price) * price
              /\ lastBuyPrice' = price /\ dipAdds' = dipAdds /\ roundsCompleted' = roundsCompleted
         /\ filled /\ pending.action = "sell_all" =>
              /\ roundQty' = 0 /\ roundNotional' = 0 /\ lastBuyPrice' = None
              /\ dipAdds' = 0 /\ roundsCompleted' = roundsCompleted + 1
<1>1. CASE ~filled BY <1>1 DEF OnRoundFill, roundMemory
<1>2. CASE filled /\ pending.action = "buy" BY <1>2 DEF OnRoundFill, FilledQty
<1>3. CASE filled /\ pending.action = "sell_all" BY <1>3 DEF OnRoundFill
<1>. QED BY <1>1, <1>2, <1>3

LEMMA DcaOpens ==
  ASSUME DcaAssumption, DcaInvariant, NEW price \in OpenPrices, DcaOpen(price)
  PROVE  RoundOK' /\ DipsOK' /\ SalesOK'
<1> DEFINE result == Fill(price)
           l == result.ledger
           at == OpenTime(bar)
<1>0. LotAssumption /\ RunAssumption /\ RunOK /\ ClockOK
  BY DEF DcaAssumption, DcaInvariant, RunInvariant
<1>1. OpenBar(price) /\ OnRoundFill(result.filled, price) BY DEF DcaOpen
<1>2. /\ phase = "open" /\ FillOK(result) /\ ledger' = l /\ phase' = "close" /\ bar' = bar
      /\ Booked(result, l, price)
  BY <1>0, <1>1, OpenIs
<1>3. /\ SumsOf(roundQty, roundNotional, lastBuyPrice, ledger.lots)
      /\ pending.action \in {"hold", "buy", "sell_all"}
      /\ pending.action = "buy" => pendingAmount = pending.notional
  BY <1>2 DEF DcaInvariant, RoundOK
<1>4. /\ pending.action = "buy" /\ result.filled =>
           Adding(ledger.lots, l.lots, pending.notional, price)
      /\ pending.action # "sell_all" \/ ~result.filled => l.trades = ledger.trades
      /\ pending.action = "sell_all" /\ result.filled =>
           SoldAt(l.trades) = SoldAt(ledger.trades) \cup {at}
      /\ \A i \in 1..Len(l.trades) :
           l.trades[i].closed_at <= at
             \/ (i \in 1..Len(ledger.trades) /\ l.trades[i] = ledger.trades[i])
  BY <1>0, <1>2, <1>3, DcaFill
<1> HIDE DEF result
<1>5. /\ pending' = pending /\ held' = held BY <1>2 DEF Booked
<1>6. /\ result.filled \in BOOLEAN
      /\ ~result.filled => l.lots = ledger.lots /\ l.trades = ledger.trades
      /\ result.filled => pending.action # "hold"
      /\ pending.action = "buy" /\ result.filled => l.lots # <<>>
      /\ pending.action = "sell_all" => (result.filled <=> ledger.lots # <<>>) /\ l.lots = <<>>
  BY <1>2 DEF FillOK, FillKeeps
<1>7. /\ dips' = dips
      /\ ~result.filled =>
           UNCHANGED <<roundQty, roundNotional, lastBuyPrice, dipAdds, roundsCompleted>>
      /\ result.filled /\ pending.action = "buy" =>
           /\ roundQty' = roundQty + FloorQty(pendingAmount, price)
           /\ roundNotional' = roundNotional + FloorQty(pendingAmount, price) * price
           /\ lastBuyPrice' = price /\ dipAdds' = dipAdds /\ roundsCompleted' = roundsCompleted
      /\ result.filled /\ pending.action = "sell_all" =>
           /\ roundQty' = 0 /\ roundNotional' = 0 /\ lastBuyPrice' = None
           /\ dipAdds' = 0 /\ roundsCompleted' = roundsCompleted + 1
  BY <1>1, <1>3, <1>6, RoundFill
<1>8. /\ Book(ledger, at - 1) /\ at \in Int /\ bar \in Nat
  <2>1. bar \in Nat BY <1>0 DEF RunOK
  <2>2. at \in Nat BY <1>0, <2>1, Times
  <2>3. Seen = at - 1 BY <1>2 DEF Seen
  <2> HIDE DEF at
  <2>. QED BY <1>0, <2>1, <2>2, <2>3 DEF RunOK
<1>9. ledger.lots \in Seq(Lot) /\ ledger.trades \in Seq(Trade)
  <2>1. ledger \in Ledger BY <1>8 DEF Book
  <2>. QED BY <2>1, BookTypes
<1>10. phase' = "close" /\ ledger'.lots = l.lots /\ ledger'.trades = l.trades
       /\ bar' = bar /\ Seen' = at
  BY <1>2 DEF Seen, OpenTime
<1>11. RoundOK'
  <2>1. CASE ~result.filled
    <3>1. UNCHANGED <<roundQty, roundNotional, lastBuyPrice>> /\ l.lots = ledger.lots
      BY <1>6, <1>7, <2>1
    <3>2. SumsOf(roundQty', roundNotional', lastBuyPrice', ledger'.lots) BY <1>3, <1>10, <3>1
    <3>. QED BY <1>3, <1>5, <1>10, <3>2 DEF RoundOK
  <2>2. CASE result.filled /\ pending.action = "buy"
    <3>1. SumsOf(roundQty + FloorQty(pendingAmount, price),
                roundNotional + FloorQty(pendingAmount, price) * price, price, l.lots)
      BY <1>3, <1>4, <1>9, <2>2, SumsMore
    <3>2. SumsOf(roundQty', roundNotional', lastBuyPrice', ledger'.lots) BY <1>7, <1>10, <2>2, <3>1
    <3>. QED BY <1>3, <1>5, <1>10, <3>2 DEF RoundOK
  <2>3. CASE result.filled /\ pending.action = "sell_all"
    <3>1. SumsOf(roundQty', roundNotional', lastBuyPrice', ledger'.lots)
      BY <1>6, <1>7, <1>10, <2>3, SumsNone
    <3>. QED BY <1>3, <1>5, <1>10, <3>1 DEF RoundOK
  <2>. QED BY <1>3, <1>6, <2>1, <2>2, <2>3
<1>12. DipsOK'
  <2>0. /\ dips \subseteq 0..(bar - 1) /\ dipAdds \in 0..MaxDipAdds
        /\ ledger.lots = <<>> => dipAdds = 0
        /\ ledger.lots # <<>> => \E e \in 0..bar : Since(held, e, bar) /\ DipsOf(dipAdds, dips, e)
        /\ bar > 0 => (held[bar] <=> ledger.lots # <<>>)
    BY <1>0, <1>2 DEF DcaInvariant, DipsOK, ClockOK
  <2>1. MaxDipAdds \in Nat BY DEF DcaAssumption, DcaParameters
  <2>2. SUFFICES /\ dipAdds' \in 0..MaxDipAdds
                 /\ l.lots = <<>> => dipAdds' = 0
                 /\ l.lots # <<>> => \E e \in 0..bar : Since(held, e, bar) /\ DipsOf(dipAdds', dips, e)
    <3>1. dips' \subseteq 0..(bar' - 1) BY <1>7, <1>10, <2>0
    <3>2. ASSUME NEW e PROVE (Since(held, e, bar) <=> Since(held', e, bar'))
                             /\ (DipsOf(dipAdds', dips, e) <=> DipsOf(dipAdds', dips', e))
      BY <1>5, <1>7, <1>10
    <3>. QED BY <1>10, <2>2, <3>1, <3>2 DEF DipsOK
  <2>3. CASE ~result.filled BY <1>6, <1>7, <2>0, <2>3
  <2>4. CASE result.filled /\ pending.action = "sell_all" BY <1>6, <1>7, <2>1, <2>4
  <2>5. CASE result.filled /\ pending.action = "buy"
    <3>1. dipAdds' = dipAdds /\ l.lots # <<>> BY <1>6, <1>7, <2>5
    <3>2. CASE ledger.lots # <<>> BY <2>0, <3>1, <3>2
    <3>3. CASE ledger.lots = <<>>
      <4>1. Since(held, bar, bar)
        <5>1. bar = 0 \/ ~held[bar] BY <1>8, <2>0, <3>3
        <5>2. (bar + 1)..bar = {} BY <1>8
        <5>. QED BY <5>1, <5>2 DEF Since
      <4>2. DipsFrom(dips, bar) = {}
        <5>1. \A i \in 0..(bar - 1) : ~(i >= bar) BY <1>8
        <5>. QED BY <2>0, <5>1 DEF DipsFrom
      <4>3. DipsOf(0, dips, bar) BY <4>2, FS_EmptySet DEF DipsOf
      <4>4. dipAdds' = 0 /\ bar \in 0..bar BY <1>8, <2>0, <3>1, <3>3
      <4>. QED BY <2>0, <3>1, <4>1, <4>3, <4>4
    <3>. QED BY <3>2, <3>3
  <2>. QED BY <1>3, <1>6, <2>3, <2>4, <2>5
<1>13. SalesOK'
  <2>0. /\ IsFiniteSet(SoldAt(ledger.trades)) /\ roundsCompleted = Cardinality(SoldAt(ledger.trades))
        /\ \A i \in 1..Len(ledger.trades) : ledger.trades[i].closed_at <= at - 1
    <3>1. Seen = at - 1 BY <1>2 DEF Seen
    <3>. QED BY <1>2, <3>1 DEF DcaInvariant, SalesOK
  <2>1. \A i \in 1..Len(ledger.trades) : ledger.trades[i].closed_at \in Int
    <3>1. \A i \in 1..Len(ledger.trades) : ledger.trades[i] \in Trade BY <1>9
    <3>. QED BY <3>1 DEF Trade
  <2> HIDE DEF at, l
  <2>2. \A i \in 1..Len(ledger.trades) : ledger.trades[i].closed_at < at BY <1>8, <2>0, <2>1
  <2>3. \A i \in 1..Len(l.trades) : l.trades[i].closed_at <= at
    <3>1. \A i \in 1..Len(ledger.trades) : ledger.trades[i].closed_at <= at BY <1>8, <2>1, <2>2
    <3>. QED BY <1>4, <3>1
  <2>4. at \notin SoldAt(ledger.trades) BY <1>8, <2>1, <2>2 DEF SoldAt
  <2>5. IsFiniteSet(SoldAt(l.trades)) /\ roundsCompleted' = Cardinality(SoldAt(l.trades))
    <3>1. CASE result.filled /\ pending.action = "sell_all"
      <4>1. SoldAt(l.trades) = SoldAt(ledger.trades) \cup {at} BY <1>4, <3>1
      <4>. QED BY <1>7, <2>0, <2>4, <3>1, <4>1, FS_AddElement
    <3>2. CASE ~(result.filled /\ pending.action = "sell_all")
      <4>1. l.trades = ledger.trades BY <1>4, <3>2
      <4>2. roundsCompleted' = roundsCompleted BY <1>3, <1>6, <1>7, <3>2
      <4>. QED BY <2>0, <4>1, <4>2
    <3>. QED BY <3>1, <3>2
  <2>. QED BY <1>10, <2>3, <2>5 DEF SalesOK
<1>. QED BY <1>11, <1>12, <1>13

LEMMA DcaCloses ==
  ASSUME DcaAssumption, DcaInvariant, NEW price \in ClosePrices, DcaClose(price)
  PROVE  RoundOK' /\ DipsOK' /\ SalesOK'
<1> DEFINE signal == IF Asks THEN DcaSignal(price) ELSE Hold
           dip == Asks /\ ~Blocked(signal) /\ ~AtTarget(price) /\ Dipped(price)
<1>0. LotAssumption /\ RunAssumption /\ RunOK /\ CurveOK /\ ClockOK
  BY DEF DcaAssumption, DcaInvariant, RunInvariant
<1>1. /\ signal \in Signals \cup {Hold} /\ signal.action \in {"hold", "buy", "sell_all"}
      /\ ~AtTarget(price) /\ Dipped(price) /\ Asks => signal.action = "buy"
      /\ Hold.action = "hold" /\ Signal("sell_all").action = "sell_all"
  BY DcaSignals
<1>2. CloseBar(price, signal) BY DEF DcaClose
<1>3. /\ UNCHANGED <<roundNotional, roundQty, lastBuyPrice, roundsCompleted>>
      /\ dipAdds' = IF dip THEN dipAdds + 1 ELSE dipAdds
      /\ dips' = IF dip THEN dips \cup {bar} ELSE dips
      /\ Asks /\ ~Blocked(signal) /\ signal.action = "buy" => pendingAmount' = signal.notional
  <2>1. CASE ~Asks BY <1>1, <2>1 DEF DcaClose, roundMemory
  <2>2. CASE Asks /\ Blocked(signal) BY <2>2 DEF DcaClose, RollBack, roundMemory
  <2>3. CASE Asks /\ ~Blocked(signal) BY <2>3 DEF DcaClose, RememberAsk
  <2>. QED BY <2>1, <2>2, <2>3
<1>4. dip => Dipped(price) OBVIOUS
<1>5. /\ pending' = Decide(signal).pending
      /\ held' = Append(held, ledger.lots # <<>>)
      /\ bar' = IF bar < LastBar THEN bar + 1 ELSE bar
  BY <1>2 DEF CloseBar
<1> HIDE DEF signal, dip
<1>6. /\ ledger' = ledger /\ phase = "close"
      /\ phase' = IF bar < LastBar THEN "open" ELSE "end"
  BY <1>0, <1>1, <1>2, RunCloses
<1>7. /\ SumsOf(roundQty, roundNotional, lastBuyPrice, ledger.lots)
      /\ dips \subseteq 0..(bar - 1) /\ dipAdds \in 0..MaxDipAdds
      /\ ledger.lots = <<>> => dipAdds = 0
      /\ ledger.lots # <<>> => \E e \in 0..bar : Since(held, e, bar) /\ DipsOf(dipAdds, dips, e)
  BY <1>6 DEF DcaInvariant, RoundOK, DipsOK
<1>8. bar \in Nat /\ bar \in 0..LastBar /\ LastBar \in Nat /\ MaxDipAdds \in Nat
      /\ held \in Seq(BOOLEAN) /\ Len(held) = bar
  <2>1. bar \in 0..LastBar /\ LastBar \in Nat BY <1>0, Times DEF RunOK
  <2>2. held \in Seq(BOOLEAN) /\ Len(held) = bar BY <1>0, <1>6 DEF ClockOK
  <2>3. MaxDipAdds \in Nat BY DEF DcaAssumption, DcaParameters
  <2>. QED BY <2>1, <2>2, <2>3
<1>9. RoundOK'
  <2>1. SumsOf(roundQty', roundNotional', lastBuyPrice', ledger'.lots) BY <1>3, <1>6, <1>7
  <2>2. /\ pending'.action \in {"hold", "buy", "sell_all"}
        /\ pending'.action = "buy" => pendingAmount' = pending'.notional
    <3>1. CASE ~Asks
      <4>1. pending' \in {Hold, Signal("sell_all")} BY <1>5, <3>1 DEF Asks, Decide
      <4>. QED BY <1>1, <4>1
    <3>2. CASE Asks
      <4>1. pending' = IF Blocked(signal) THEN Hold ELSE signal BY <1>5, <3>2 DEF Asks, Decide
      <4>. QED BY <1>1, <1>3, <3>2, <4>1
    <3>. QED BY <3>1, <3>2
  <2>. QED BY <2>1, <2>2 DEF RoundOK
<1>10. DipsOK'
  <2>1. CASE ~(bar < LastBar) BY <1>6, <2>1 DEF DipsOK
  <2>2. CASE bar < LastBar
    <3>1. phase' = "open" /\ bar' = bar + 1 BY <1>5, <1>6, <2>2
    <3> DEFINE more == Append(held, ledger.lots # <<>>)
    <3>2. /\ \A i \in 1..bar : more[i] = held[i]
          /\ more[bar + 1] = (ledger.lots # <<>>)
      <4> DEFINE h == ledger.lots # <<>>
      <4>1. h \in BOOLEAN OBVIOUS
      <4> HIDE DEF h
      <4>. QED BY <1>8, <4>1, AppendIs
    <3> HIDE DEF more
    <3>3. dips' \subseteq 0..bar
      <4>1. bar \in 0..bar /\ 0..(bar - 1) \subseteq 0..bar BY <1>8
      <4>. QED BY <1>3, <1>7, <4>1
    <3>4. dip => roundQty > 0 /\ dipAdds < MaxDipAdds BY <1>4 DEF Dipped
    <3>5. dipAdds' \in 0..MaxDipAdds BY <1>3, <1>7, <1>8, <3>4
    <3>6. dip => ledger.lots # <<>>
      <4>1. ASSUME ledger.lots = <<>> PROVE roundQty = 0
        <5>1. Qtys(<<>>) = <<>> BY DEF Qtys
        <5>. QED BY <1>7, <4>1, <5>1, TotalEmpty DEF SumsOf
      <4>. QED BY <3>4, <4>1
    <3>7. ledger.lots = <<>> => dipAdds' = 0 BY <1>3, <1>7, <3>6
    <3>8. ASSUME ledger.lots # <<>>
          PROVE  \E e \in 0..(bar + 1) : Since(more, e, bar + 1) /\ DipsOf(dipAdds', dips', e)
      <4>1. PICK e \in 0..bar : Since(held, e, bar) /\ DipsOf(dipAdds, dips, e) BY <1>7, <3>8
      <4>2. Since(more, e, bar + 1)
        <5>1. \A j \in (e + 1)..bar : j \in 1..bar BY <1>8
        <5>2. e = 0 \/ e \in 1..bar BY <1>8
        <5>3. \A j \in (e + 1)..(bar + 1) : j \in (e + 1)..bar \/ j = bar + 1 BY <1>8
        <5>. QED BY <3>2, <3>8, <4>1, <5>1, <5>2, <5>3 DEF Since
      <4>3. DipsOf(dipAdds', dips', e)
        <5>1. CASE ~dip BY <1>3, <4>1, <5>1
        <5>2. CASE dip
          <6>1. DipsFrom(dips', e) = DipsFrom(dips, e) \cup {bar}
            <7>1. bar >= e BY <1>8
            <7>. QED BY <1>3, <5>2, <7>1 DEF DipsFrom
          <6>2. bar \notin DipsFrom(dips, e)
            <7>1. bar \notin 0..(bar - 1) BY <1>8
            <7>. QED BY <1>7, <7>1 DEF DipsFrom
          <6>3. IsFiniteSet(DipsFrom(dips, e))
            <7>1. IsFiniteSet(0..(bar - 1))
              <8>1. bar - 1 \in Int /\ 0 \in Int BY <1>8
              <8>. QED BY <8>1, FS_Interval
            <7>2. DipsFrom(dips, e) \in SUBSET (0..(bar - 1)) BY <1>7 DEF DipsFrom
            <7>. QED BY <7>1, <7>2, FS_Subset
          <6>4. Cardinality(DipsFrom(dips', e)) = Cardinality(DipsFrom(dips, e)) + 1
            BY <6>1, <6>2, <6>3, FS_AddElement
          <6>. QED BY <1>3, <4>1, <5>2, <6>4 DEF DipsOf
        <5>. QED BY <5>1, <5>2
      <4>4. e \in 0..(bar + 1) BY <1>8
      <4>. QED BY <4>2, <4>3, <4>4
    <3>9. held' = more /\ ledger'.lots = ledger.lots BY <1>5, <1>6 DEF more
    <3>10. dips' \subseteq 0..(bar' - 1)
      <4>1. bar' - 1 = bar BY <1>8, <3>1
      <4>. QED BY <3>3, <4>1
    <3>11. ledger'.lots # <<>> =>
             \E e \in 0..bar' : Since(held', e, bar') /\ DipsOf(dipAdds', dips', e)
      BY <3>1, <3>8, <3>9
    <3>. QED BY <3>5, <3>7, <3>9, <3>10, <3>11 DEF DipsOK
  <2>. QED BY <2>1, <2>2
<1>11. SalesOK'
  <2>1. /\ IsFiniteSet(SoldAt(ledger.trades)) /\ roundsCompleted = Cardinality(SoldAt(ledger.trades))
        /\ \A i \in 1..Len(ledger.trades) : ledger.trades[i].closed_at <= OpenTime(bar)
    <3>1. Seen = OpenTime(bar) BY <1>6 DEF Seen
    <3>. QED BY <1>6, <3>1 DEF DcaInvariant, SalesOK
  <2>2. Seen' \in Int /\ OpenTime(bar) \in Int /\ OpenTime(bar) <= Seen'
    <3>0. bar + 1 \in Nat /\ OpenTime(bar) \in Nat /\ OpenTime(bar + 1) \in Nat
          /\ OpenTime(bar) < OpenTime(bar + 1)
      <4>1. bar + 1 \in Nat BY <1>8
      <4>. QED BY <1>0, <1>8, <4>1, Times
    <3>1. CASE bar < LastBar
      <4>1. Seen' = OpenTime(bar') - 1 /\ bar' = bar + 1
        BY <1>5, <1>6, <3>1 DEF Seen, OpenTime
      <4>2. Seen' = OpenTime(bar + 1) - 1 BY <4>1
      <4> DEFINE x == OpenTime(bar)
                 y == OpenTime(bar + 1)
      <4> HIDE DEF x, y
      <4>3. x \in Nat /\ y \in Nat /\ x < y /\ Seen' = y - 1 BY <3>0, <4>2 DEF x, y
      <4>4. Seen' \in Int /\ x <= Seen' BY <4>3
      <4>. QED BY <4>3, <4>4 DEF x
    <3>2. CASE ~(bar < LastBar)
      <4>1. Seen' = OpenTime(bar) BY <1>5, <1>6, <3>2 DEF Seen, OpenTime
      <4>. QED BY <3>0, <4>1
    <3>. QED BY <3>1, <3>2
  <2>3. \A i \in 1..Len(ledger.trades) : ledger.trades[i].closed_at \in Int
    <3>1. Book(ledger, Seen) BY <1>0 DEF RunOK
    <3>2. ledger \in Ledger BY <3>1 DEF Book
    <3>3. ledger.trades \in Seq(Trade) BY <3>2, BookTypes
    <3>4. \A i \in 1..Len(ledger.trades) : ledger.trades[i] \in Trade BY <3>3
    <3>. QED BY <3>4 DEF Trade
  <2>4. \A i \in 1..Len(ledger.trades) : ledger.trades[i].closed_at <= Seen'
    BY <2>1, <2>2, <2>3
  <2>. QED BY <1>3, <1>6, <2>1, <2>4 DEF SalesOK
<1>. QED BY <1>9, <1>10, <1>11

LEMMA DcaFinishes ==
  ASSUME DcaAssumption, DcaInvariant, Finish, UNCHANGED roundMemory
  PROVE  RoundOK' /\ DipsOK' /\ SalesOK'
<1>0. LotAssumption /\ RunAssumption /\ RunOK /\ CurveOK
  BY DEF DcaAssumption, DcaInvariant, RunInvariant
<1>1. phase = "end" /\ phase' = "done" /\ roundsCompleted' = roundsCompleted
  BY <1>0, RunFinishes DEF roundMemory
<1>2. IsFiniteSet(SoldAt(ledger.trades)) /\ roundsCompleted = Cardinality(SoldAt(ledger.trades))
  BY DEF DcaInvariant, SalesOK
<1>3. SoldAt(ledger'.trades) = SoldAt(ledger.trades)
  <2>1. CASE ledger.lots = <<>> BY <2>1 DEF Finish
  <2>2. CASE ledger.lots # <<>>
    <3> DEFINE price == Last(prices)
               h == Holding(ledger)
               m == SellQty(ledger, h, EndAt, price, "end_of_data")
    <3>0. Book(ledger, Seen) /\ Seen \in Int /\ EndAt \in Int
      <4>1. bar \in Nat BY <1>0 DEF RunOK
      <4>2. OpenTime(bar) \in Nat /\ EndAt \in Nat BY <1>0, <4>1, Times
      <4>. QED BY <1>0, <1>1, <4>2 DEF RunOK, Seen
    <3>1. price \in Nat
      <4>1. prices \in Seq(Nat) /\ prices # <<>> BY <1>0, <1>1 DEF RunOK
      <4>2. Len(prices) \in 1..Len(prices) BY <4>1
      <4>. QED BY <4>1, <4>2 DEF Last
    <3>2. ledger \in Ledger BY <3>0 DEF Book
    <3>3. h \in Nat /\ h <= Holding(ledger) BY <3>2, HoldingIs
    <3>4. "end_of_data" \in TradeKinds /\ Closes(EndAt, "end_of_data") BY DEF TradeKinds, Closes
    <3>5. ledger' = Checked(m, price) BY <2>2 DEF Finish, SoldOut
    <3>6. TradedOn(ledger.trades, m.trades, EndAt, "end_of_data") /\ Book(m, Seen)
      BY <1>0, <3>0, <3>1, <3>3, <3>4, QtyTraded, QtySold
    <3>7. Checked(m, price).trades = m.trades
      <4> HIDE DEF m, price
      <4>1. m \in Ledger BY <3>6 DEF Book
      <4> DEFINE raised == m.raised \/ ~Consistent(m, price)
      <4>2. Checked(m, price) = [m EXCEPT !.raised = raised] BY DEF Checked
      <4> HIDE DEF raised
      <4>. QED BY <4>1, <4>2 DEF Ledger
    <3>8. ledger.trades \in Seq(Trade) BY <3>2, BookTypes
    <3> HIDE DEF m
    <3>9. SoldAt(m.trades) = SoldAt(ledger.trades) BY <3>6, <3>8, SoldOnce
    <3>. QED BY <3>5, <3>7, <3>9
  <2>. QED BY <2>1, <2>2
<1>4. SalesOK' BY <1>1, <1>2, <1>3 DEF SalesOK
<1>. QED BY <1>1, <1>4 DEF RoundOK, DipsOK

LEMMA DcaSteps ==
  ASSUME DcaAssumption, DcaInvariant, [DcaNext]_dcaVars PROVE DcaInvariant'
<1>1. RunInvariant'
  <2>1. [Next]_vars BY DcaStep
  <2>. QED BY <2>1, RunSteps DEF DcaAssumption, DcaInvariant
<1>2. ASSUME NEW price \in OpenPrices, DcaOpen(price) PROVE DcaInvariant'
  BY <1>1, <1>2, DcaOpens DEF DcaInvariant
<1>3. ASSUME NEW price \in ClosePrices, DcaClose(price) PROVE DcaInvariant'
  BY <1>1, <1>3, DcaCloses DEF DcaInvariant
<1>4. CASE Finish /\ UNCHANGED roundMemory BY <1>1, <1>4, DcaFinishes DEF DcaInvariant
<1>5. CASE UNCHANGED dcaVars
  <2>1. UNCHANGED vars /\ UNCHANGED roundMemory BY <1>5 DEF dcaVars
  <2>2. /\ phase' = phase /\ bar' = bar /\ ledger' = ledger /\ pending' = pending /\ held' = held
        /\ UNCHANGED <<roundNotional, roundQty, lastBuyPrice, dipAdds, pendingAmount,
                       roundsCompleted, dips>>
    BY <2>1 DEF vars, history, roundMemory
  <2>3. Seen' = Seen BY <2>2 DEF Seen, OpenTime
  <2>4. RoundOK' BY <2>2 DEF DcaInvariant, RoundOK
  <2>5. DipsOK' BY <2>2 DEF DcaInvariant, DipsOK
  <2>6. SalesOK' BY <2>2, <2>3 DEF DcaInvariant, SalesOK
  <2>. QED BY <1>1, <2>4, <2>5, <2>6 DEF DcaInvariant
<1>. QED BY <1>2, <1>3, <1>4, <1>5 DEF DcaNext

\* The round the DCA keeps in mind follows the ledger: its sums at every call, its
\* dips from the first fill to the sale, and its sales one by one.
THEOREM DcaInvariance == ASSUME DcaAssumption PROVE DcaSpec => []DcaInvariant
<1>1. DcaInit => DcaInvariant BY DcaInits
<1>2. DcaInvariant /\ [DcaNext]_dcaVars => DcaInvariant' BY DcaSteps
<1>. QED BY <1>1, <1>2, PTL DEF DcaSpec

\* The quantity and the cost the profit target is measured on are those of the lots
\* held, and the price a dip is measured from is the last lot's, whatever buys were
\* refused, too dear or blocked and whatever the time limit sold.
THEOREM DcaMirrorsTheLots == ASSUME DcaAssumption PROVE DcaSpec => []RoundMirrorsTheLots
<1>1. ASSUME DcaInvariant, phase \in {"open", "close", "end"} PROVE RoundMirrorsTheLots
  <2>1. SumsOf(roundQty, roundNotional, lastBuyPrice, ledger.lots)
    BY <1>1 DEF DcaInvariant, RoundOK
  <2>2. Holding(ledger) = Total(Qtys(ledger.lots)) BY DEF Holding, Qtys
  <2>. QED BY <2>1, <2>2 DEF RoundMirrorsTheLots, SumsOf, Spent
<1>2. DcaInvariant => RoundMirrorsTheLots BY <1>1 DEF RoundMirrorsTheLots, Running
<1>. QED BY <1>2, DcaInvariance, PTL

\* The dips counted are those asked for since the round's first fill that the gate
\* did not refuse, at most max_dip_adds of them, and a round that is over leaves none.
THEOREM DcaCountsItsDips == ASSUME DcaAssumption PROVE DcaSpec => []DipsAreCounted
<1>1. ASSUME DcaInvariant, phase = "open", held # <<>>
      PROVE  /\ dipAdds <= MaxDipAdds
             /\ dipAdds = IF Last(held)
                          THEN Cardinality({i \in dips : i >= RoundFirst(Len(held) - 1)}) ELSE 0
  <2>1. /\ dipAdds \in 0..MaxDipAdds
        /\ ledger.lots = <<>> => dipAdds = 0
        /\ ledger.lots # <<>> => \E e \in 0..bar : Since(held, e, bar) /\ DipsOf(dipAdds, dips, e)
    BY <1>1 DEF DcaInvariant, DipsOK
  <2>2. /\ held \in Seq(BOOLEAN) /\ Len(held) = bar /\ (bar > 0 => (held[bar] <=> ledger.lots # <<>>))
    BY <1>1 DEF DcaInvariant, RunInvariant, ClockOK
  <2>3. bar \in Nat /\ bar > 0 BY <1>1, <2>2
  <2>4. MaxDipAdds \in Nat BY DEF DcaAssumption, DcaParameters
  <2>5. Last(held) <=> ledger.lots # <<>> BY <2>2, <2>3 DEF Last
  <2>6. CASE ledger.lots = <<>> BY <2>1, <2>4, <2>5, <2>6
  <2>7. CASE ledger.lots # <<>>
    <3>1. PICK e \in 0..bar : Since(held, e, bar) /\ DipsOf(dipAdds, dips, e) BY <2>1, <2>7
    <3> DEFINE i == Len(held) - 1
               f == RoundFirst(i)
    <3>2. i \in 0..Len(held) - 1 /\ i + 1 = bar /\ held[i + 1] BY <2>2, <2>3, <2>7
    <3>3. f \in 0..i /\ Since(held, f, i + 1)
      <4> HIDE DEF i
      <4>. QED BY <2>2, <3>2, RoundHasFirst
    <3> HIDE DEF f, i
    <3>4. f \in 0..bar /\ Since(held, f, bar) BY <2>3, <3>2, <3>3
    <3>5. e = f BY <2>3, <3>1, <3>4, OneStart
    <3>6. dipAdds = Cardinality({k \in dips : k >= f}) BY <3>1, <3>5 DEF DipsOf, DipsFrom
    <3>. QED BY <2>1, <2>4, <2>5, <2>7, <3>6 DEF f, i
  <2>. QED BY <2>6, <2>7
<1>2. DcaInvariant => DipsAreCounted BY <1>1 DEF DipsAreCounted
<1>. QED BY <1>2, DcaInvariance, PTL

\* The rounds reported are the opens at which a round was sold, each once.
THEOREM DcaCountsItsRounds == ASSUME DcaAssumption PROVE DcaSpec => []RoundsAreCounted
<1>1. DcaInvariant => RoundsAreCounted BY DEF DcaInvariant, SalesOK, SoldAt, RoundsAreCounted
<1>. QED BY <1>1, DcaInvariance, PTL

-----------------------------------------------------------------------------
(***************************************************************************)
(* The charges of a lot, recomputed from its trades.  While a lot is held, *)
(* its trades have taken from its entry charge what the formula takes for  *)
(* trades that are not the last; the trade that sells it out takes the     *)
(* rest, and no later trade is of that lot.                                *)
(***************************************************************************)
\* What a trade leaves of the entry charge of the lot opened at t.
After(trade, t, bps, last, left) ==
  IF trade.opened_at # t THEN left
  ELSE IF last THEN 0
  ELSE left - Lesser(Charge(trade.entry_price * trade.qty, bps), left)

\* f runs the charge down the trades; trade number last, if any, takes the rest.
RunsDown(f, trades, t, bps, last, charge) ==
  /\ f[0] = charge
  /\ \A k \in 0..Len(trades) : f[k] \in Nat
  /\ \A k \in 1..Len(trades) : f[k] = After(trades[k], t, bps, k = last, f[k - 1])

\* The trade carries this much of the fee and of the slippage of the entry.
Carries(trade, fee, slippage) ==
  /\ trade.fee = fee + ExitFee(trade.exit_price * trade.qty)
  /\ trade.slippage = slippage + ExitSlippage(trade.exit_price * trade.qty)

ChargedAs(trades, p, last, f, g) ==
  /\ RunsDown(f, trades, p.opened_at, FeeBps, last, p.fee_left)
  /\ RunsDown(g, trades, p.opened_at, SlippageBps, last, p.slippage_left)
  /\ \A k \in 1..Len(trades) : trades[k].opened_at = p.opened_at =>
       /\ trades[k].entry_price = p.entry_price
       /\ Carries(trades[k], f[k - 1] - f[k], g[k - 1] - g[k])

\* The quantities sold of the lot opened at t.
Parts(trades, t) ==
  [k \in DOMAIN trades |-> IF trades[k].opened_at = t THEN trades[k].qty ELSE 0]

Held(lots, t) == \E i \in 1..Len(lots) : lots[i].opened_at = t

\* What a lot still held keeps of the purchase.
Keeps(lot, p, sold, fee, slippage) ==
  /\ lot.fee_left = fee /\ lot.slippage_left = slippage
  /\ lot.entry_price = p.entry_price /\ sold + lot.qty = p.qty

LastOf(trades, t, last) ==
  /\ last \in 1..Len(trades) /\ trades[last].opened_at = t
  /\ \A k \in (last + 1)..Len(trades) : trades[k].opened_at # t

Shown(lots, trades, p, last, f, g) ==
  LET n == Len(trades)
      sold == Total(Parts(trades, p.opened_at))
  IN /\ ChargedAs(trades, p, last, f, g)
     /\ \A i \in 1..Len(lots) : lots[i].opened_at = p.opened_at => Keeps(lots[i], p, sold, f[n], g[n])
     /\ Held(lots, p.opened_at) => last = 0
     /\ ~Held(lots, p.opened_at) => LastOf(trades, p.opened_at, last) /\ sold = p.qty

Accounted(lots, trades, p) ==
  \E last \in Nat : \E f, g : Shown(lots, trades, p, last, f, g)

\* A sum with one more term.
More(f, n, x) == [k \in 0..(n + 1) |-> IF k <= n THEN f[k] ELSE x]

LEMMA MoreIs ==
  ASSUME NEW f, NEW n \in Nat, NEW x
  PROVE  More(f, n, x)[n + 1] = x /\ \A k \in 0..n : More(f, n, x)[k] = f[k]
BY DEF More

LEMMA RunsOn ==
  ASSUME NEW trades \in Seq(Trade), NEW trade \in Trade, NEW f, NEW t, NEW bps, NEW charge,
         NEW last \in 0..Len(trades), NEW next \in {last, Len(trades) + 1},
         last = 0 \/ next = last,
         RunsDown(f, trades, t, bps, last, charge), NEW x \in Nat,
         x = After(trade, t, bps, next = Len(trades) + 1, f[Len(trades)])
  PROVE  RunsDown(More(f, Len(trades), x), Append(trades, trade), t, bps, next, charge)
<1> DEFINE n == Len(trades)
           all == Append(trades, trade)
           h == More(f, n, x)
<1>1. n \in Nat /\ Len(all) = n + 1 /\ all[n + 1] = trade /\ \A k \in 1..n : all[k] = trades[k]
  BY AppendIs
<1>2. h[n + 1] = x /\ \A k \in 0..n : h[k] = f[k] BY <1>1, MoreIs
<1>3. /\ f[0] = charge /\ \A k \in 0..n : f[k] \in Nat
      /\ \A k \in 1..n : f[k] = After(trades[k], t, bps, k = last, f[k - 1])
  BY DEF RunsDown
<1> HIDE DEF h, all
<1>4. h[0] = charge BY <1>1, <1>2, <1>3
<1>5. ASSUME NEW k \in 0..(n + 1) PROVE h[k] \in Nat
  <2>1. k \in 0..n \/ k = n + 1 BY <1>1
  <2>. QED BY <1>2, <1>3, <2>1
<1>6. ASSUME NEW k \in 1..(n + 1) PROVE h[k] = After(all[k], t, bps, k = next, h[k - 1])
  <2>1. CASE k = n + 1
    <3>1. h[k] = x /\ all[k] = trade /\ h[k - 1] = f[n] BY <1>1, <1>2, <2>1
    <3>2. (k = next) = (next = n + 1) BY <2>1
    <3>. QED BY <3>1, <3>2
  <2>2. CASE k # n + 1
    <3>1. k \in 1..n /\ k \in 0..n /\ k - 1 \in 0..n BY <1>1, <2>2
    <3>2. h[k] = f[k] /\ all[k] = trades[k] /\ h[k - 1] = f[k - 1] BY <1>1, <1>2, <3>1
    <3>3. (k = next) = (k = last) BY <1>1, <3>1
    <3>. QED BY <1>3, <3>1, <3>2, <3>3
  <2>. QED BY <2>1, <2>2
<1>. QED BY <1>1, <1>4, <1>5, <1>6 DEF RunsDown, all, h

\* One trade more, of whichever lot.
LEMMA ChargedOn ==
  ASSUME NEW trades \in Seq(Trade), NEW trade \in Trade, NEW p \in Lot, NEW f, NEW g,
         NEW last \in 0..Len(trades), NEW next \in {last, Len(trades) + 1},
         last = 0 \/ next = last,
         ChargedAs(trades, p, last, f, g), NEW x \in Nat, NEW y \in Nat,
         x = After(trade, p.opened_at, FeeBps, next = Len(trades) + 1, f[Len(trades)]),
         y = After(trade, p.opened_at, SlippageBps, next = Len(trades) + 1, g[Len(trades)]),
         trade.opened_at = p.opened_at =>
           /\ trade.entry_price = p.entry_price
           /\ Carries(trade, f[Len(trades)] - x, g[Len(trades)] - y)
  PROVE  /\ ChargedAs(Append(trades, trade), p, next, More(f, Len(trades), x), More(g, Len(trades), y))
         /\ More(f, Len(trades), x)[Len(trades) + 1] = x /\ More(g, Len(trades), y)[Len(trades) + 1] = y
<1> DEFINE n == Len(trades)
           all == Append(trades, trade)
           u == More(f, n, x)
           v == More(g, n, y)
           t == p.opened_at
<1>1. n \in Nat /\ Len(all) = n + 1 /\ all[n + 1] = trade /\ \A k \in 1..n : all[k] = trades[k]
  BY AppendIs
<1>2. /\ u[n + 1] = x /\ \A k \in 0..n : u[k] = f[k]
      /\ v[n + 1] = y /\ \A k \in 0..n : v[k] = g[k]
  BY <1>1, MoreIs
<1>3. /\ RunsDown(f, trades, t, FeeBps, last, p.fee_left)
      /\ RunsDown(g, trades, t, SlippageBps, last, p.slippage_left)
      /\ \A k \in 1..n : trades[k].opened_at = t =>
           /\ trades[k].entry_price = p.entry_price
           /\ Carries(trades[k], f[k - 1] - f[k], g[k - 1] - g[k])
  BY DEF ChargedAs
<1>4. RunsDown(u, all, t, FeeBps, next, p.fee_left) BY <1>3, RunsOn
<1>5. RunsDown(v, all, t, SlippageBps, next, p.slippage_left) BY <1>3, RunsOn
<1> HIDE DEF u, v, all
<1>6. ASSUME NEW k \in 1..(n + 1), all[k].opened_at = t
      PROVE  /\ all[k].entry_price = p.entry_price
             /\ Carries(all[k], u[k - 1] - u[k], v[k - 1] - v[k])
  <2>1. CASE k = n + 1
    <3>1. n \in 0..n /\ k - 1 = n BY <1>1, <2>1
    <3>2. all[k] = trade /\ u[k] = x /\ v[k] = y /\ u[k - 1] = f[n] /\ v[k - 1] = g[n]
      BY <1>1, <1>2, <2>1, <3>1
    <3>. QED BY <1>6, <3>2
  <2>2. CASE k # n + 1
    <3>1. k \in 1..n /\ k \in 0..n /\ k - 1 \in 0..n BY <1>1, <2>2
    <3>2. /\ all[k] = trades[k] /\ u[k] = f[k] /\ v[k] = g[k] /\ u[k - 1] = f[k - 1]
          /\ v[k - 1] = g[k - 1]
      BY <1>1, <1>2, <3>1
    <3>. QED BY <1>3, <1>6, <3>1, <3>2
  <2>. QED BY <2>1, <2>2
<1>7. ChargedAs(all, p, next, u, v) BY <1>1, <1>4, <1>5, <1>6 DEF ChargedAs
<1>. QED BY <1>2, <1>7 DEF u, v, all

LEMMA PartsAre ==
  ASSUME NEW trades \in Seq(Trade), NEW t
  PROVE  /\ Parts(trades, t) \in Seq(Int) /\ Len(Parts(trades, t)) = Len(trades)
         /\ \A k \in 1..Len(trades) :
              Parts(trades, t)[k] = IF trades[k].opened_at = t THEN trades[k].qty ELSE 0
<1>1. /\ DOMAIN trades = 1..Len(trades) /\ Len(trades) \in Nat
      /\ \A k \in 1..Len(trades) : trades[k] \in Trade
  OBVIOUS
<1>2. ASSUME NEW k \in 1..Len(trades) PROVE trades[k].qty \in Int
  <2> DEFINE trade == trades[k]
  <2>1. trade \in Trade BY <1>1
  <2> HIDE DEF trade
  <2>2. trade.qty \in Nat BY <2>1 DEF Trade
  <2>. QED BY <2>2 DEF trade
<1>3. Parts(trades, t) \in [1..Len(trades) -> Int] BY <1>1, <1>2 DEF Parts
<1>. QED BY <1>1, <1>3 DEF Parts

LEMMA PartsOn ==
  ASSUME NEW trades \in Seq(Trade), NEW trade \in Trade, NEW t
  PROVE  Total(Parts(Append(trades, trade), t))
           = Total(Parts(trades, t)) + (IF trade.opened_at = t THEN trade.qty ELSE 0)
<1> DEFINE n == Len(trades)
           all == Append(trades, trade)
           vs == Parts(trades, t)
           rs == Parts(all, t)
           v == IF trade.opened_at = t THEN trade.qty ELSE 0
<1>1. /\ all \in Seq(Trade) /\ n \in Nat /\ Len(all) = n + 1 /\ all[n + 1] = trade
      /\ \A k \in 1..n : all[k] = trades[k]
  BY AppendIs
<1>2. v \in Int BY DEF Trade
<1> HIDE DEF all
<1>3. /\ vs \in Seq(Int) /\ rs \in Seq(Int) /\ Len(vs) = n /\ Len(rs) = n + 1
      /\ \A k \in 1..n : vs[k] = IF trades[k].opened_at = t THEN trades[k].qty ELSE 0
      /\ \A k \in 1..(n + 1) : rs[k] = IF all[k].opened_at = t THEN all[k].qty ELSE 0
  BY <1>1, PartsAre
<1> HIDE DEF vs, rs
<1>4. rs[n + 1] = v /\ \A k \in 1..n : rs[k] = vs[k]
  <2>1. n + 1 \in 1..(n + 1) /\ \A k \in 1..n : k \in 1..(n + 1) BY <1>1
  <2>. QED BY <1>1, <1>3, <2>1
<1> HIDE DEF v, n
<1>5. Append(vs, v) \in Seq(Int) /\ Len(Append(vs, v)) = Len(rs) BY <1>2, <1>3
<1>6. \A k \in 1..Len(rs) : rs[k] = Append(vs, v)[k] BY <1>1, <1>2, <1>3, <1>4
<1>7. rs = Append(vs, v) BY <1>3, <1>5, <1>6, SeqEqual
<1>8. Total(rs) = Total(vs) + v BY <1>2, <1>3, <1>7, TotalAppend
<1>. QED BY <1>8 DEF vs, rs, v, all

-----------------------------------------------------------------------------
\* The trade of a portion, and what it leaves of the lot.
TradeOf(lot, qty, at, price, kind) ==
  Traded(lot, qty, at, price, kind, EntryShare(lot, qty, lot.fee_left, FeeBps),
         EntryShare(lot, qty, lot.slippage_left, SlippageBps),
         ExitFee(price * qty), ExitSlippage(price * qty))
RestOf(lot, qty) ==
  Remaining(lot, qty, EntryShare(lot, qty, lot.fee_left, FeeBps),
            EntryShare(lot, qty, lot.slippage_left, SlippageBps))

LEMMA PortionLeaves ==
  ASSUME NEW l \in Ledger, NEW qty, NEW at, NEW price, NEW kind
  PROVE  LET lot == l.lots[HeadAt(l.lots)]
             m == SellPortion(l, qty, at, price, kind)
         IN /\ m.trades = Append(l.trades, TradeOf(lot, qty, at, price, kind))
            /\ m.lots = SoldRows(l.lots, qty, RestOf(lot, qty))
<1> DEFINE lot == l.lots[HeadAt(l.lots)]
           trade == TradeOf(lot, qty, at, price, kind)
           rest == RestOf(lot, qty)
           gross == price * qty
           cash == l.cash + gross - ExitFee(gross) - ExitSlippage(gross)
           realized == l.realized + trade.pnl
           sold == l.sold + qty
           raised == l.raised \/ OutOfOrder(l.last_sold, lot)
           after == [l EXCEPT !.cash = cash, !.realized = realized, !.sold = sold,
                              !.last_sold = lot.opened_at, !.raised = raised,
                              !.trades = Append(l.trades, trade)]
           rows == SoldRows(l.lots, qty, rest)
           closed == ClosePortion(l, lot, qty, at, price, kind)
<1>1. closed = [ledger |-> after, rest |-> rest]
  BY DEF ClosePortion, TradeOf, RestOf, Traded, Remaining
<1>2. closed.ledger = after /\ closed.rest = rest
  <2> HIDE DEF closed, after, rest
  <2>. QED BY <1>1
<1>3. SellPortion(l, qty, at, price, kind)
        = [closed.ledger EXCEPT !.lots = IF qty = lot.qty THEN RemoveAt(l.lots, HeadAt(l.lots))
                                         ELSE [l.lots EXCEPT ![HeadAt(l.lots)] = closed.rest]]
  BY Zenon DEF SellPortion
<1> HIDE DEF closed
<1>4. SellPortion(l, qty, at, price, kind) = [after EXCEPT !.lots = rows]
  <2> HIDE DEF after, rest
  <2>. QED BY <1>2, <1>3 DEF SoldRows
<1> DEFINE trades == Append(l.trades, trade)
<1> HIDE DEF trade, rest, cash, realized, sold, raised, rows, lot, trades
<1>5. after.trades = trades /\ DOMAIN after = DOMAIN l BY DEF Ledger, trades
<1>6. "trades" \in DOMAIN l /\ "lots" \in DOMAIN l BY DEF Ledger
<1> HIDE DEF after
<1>7. [after EXCEPT !.lots = rows].trades = trades /\ [after EXCEPT !.lots = rows].lots = rows
  BY <1>5, <1>6
<1>. QED BY <1>4, <1>7 DEF trades, rows, rest, trade, lot

\* The rows after a portion: those of the other lots, and of the head lot what is left.
LEMMA RowsLeft ==
  ASSUME LotAssumption, NEW lots \in Seq(Lot), lots # <<>>, NEW now \in Int, Queued(lots, now),
         NEW qty, NEW rest \in Lot, rest.opened_at = lots[HeadAt(lots)].opened_at
  PROVE  LET rows == SoldRows(lots, qty, rest)
             lot == lots[HeadAt(lots)]
         IN /\ \A i \in 1..Len(rows) : rows[i].opened_at # lot.opened_at =>
                 \E j \in 1..Len(lots) : rows[i] = lots[j]
            /\ \A j \in 1..Len(lots) : lots[j].opened_at # lot.opened_at =>
                 \E i \in 1..Len(rows) : rows[i] = lots[j]
            /\ qty = lot.qty => ~Held(rows, lot.opened_at)
            /\ qty # lot.qty => /\ Held(rows, lot.opened_at)
                                /\ \A i \in 1..Len(rows) :
                                     rows[i].opened_at = lot.opened_at => rows[i] = rest
<1> DEFINE h == HeadAt(lots)
           lot == lots[h]
           t == lot.opened_at
           n == Len(lots)
           rows == SoldRows(lots, qty, rest)
<1>1. h \in 1..n /\ n \in Nat BY HeadIs
<1>2. \A i \in 1..n : lots[i].opened_at \in Int
  <2>1. \A i \in 1..n : lots[i] \in Lot OBVIOUS
  <2>. QED BY <2>1 DEF Lot
<1>3. ASSUME NEW i \in 1..n, lots[i].opened_at = t PROVE i = h
  <2>1. \A j, k \in 1..n : j < k => lots[j].opened_at < lots[k].opened_at BY DEF Queued
  <2>2. t \in Int BY <1>1, <1>2
  <2>3. ~(i < h) BY <1>1, <1>3, <2>1, <2>2
  <2>4. ~(h < i) BY <1>1, <1>3, <2>1, <2>2
  <2>. QED BY <1>1, <2>3, <2>4
<1> HIDE DEF h
<1>4. CASE qty = lot.qty
  <2>1. rows = RemoveAt(lots, h) BY <1>4 DEF SoldRows, h
  <2>2. /\ Len(rows) = n - 1
        /\ \A i \in 1..(n - 1) : rows[i] = IF i < h THEN lots[i] ELSE lots[i + 1]
    BY <1>1, <2>1, RemovedAt
  <2> HIDE DEF rows
  <2>3. ASSUME NEW i \in 1..Len(rows) PROVE \E j \in 1..n : j # h /\ rows[i] = lots[j]
    <3>1. CASE i < h
      <4>1. i \in 1..n /\ i # h /\ rows[i] = lots[i] BY <1>1, <2>2, <3>1
      <4>. QED BY <4>1
    <3>2. CASE ~(i < h)
      <4>1. i + 1 \in 1..n /\ i + 1 # h /\ rows[i] = lots[i + 1] BY <1>1, <2>2, <3>2
      <4>. QED BY <4>1
    <3>. QED BY <3>1, <3>2
  <2>4. ASSUME NEW j \in 1..n, lots[j].opened_at # t PROVE \E i \in 1..Len(rows) : rows[i] = lots[j]
    <3>1. j # h BY <2>4
    <3>2. CASE j < h
      <4>1. j \in 1..(n - 1) /\ j \in 1..Len(rows) BY <1>1, <2>2, <3>2
      <4>2. rows[j] = lots[j] BY <2>2, <3>2, <4>1
      <4>. QED BY <4>1, <4>2
    <3>3. CASE ~(j < h)
      <4>1. j - 1 \in 1..(n - 1) /\ j - 1 \in 1..Len(rows) /\ ~(j - 1 < h) /\ (j - 1) + 1 = j
        BY <1>1, <2>2, <3>1, <3>3
      <4>2. rows[j - 1] = lots[j] BY <2>2, <4>1
      <4>. QED BY <4>1, <4>2
    <3>. QED BY <3>2, <3>3
  <2>5. ~Held(rows, t)
    <3>1. SUFFICES ASSUME NEW i \in 1..Len(rows), rows[i].opened_at = t PROVE FALSE BY DEF Held
    <3>2. PICK j \in 1..n : j # h /\ rows[i] = lots[j] BY <2>3
    <3>. QED BY <1>3, <3>1, <3>2
  <2>6. \A i \in 1..Len(rows) : rows[i].opened_at # t => \E j \in 1..n : rows[i] = lots[j]
    BY <2>3
  <2>. QED BY <1>4, <2>4, <2>5, <2>6 DEF rows, h
<1>5. CASE qty # lot.qty
  <2>1. rows = [lots EXCEPT ![h] = rest] BY <1>5 DEF SoldRows, h
  <2>2. Len(rows) = n /\ rows[h] = rest /\ \A i \in 1..n : i # h => rows[i] = lots[i]
    BY <1>1, <2>1
  <2> HIDE DEF rows
  <2>3. Held(rows, t) BY <1>1, <2>2 DEF Held, h
  <2>4. ASSUME NEW i \in 1..Len(rows), rows[i].opened_at = t PROVE rows[i] = rest
    <3>1. i \in 1..n BY <2>2
    <3>2. i = h
      <4>1. SUFFICES ASSUME i # h PROVE FALSE OBVIOUS
      <4>2. rows[i] = lots[i] BY <2>2, <3>1, <4>1
      <4>. QED BY <1>3, <2>4, <3>1, <4>1, <4>2
    <3>. QED BY <2>2, <3>2
  <2>5. ASSUME NEW i \in 1..Len(rows), rows[i].opened_at # t PROVE \E j \in 1..n : rows[i] = lots[j]
    <3>1. i \in 1..n /\ i # h BY <2>2, <2>5 DEF h
    <3>. QED BY <2>2, <3>1
  <2>6. ASSUME NEW j \in 1..n, lots[j].opened_at # t PROVE \E i \in 1..Len(rows) : rows[i] = lots[j]
    <3>1. j # h /\ j \in 1..Len(rows) BY <2>2, <2>6
    <3>. QED BY <2>2, <3>1
  <2>. QED BY <1>5, <2>3, <2>4, <2>5, <2>6 DEF rows, h
<1>. QED BY <1>4, <1>5

LEMMA ShownBounds ==
  ASSUME NEW lots, NEW trades \in Seq(Trade), NEW p \in Lot, NEW last \in Nat, NEW f, NEW g,
         Shown(lots, trades, p, last, f, g)
  PROVE  /\ ChargedAs(trades, p, last, f, g) /\ last \in 0..Len(trades)
         /\ f[Len(trades)] \in Nat /\ g[Len(trades)] \in Nat
         /\ Total(Parts(trades, p.opened_at)) \in Int
<1>1. Len(trades) \in Nat /\ Len(trades) \in 0..Len(trades) OBVIOUS
<1>2. ChargedAs(trades, p, last, f, g) BY DEF Shown
<1>3. f[Len(trades)] \in Nat /\ g[Len(trades)] \in Nat BY <1>1, <1>2 DEF ChargedAs, RunsDown
<1>4. last \in 0..Len(trades) BY <1>1 DEF Shown, LastOf
<1>5. Total(Parts(trades, p.opened_at)) \in Int BY PartsAre, TotalInt
<1>. QED BY <1>2, <1>3, <1>4, <1>5

\* A portion of another lot changes nothing of what the trades show of this one.
LEMMA OtherPortion ==
  ASSUME NEW lots, NEW rows, NEW trades \in Seq(Trade), NEW trade \in Trade, NEW p \in Lot,
         trade.opened_at # p.opened_at, Accounted(lots, trades, p),
         \A i \in 1..Len(rows) : rows[i].opened_at = p.opened_at =>
           \E j \in 1..Len(lots) : rows[i] = lots[j],
         \A j \in 1..Len(lots) : lots[j].opened_at = p.opened_at =>
           \E i \in 1..Len(rows) : rows[i] = lots[j]
  PROVE  Accounted(rows, Append(trades, trade), p)
<1> DEFINE n == Len(trades)
           t == p.opened_at
           all == Append(trades, trade)
           sold == Total(Parts(trades, t))
<1>0. PICK last \in Nat : \E f, g : Shown(lots, trades, p, last, f, g) BY DEF Accounted
<1>1. PICK f, g : Shown(lots, trades, p, last, f, g) BY <1>0
<1>2. /\ ChargedAs(trades, p, last, f, g) /\ last \in 0..n
      /\ f[n] \in Nat /\ g[n] \in Nat /\ sold \in Int
  BY <1>1, ShownBounds
<1> DEFINE u == More(f, n, f[n])
           v == More(g, n, g[n])
<1>3. /\ n \in Nat /\ Len(all) = n + 1 /\ all[n + 1] = trade
      /\ \A k \in 1..n : all[k] = trades[k]
  BY AppendIs
<1>4. ChargedAs(all, p, last, u, v) /\ u[n + 1] = f[n] /\ v[n + 1] = g[n]
  <2>1. /\ f[n] = After(trade, t, FeeBps, last = n + 1, f[n])
        /\ g[n] = After(trade, t, SlippageBps, last = n + 1, g[n])
    BY DEF After
  <2>. QED BY <1>2, <2>1, ChargedOn
<1>6. Total(Parts(all, t)) = sold
  <2>1. Total(Parts(all, t)) = sold + 0 BY PartsOn
  <2>. QED BY <1>2, <2>1
<1>7. Held(rows, t) = Held(lots, t) BY DEF Held
<1>8. LastOf(trades, t, last) => LastOf(all, t, last)
  <2>1. ASSUME LastOf(trades, t, last) PROVE LastOf(all, t, last)
    <3>1. last \in 1..(n + 1) /\ all[last] = trades[last] BY <1>3, <2>1 DEF LastOf
    <3>2. ASSUME NEW k \in (last + 1)..(n + 1) PROVE all[k].opened_at # t
      <4>1. CASE k = n + 1 BY <1>3, <4>1
      <4>2. CASE k # n + 1
        <5>1. k \in 1..n /\ k \in (last + 1)..n BY <1>3, <4>2
        <5>. QED BY <1>3, <2>1, <5>1 DEF LastOf
      <4>. QED BY <4>1, <4>2
    <3>. QED BY <1>3, <2>1, <3>1, <3>2 DEF LastOf
  <2>. QED BY <2>1
<1>9. /\ \A i \in 1..Len(lots) : lots[i].opened_at = t => Keeps(lots[i], p, sold, f[n], g[n])
      /\ Held(lots, t) => last = 0
      /\ ~Held(lots, t) => LastOf(trades, t, last) /\ sold = p.qty
  BY <1>1 DEF Shown
<1> HIDE DEF u, v, all, sold
<1>10. \A i \in 1..Len(rows) : rows[i].opened_at = t => Keeps(rows[i], p, sold, f[n], g[n])
  BY <1>9
<1>11. Shown(rows, all, p, last, u, v)
  BY <1>3, <1>4, <1>6, <1>7, <1>8, <1>9, <1>10 DEF Shown
<1>. QED BY <1>11 DEF Accounted, all

\* A trade of the lot, and what the sale leaves of it.
LEMMA OwnPortion ==
  ASSUME NEW lots, NEW rows, NEW trades \in Seq(Trade), NEW trade \in Trade, NEW p \in Lot,
         trade.opened_at = p.opened_at, Accounted(lots, trades, p),
         NEW lot \in Lot, lot.opened_at = p.opened_at, trade.entry_price = lot.entry_price,
         \E i \in 1..Len(lots) : lots[i] = lot,
         NEW x \in Nat, NEW y \in Nat, Carries(trade, lot.fee_left - x, lot.slippage_left - y),
         trade.qty = lot.qty => x = 0 /\ y = 0 /\ ~Held(rows, p.opened_at),
         trade.qty # lot.qty =>
           /\ x = lot.fee_left
                   - Lesser(Charge(trade.entry_price * trade.qty, FeeBps), lot.fee_left)
           /\ y = lot.slippage_left
                   - Lesser(Charge(trade.entry_price * trade.qty, SlippageBps), lot.slippage_left)
           /\ Held(rows, p.opened_at)
           /\ \A j \in 1..Len(rows) : rows[j].opened_at = p.opened_at =>
                /\ rows[j].fee_left = x /\ rows[j].slippage_left = y
                /\ rows[j].entry_price = lot.entry_price /\ rows[j].qty = lot.qty - trade.qty
  PROVE  Accounted(rows, Append(trades, trade), p)
<1> DEFINE n == Len(trades)
           t == p.opened_at
           all == Append(trades, trade)
           sold == Total(Parts(trades, t))
           next == IF trade.qty = lot.qty THEN n + 1 ELSE 0
<1>0. PICK last \in Nat : \E f, g : Shown(lots, trades, p, last, f, g) BY DEF Accounted
<1>1. PICK f, g : Shown(lots, trades, p, last, f, g) BY <1>0
<1>2. /\ ChargedAs(trades, p, last, f, g) /\ last \in 0..n
      /\ f[n] \in Nat /\ g[n] \in Nat /\ sold \in Int
  BY <1>1, ShownBounds
<1> DEFINE u == More(f, n, x)
           v == More(g, n, y)
<1>3. /\ n \in Nat /\ Len(all) = n + 1 /\ all[n + 1] = trade
      /\ \A k \in 1..n : all[k] = trades[k]
  BY AppendIs
<1>4. last = 0 /\ Keeps(lot, p, sold, f[n], g[n])
  <2>1. Held(lots, t) BY DEF Held
  <2>. QED BY <1>1, <2>1 DEF Shown
<1>5. next \in Nat /\ next \in {last, n + 1} /\ (next = n + 1 <=> trade.qty = lot.qty)
  BY <1>3, <1>4
<1>6. ChargedAs(all, p, next, u, v) /\ u[n + 1] = x /\ v[n + 1] = y
  <2>1. lot.fee_left = f[n] /\ lot.slippage_left = g[n] /\ lot.entry_price = p.entry_price
    BY <1>4 DEF Keeps
  <2>2. x = After(trade, t, FeeBps, next = n + 1, f[n]) BY <1>5, <2>1 DEF After
  <2>3. y = After(trade, t, SlippageBps, next = n + 1, g[n]) BY <1>5, <2>1 DEF After
  <2>4. trade.entry_price = p.entry_price /\ Carries(trade, f[n] - x, g[n] - y) BY <2>1
  <2> HIDE DEF next
  <2>. QED BY <1>2, <1>4, <1>5, <2>2, <2>3, <2>4, ChargedOn
<1>8. Total(Parts(all, t)) = sold + trade.qty BY PartsOn
<1>9. trade.qty \in Int /\ lot.qty \in Int /\ sold + lot.qty = p.qty BY <1>4 DEF Keeps, Trade, Lot
<1> HIDE DEF u, v, sold
<1>10. trade.qty = lot.qty => LastOf(all, t, next)
  <2> HIDE DEF all
  <2>. QED BY <1>3 DEF LastOf
<1> HIDE DEF all
<1>11. ASSUME NEW j \in 1..Len(rows), rows[j].opened_at = t
       PROVE  Keeps(rows[j], p, Total(Parts(all, t)), u[n + 1], v[n + 1])
  <2>1. trade.qty # lot.qty BY <1>11 DEF Held
  <2>2. rows[j].qty = lot.qty - trade.qty BY <1>11, <2>1
  <2>3. Total(Parts(all, t)) + rows[j].qty = p.qty BY <1>2, <1>8, <1>9, <2>2
  <2>. QED BY <1>4, <1>6, <1>11, <2>1, <2>3 DEF Keeps
<1>12. trade.qty = lot.qty => Total(Parts(all, t)) = p.qty BY <1>8, <1>9
<1>13. Held(rows, t) => next = 0 BY <1>5
<1>14. ~Held(rows, t) => LastOf(all, t, next) /\ Total(Parts(all, t)) = p.qty BY <1>10, <1>12
<1> HIDE DEF next
<1>15. Shown(rows, all, p, next, u, v)
  BY <1>3, <1>6, <1>11, <1>13, <1>14 DEF Shown
<1>. QED BY <1>5, <1>15 DEF Accounted, all

\* A portion of the head lot keeps the account of every purchase.
LEMMA PortionAccounted ==
  ASSUME LotAssumption, NEW now \in Int, NEW l, Book(l, now),
         NEW qty \in Nat, OfHead(l, qty), NEW at \in Int, NEW price \in Nat,
         NEW kind \in TradeKinds, Closes(at, kind),
         NEW p \in Lot, Accounted(l.lots, l.trades, p)
  PROVE  LET m == SellPortion(l, qty, at, price, kind)
         IN Accounted(m.lots, m.trades, p)
<1> DEFINE lots == l.lots
           trades == l.trades
           h == HeadAt(lots)
           lot == lots[h]
           m == SellPortion(l, qty, at, price, kind)
           trade == TradeOf(lot, qty, at, price, kind)
           rest == RestOf(lot, qty)
           rows == SoldRows(lots, qty, rest)
           gross == price * qty
           ef == EntryShare(lot, qty, lot.fee_left, FeeBps)
           es == EntryShare(lot, qty, lot.slippage_left, SlippageBps)
<1>1. l \in Ledger /\ Queued(lots, now) BY DEF Book
<1>2. lots \in Seq(Lot) /\ trades \in Seq(Trade) BY <1>1, BookTypes
<1>3. h \in 1..Len(lots) /\ lot \in Lot /\ lots # <<>> BY <1>2, HeadIs DEF OfHead
<1>4. qty \in 1..lot.qty BY DEF OfHead
<1>5. m.trades = Append(trades, trade) /\ m.lots = rows BY <1>1, PortionLeaves
<1>6. Book(m, now) BY PortionSold
<1>7. trade \in Trade
  <2>1. m \in Ledger BY <1>6 DEF Book
  <2>2. m.trades \in Seq(Trade) BY <2>1, BookTypes
  <2> HIDE DEF trade, m, trades
  <2>3. Append(trades, trade) \in Seq(Trade) BY <1>5, <2>2
  <2>4. trades \in Seq(Trade \cup {trade}) /\ trade \in Trade \cup {trade} BY <1>2
  <2>5. /\ Len(Append(trades, trade)) = Len(trades) + 1 /\ Len(trades) \in Nat
        /\ Append(trades, trade)[Len(trades) + 1] = trade
    BY <2>4, AppendIs
  <2> DEFINE all == Append(trades, trade)
  <2> HIDE DEF all
  <2>6. all \in Seq(Trade) /\ Len(all) \in 1..Len(all) /\ all[Len(all)] = trade BY <2>3, <2>5 DEF all
  <2>. QED BY <2>6
<1>8. /\ trade.opened_at = lot.opened_at /\ trade.entry_price = lot.entry_price
      /\ trade.qty = qty /\ trade.exit_price = price
      /\ trade.fee = ef + ExitFee(gross) /\ trade.slippage = es + ExitSlippage(gross)
  BY DEF TradeOf, Traded
<1>9. /\ ef \in 0..lot.fee_left /\ es \in 0..lot.slippage_left
      /\ qty = lot.qty => ef = lot.fee_left /\ es = lot.slippage_left
  <2>1. lot.fee_left \in Nat /\ lot.slippage_left \in Nat /\ FeeBps \in Nat /\ SlippageBps \in Nat
    BY <1>3, LotParameters DEF Lot
  <2> HIDE DEF lot
  <2>2. ASSUME NEW left \in Nat, NEW bps \in Nat
        PROVE  /\ EntryShare(lot, qty, left, bps) \in 0..left
               /\ qty = lot.qty => EntryShare(lot, qty, left, bps) = left
    BY <1>3, <1>4, ShareOf
  <2>3. /\ ef \in 0..lot.fee_left /\ (qty = lot.qty => ef = lot.fee_left)
        /\ es \in 0..lot.slippage_left /\ (qty = lot.qty => es = lot.slippage_left)
    BY <2>1, <2>2
  <2> HIDE DEF ef, es
  <2>. QED BY <2>3
<1>10. /\ rest \in Lot /\ rest.opened_at = lot.opened_at /\ rest.entry_price = lot.entry_price
       /\ rest.qty = lot.qty - qty /\ rest.fee_left = lot.fee_left - ef
       /\ rest.slippage_left = lot.slippage_left - es
  <2> HIDE DEF lot, ef, es
  <2>1. rest = Remaining(lot, qty, ef, es) BY DEF RestOf, ef, es
  <2>. QED BY <1>3, <1>4, <1>9, <2>1, RestIs
<1> HIDE DEF trade, rest, m
<1>11. /\ \A i \in 1..Len(rows) : rows[i].opened_at # lot.opened_at =>
            \E j \in 1..Len(lots) : rows[i] = lots[j]
       /\ \A j \in 1..Len(lots) : lots[j].opened_at # lot.opened_at =>
            \E i \in 1..Len(rows) : rows[i] = lots[j]
       /\ qty = lot.qty => ~Held(rows, lot.opened_at)
       /\ qty # lot.qty => /\ Held(rows, lot.opened_at)
                           /\ \A i \in 1..Len(rows) :
                                rows[i].opened_at = lot.opened_at => rows[i] = rest
  BY <1>1, <1>2, <1>3, <1>10, RowsLeft
<1> HIDE DEF rows, h
<1>12. Accounted(rows, Append(trades, trade), p)
  <2>0. Accounted(lots, trades, p) OBVIOUS
  <2> HIDE DEF lots, trades
  <2>1. CASE p.opened_at # lot.opened_at
    <3> HIDE DEF lot
    <3>1. /\ \A i \in 1..Len(rows) : rows[i].opened_at = p.opened_at =>
               \E j \in 1..Len(lots) : rows[i] = lots[j]
          /\ \A j \in 1..Len(lots) : lots[j].opened_at = p.opened_at =>
               \E i \in 1..Len(rows) : rows[i] = lots[j]
      BY <1>11, <2>1
    <3>. QED BY <1>2, <1>7, <1>8, <2>0, <2>1, <3>1, OtherPortion
  <2>2. CASE p.opened_at = lot.opened_at
    <3> DEFINE x == lot.fee_left - ef
               y == lot.slippage_left - es
    <3>1. /\ lot.fee_left \in Nat /\ lot.slippage_left \in Nat /\ ef \in Nat /\ es \in Nat
      <4>1. lot.fee_left \in Nat /\ lot.slippage_left \in Nat BY <1>3 DEF Lot
      <4> HIDE DEF lot, ef, es
      <4>. QED BY <1>9, <4>1
    <3>2. qty # lot.qty =>
            /\ ef = Lesser(Charge(lot.entry_price * qty, FeeBps), lot.fee_left)
            /\ es = Lesser(Charge(lot.entry_price * qty, SlippageBps), lot.slippage_left)
      BY DEF EntryShare
    <3>3. \E i \in 1..Len(lots) : lots[i] = lot BY <1>3
    <3> HIDE DEF lot, ef, es
    <3>4. x \in Nat /\ y \in Nat /\ lot.fee_left - x = ef /\ lot.slippage_left - y = es
      BY <1>9, <3>1
    <3>5. Carries(trade, lot.fee_left - x, lot.slippage_left - y)
      BY <1>8, <3>4 DEF Carries
    <3>6. trade.qty = lot.qty => x = 0 /\ y = 0 /\ ~Held(rows, p.opened_at)
      BY <1>8, <1>9, <1>11, <2>2, <3>1
    <3>7. trade.qty # lot.qty =>
            /\ x = lot.fee_left
                    - Lesser(Charge(trade.entry_price * trade.qty, FeeBps), lot.fee_left)
            /\ y = lot.slippage_left
                    - Lesser(Charge(trade.entry_price * trade.qty, SlippageBps), lot.slippage_left)
            /\ Held(rows, p.opened_at)
            /\ \A j \in 1..Len(rows) : rows[j].opened_at = p.opened_at =>
                 /\ rows[j].fee_left = x /\ rows[j].slippage_left = y
                 /\ rows[j].entry_price = lot.entry_price /\ rows[j].qty = lot.qty - trade.qty
      BY <1>8, <1>10, <1>11, <2>2, <3>2
    <3> HIDE DEF x, y
    <3>. QED BY <1>2, <1>3, <1>7, <1>8, <2>0, <2>2, <3>3, <3>4, <3>5, <3>6, <3>7, OwnPortion
  <2>. QED BY <2>1, <2>2
<1>. QED BY <1>5, <1>12 DEF m, rows, trade, rest

\* The next portion of a sale is one of the head lot.
LEMMA NextPortion ==
  ASSUME LotAssumption, NEW now \in Int, NEW b, Book(b, now),
         NEW left \in Nat, left > 0, left <= Holding(b)
  PROVE  LET portion == Lesser(b.lots[HeadAt(b.lots)].qty, left)
         IN portion \in Nat /\ OfHead(b, portion)
<1> DEFINE h == HeadAt(b.lots)
           q == b.lots[h].qty
           portion == Lesser(q, left)
<1>1. b \in Ledger /\ Queued(b.lots, now) BY DEF Book
<1>2. b.lots \in Seq(Lot) BY <1>1, BookTypes
<1>3. b.lots # <<>>
  <2>1. b.lots = <<>> => Holding(b) = 0 BY <1>1, HoldingIs
  <2>. QED BY <2>1
<1>4. h \in 1..Len(b.lots) /\ b.lots[h] \in Lot BY <1>2, <1>3, HeadIs
<1>5. q \in Nat /\ q > 0 BY <1>1, <1>4 DEF Queued, Lot
<1>6. portion \in Nat /\ portion \in 1..q
  <2> HIDE DEF q
  <2>. QED BY <1>5 DEF Lesser
<1> HIDE DEF portion
<1>. QED BY <1>3, <1>6 DEF OfHead, portion

\* What the trades show of every purchase, none of them of a lot opened later.
AccountsOK(l, ps, now) ==
  /\ \A i \in 1..Len(ps) : Accounted(l.lots, l.trades, ps[i])
  /\ \A k \in 1..Len(l.trades) : l.trades[k].opened_at <= now

LEMMA PortionShows ==
  ASSUME LotAssumption, NEW now \in Int, NEW l, Book(l, now),
         NEW qty \in Nat, OfHead(l, qty), NEW at \in Int, NEW price \in Nat,
         NEW kind \in TradeKinds, Closes(at, kind),
         NEW ps \in Seq(Lot), AccountsOK(l, ps, now)
  PROVE  AccountsOK(SellPortion(l, qty, at, price, kind), ps, now)
<1> DEFINE m == SellPortion(l, qty, at, price, kind)
           h == HeadAt(l.lots)
           lot == l.lots[h]
           trade == TradeOf(lot, qty, at, price, kind)
<1>1. \A i \in 1..Len(ps) : Accounted(m.lots, m.trades, ps[i])
  <2>1. ASSUME NEW i \in 1..Len(ps) PROVE Accounted(m.lots, m.trades, ps[i])
    <3>1. ps[i] \in Lot /\ Accounted(l.lots, l.trades, ps[i]) BY DEF AccountsOK
    <3>. QED BY <3>1, PortionAccounted
  <2>. QED BY <2>1
<1>2. l \in Ledger /\ Queued(l.lots, now) BY DEF Book
<1>3. l.lots \in Seq(Lot) /\ l.trades \in Seq(Trade) BY <1>2, BookTypes
<1>4. lot.opened_at <= now
  <2>1. h \in 1..Len(l.lots) BY <1>3, HeadIs DEF OfHead
  <2>. QED BY <1>2, <2>1 DEF Queued
<1>5. m.trades = Append(l.trades, trade) BY <1>2, PortionLeaves
<1>6. trade.opened_at = lot.opened_at BY DEF TradeOf, Traded
<1> HIDE DEF m, trade, lot
<1>7. /\ Len(m.trades) = Len(l.trades) + 1 /\ m.trades[Len(l.trades) + 1] = trade
      /\ \A k \in 1..Len(l.trades) : m.trades[k] = l.trades[k]
      /\ Len(l.trades) \in Nat
  <2>1. l.trades \in Seq(Trade \cup {trade}) /\ trade \in Trade \cup {trade} BY <1>3
  <2>. QED BY <1>5, <2>1, AppendIs
<1>8. ASSUME NEW k \in 1..Len(m.trades) PROVE m.trades[k].opened_at <= now
  <2>1. CASE k = Len(l.trades) + 1 BY <1>4, <1>6, <1>7, <2>1
  <2>2. CASE k # Len(l.trades) + 1
    <3>1. k \in 1..Len(l.trades) BY <1>7, <2>2
    <3>. QED BY <1>7, <3>1 DEF AccountsOK
  <2>. QED BY <2>1, <2>2
<1>. QED BY <1>1, <1>8 DEF AccountsOK, m

\* A sale of a quantity, portion after portion.
LEMMA QtyShows ==
  ASSUME LotAssumption, NEW now \in Int, NEW l, Book(l, now),
         NEW target \in Nat, target <= Holding(l),
         NEW at \in Int, NEW price \in Nat, NEW kind \in TradeKinds, Closes(at, kind),
         NEW ps \in Seq(Lot), AccountsOK(l, ps, now)
  PROVE  AccountsOK(SellQty(l, target, at, price, kind), ps, now)
<1> DEFINE L == Len(l.lots)
           f == SellSteps(l, target, at, price, kind)
           S == {n \in 0..L : /\ Selling(f[n], l, target, now, L - n)
                              /\ AccountsOK(f[n].ledger, ps, now)}
<1>1. l \in Ledger BY DEF Book
<1>2. L \in Nat /\ Holding(l) \in Nat
  <2>1. l.lots \in Seq(Lot) BY <1>1, BookTypes
  <2>. QED BY <1>1, <2>1, HoldingIs
<1>3. f = [n \in 0..L |-> SellStep(l, target, at, price, kind, f, n)] BY <1>2, StepsExist
<1> HIDE DEF f
<1>4. f[0] = [left |-> target, ledger |-> l]
  <2>1. 0 \in 0..L BY <1>2
  <2> HIDE DEF L
  <2>2. f[0] = SellStep(l, target, at, price, kind, f, 0) BY <1>3, <2>1
  <2>. QED BY <2>2 DEF SellStep
<1>5. \A n \in 1..L : f[n] = SellNext(f[n - 1], at, price, kind)
  <2>1. ASSUME NEW n \in 1..L PROVE f[n] = SellNext(f[n - 1], at, price, kind)
    <3>1. n \in 0..L /\ n # 0 BY <1>2
    <3> HIDE DEF L
    <3>2. f[n] = SellStep(l, target, at, price, kind, f, n) BY <1>3, <3>1
    <3>. QED BY <3>1, <3>2 DEF SellStep
  <2>. QED BY <2>1
<1>6. 0 \in S
  <2> DEFINE acc == [left |-> target, ledger |-> l]
  <2>1. acc.left = target /\ acc.ledger = l OBVIOUS
  <2> HIDE DEF acc
  <2>2. Selling(acc, l, target, now, L) BY <1>2, <2>1 DEF Selling
  <2>3. L - 0 = L /\ 0 \in 0..L BY <1>2
  <2>. QED BY <1>4, <2>1, <2>2, <2>3 DEF acc
<1>7. ASSUME NEW n \in 1..L, n - 1 \in S PROVE n \in S
  <2> DEFINE k == L - (n - 1)
             acc == f[n - 1]
             b == acc.ledger
             next == f[n]
  <2>1. k \in Int /\ k - 1 = L - n /\ n \in 0..L BY <1>2
  <2>2. Selling(acc, l, target, now, k) /\ AccountsOK(b, ps, now) BY <1>7
  <2>3. next = SellNext(acc, at, price, kind) BY <1>5
  <2> HIDE DEF k, acc, next, L, b
  <2>4. Selling(next, l, target, now, k - 1) BY <1>1, <2>1, <2>2, <2>3, NextSold
  <2>5. AccountsOK(next.ledger, ps, now)
    <3>1. CASE acc.left = 0
      <4>1. next = acc BY <2>3, <3>1 DEF SellNext
      <4>. QED BY <2>2, <4>1 DEF b
    <3>2. CASE acc.left # 0
      <4> DEFINE portion == Lesser(b.lots[HeadAt(b.lots)].qty, acc.left)
                 m == SellPortion(b, portion, at, price, kind)
      <4>1. next.ledger = m BY <2>3, <3>2 DEF SellNext, b
      <4>2. Book(b, now) /\ acc.left \in Nat /\ acc.left > 0 /\ acc.left <= Holding(b)
        BY <2>2, <3>2 DEF Selling, b
      <4>3. portion \in Nat /\ OfHead(b, portion) BY <4>2, NextPortion
      <4> HIDE DEF portion
      <4>4. AccountsOK(m, ps, now) BY <2>2, <4>2, <4>3, PortionShows
      <4>. QED BY <4>1, <4>4
    <3>. QED BY <3>1, <3>2
  <2>. QED BY <2>1, <2>4, <2>5 DEF next
<1>8. L \in S
  <2> HIDE DEF S, L
  <2>1. \A n \in 0..L : n \in S BY <1>2, <1>6, <1>7, AllUpTo
  <2>. QED BY <1>2, <2>1
<1>9. SellQty(l, target, at, price, kind) = f[L].ledger BY SaleIsSteps DEF f
<1>. QED BY <1>8, <1>9

\* What the ledger notes of a buy.
Charged(lot) ==
  /\ lot.fee_left = Charge(lot.entry_price * lot.qty, FeeBps)
  /\ lot.slippage_left = Charge(lot.entry_price * lot.qty, SlippageBps)

LEMMA BuyNotes ==
  ASSUME LotAssumption, NEW l \in Ledger, NEW at \in Int, NEW price \in Nat, price > 0,
         NEW notional \in Nat
  PROVE  LET result == Buy(l, at, price, notional)
         IN /\ result.ledger.trades = l.trades
            /\ ~result.filled => result.ledger.lots = l.lots
            /\ result.filled => \E lot \in Lot : /\ result.ledger.lots = Append(l.lots, lot)
                                                 /\ lot.opened_at = at /\ Charged(lot)
<1> DEFINE qty == FloorQty(notional, price)
           gross == qty * price
           fee == Charge(gross, FeeBps)
           slippage == Charge(gross, SlippageBps)
           lot == [opened_at |-> at, entry_price |-> price, qty |-> qty,
                   fee_left |-> fee, slippage_left |-> slippage]
<1>1. qty \in Nat BY Quotient DEF FloorQty
<1> HIDE DEF qty
<1>2. gross \in Nat /\ gross = price * qty
  <2>1. gross \in Nat BY <1>1, ProductNat
  <2>2. gross = price * qty BY <1>1
  <2>. QED BY <2>1, <2>2
<1> HIDE DEF gross
<1>3. fee \in Nat /\ slippage \in Nat BY <1>2, LotParameters, ChargeNat
<1>4. fee = Charge(price * qty, FeeBps) /\ slippage = Charge(price * qty, SlippageBps) BY <1>2
<1> HIDE DEF fee, slippage
<1>5. lot \in Lot /\ lot.opened_at = at /\ Charged(lot) BY <1>1, <1>3, <1>4 DEF Lot, Charged
<1>6. CASE qty = 0 BY <1>6 DEF Buy, qty
<1>7. CASE qty # 0 /\ Cost(gross, fee, slippage) > l.cash
  <2> DEFINE m == [l EXCEPT !.skipped_buys = l.skipped_buys + 1]
             result == [filled |-> FALSE, ledger |-> m]
  <2>1. Buy(l, at, price, notional) = result
    BY <1>7 DEF Buy, qty, gross, fee, slippage
  <2>2. m.trades = l.trades /\ m.lots = l.lots BY DEF Ledger
  <2> HIDE DEF m
  <2>3. result.filled = FALSE /\ result.ledger = m OBVIOUS
  <2> HIDE DEF result
  <2>. QED BY <2>1, <2>2, <2>3
<1>8. CASE qty # 0 /\ ~(Cost(gross, fee, slippage) > l.cash)
  <2> DEFINE m == Bought(l, at, price, qty, fee, slippage)
             result == [filled |-> TRUE, ledger |-> m]
  <2>1. Buy(l, at, price, notional) = result
    BY <1>8 DEF Buy, Bought, qty, gross, fee, slippage
  <2>2. m.lots = Append(l.lots, lot) /\ m.trades = l.trades BY DEF Bought, Ledger
  <2> HIDE DEF m, lot
  <2>3. result.ledger = m /\ result.filled = TRUE OBVIOUS
  <2> HIDE DEF result
  <2>. QED BY <1>5, <2>1, <2>2, <2>3
<1>. QED BY <1>6, <1>7, <1>8

LEMMA SameAccounts ==
  ASSUME NEW before \in Int, NEW at \in Int, before <= at, NEW l \in Ledger, NEW ps,
         AccountsOK(l, ps, before), NEW m, m.lots = l.lots, m.trades = l.trades
  PROVE  AccountsOK(m, ps, at)
<1>1. l.trades \in Seq(Trade) BY BookTypes
<1>2. ASSUME NEW k \in 1..Len(l.trades) PROVE l.trades[k].opened_at <= at
  <2>1. l.trades[k].opened_at <= before BY DEF AccountsOK
  <2>2. l.trades[k] \in Trade BY <1>1
  <2>3. l.trades[k].opened_at \in Int BY <2>2 DEF Trade
  <2>. QED BY <2>1, <2>3
<1>. QED BY <1>2 DEF AccountsOK

\* Before its first trade a lot has sold nothing and keeps its charges.
LEMMA FreshAccount ==
  ASSUME NEW trades \in Seq(Trade), NEW lot \in Lot,
         \A k \in 1..Len(trades) : trades[k].opened_at # lot.opened_at,
         NEW rows, Held(rows, lot.opened_at),
         \A i \in 1..Len(rows) : rows[i].opened_at = lot.opened_at => rows[i] = lot
  PROVE  Accounted(rows, trades, lot)
<1> DEFINE n == Len(trades)
           t == lot.opened_at
           f == [k \in 0..n |-> lot.fee_left]
           g == [k \in 0..n |-> lot.slippage_left]
           parts == Parts(trades, t)
           zeros == [k \in 0..n |-> 0]
<1>1. n \in Nat /\ lot.fee_left \in Nat /\ lot.slippage_left \in Nat /\ lot.qty \in Nat BY DEF Lot
<1>2. /\ \A k \in 0..n : f[k] = lot.fee_left /\ g[k] = lot.slippage_left
      /\ \A k \in 1..n : k - 1 \in 0..n /\ k \in 0..n /\ 0 \in 0..n /\ n \in 0..n
      /\ 0 \in 0..n /\ n \in 0..n
  BY <1>1
<1> HIDE DEF f, g
<1>3. RunsDown(f, trades, t, FeeBps, 0, lot.fee_left)
  BY <1>1, <1>2 DEF RunsDown, After
<1>4. RunsDown(g, trades, t, SlippageBps, 0, lot.slippage_left)
  BY <1>1, <1>2 DEF RunsDown, After
<1>5. ChargedAs(trades, lot, 0, f, g) BY <1>3, <1>4 DEF ChargedAs
<1>6. Total(parts) = 0
  <2>1. parts \in Seq(Int) /\ Len(parts) = n /\ \A k \in 1..n : parts[k] = 0 BY PartsAre
  <2>2. zeros[0] = 0 /\ zeros[n] = 0 /\ \A k \in 1..n : zeros[k] = zeros[k - 1] + parts[k]
    BY <1>1, <2>1
  <2> HIDE DEF zeros, parts
  <2>3. Total(parts) = zeros[Len(parts)] BY <2>1, <2>2, TotalIs
  <2>. QED BY <2>1, <2>2, <2>3
<1>7. ASSUME NEW i \in 1..Len(rows), rows[i].opened_at = t
      PROVE  Keeps(rows[i], lot, Total(parts), f[n], g[n])
  <2>1. rows[i] = lot BY <1>7
  <2>2. Total(parts) + lot.qty = lot.qty BY <1>1, <1>6
  <2>. QED BY <1>2, <2>1, <2>2 DEF Keeps
<1>8. Shown(rows, trades, lot, 0, f, g) BY <1>5, <1>7 DEF Shown
<1>. QED BY <1>8 DEF Accounted

\* A buy starts the account of its lot, and leaves the others as they are.
LEMMA BuyShows ==
  ASSUME NEW before \in Int, NEW at \in Int, before < at, NEW l, Book(l, before),
         NEW ps \in Seq(Lot), AccountsOK(l, ps, before),
         \A i \in 1..Len(ps) : ps[i].opened_at <= before,
         NEW lot \in Lot, lot.opened_at = at, NEW m, m.lots = Append(l.lots, lot), m.trades = l.trades
  PROVE  AccountsOK(m, Append(ps, lot), at)
<1> DEFINE lots == l.lots
           trades == l.trades
           rows == m.lots
           n == Len(lots)
           more == Append(ps, lot)
<1>1. l \in Ledger /\ Queued(lots, before) BY DEF Book
<1>2. lots \in Seq(Lot) /\ trades \in Seq(Trade) BY <1>1, BookTypes
<1>3. /\ n \in Nat /\ Len(rows) = n + 1 /\ rows[n + 1] = lot /\ \A i \in 1..n : rows[i] = lots[i]
      /\ rows \in Seq(Lot)
  BY <1>2, AppendIs
<1>4. ASSUME NEW i \in 1..n PROVE lots[i].opened_at # at
  <2>1. lots[i] \in Lot BY <1>2
  <2>2. lots[i].opened_at \in Int BY <2>1 DEF Lot
  <2>3. lots[i].opened_at <= before BY <1>1 DEF Queued
  <2>. QED BY <2>2, <2>3
<1>5. ASSUME NEW k \in 1..Len(trades) PROVE trades[k].opened_at # at /\ trades[k].opened_at <= at
  <2>1. trades[k] \in Trade BY <1>2
  <2>2. trades[k].opened_at \in Int BY <2>1 DEF Trade
  <2>3. trades[k].opened_at <= before BY DEF AccountsOK
  <2>. QED BY <2>2, <2>3
<1>6. /\ Len(more) = Len(ps) + 1 /\ more[Len(ps) + 1] = lot
      /\ \A i \in 1..Len(ps) : more[i] = ps[i] /\ Len(ps) \in Nat
  BY AppendIs
<1> HIDE DEF rows, more
<1>8. ASSUME NEW i \in 1..Len(ps) PROVE Accounted(rows, trades, ps[i])
  <2> DEFINE p == ps[i]
             t == p.opened_at
  <2>1. p \in Lot /\ Accounted(lots, trades, p) BY DEF AccountsOK
  <2>2. t # at
    <3>1. t \in Int BY <2>1 DEF Lot
    <3>2. t <= before OBVIOUS
    <3> HIDE DEF p
    <3>. QED BY <3>1, <3>2
  <2> HIDE DEF p, lots, trades
  <2>3. \A j \in 1..Len(rows) : rows[j].opened_at = t => j \in 1..n /\ rows[j] = lots[j]
    <3>1. ASSUME NEW j \in 1..Len(rows), rows[j].opened_at = t PROVE j \in 1..n /\ rows[j] = lots[j]
      <4>1. j # n + 1 BY <1>3, <2>2, <3>1
      <4>. QED BY <1>3, <4>1
    <3>. QED BY <3>1
  <2>4. \A j \in 1..n : j \in 1..Len(rows) /\ rows[j] = lots[j] BY <1>3
  <2>5. Held(rows, t) = Held(lots, t)
    <3>1. Held(rows, t) => Held(lots, t) BY <2>3 DEF Held
    <3>2. Held(lots, t) => Held(rows, t) BY <2>4 DEF Held
    <3>. QED BY <3>1, <3>2 DEF Held
  <2>0. PICK last \in Nat : \E f, g : Shown(lots, trades, p, last, f, g) BY <2>1 DEF Accounted
  <2>6. PICK f, g : Shown(lots, trades, p, last, f, g) BY <2>0
  <2>7. Shown(rows, trades, p, last, f, g) BY <2>3, <2>5, <2>6 DEF Shown
  <2>8. Accounted(rows, trades, p) BY <2>7 DEF Accounted
  <2>. QED BY <2>8 DEF p
<1>9. Accounted(rows, trades, lot)
  <2>1. \A i \in 1..Len(rows) : rows[i].opened_at = lot.opened_at => rows[i] = lot
    <3>1. ASSUME NEW i \in 1..Len(rows), rows[i].opened_at = at PROVE rows[i] = lot
      <4>1. i = n + 1
        <5>1. SUFFICES ASSUME i # n + 1 PROVE FALSE OBVIOUS
        <5>2. i \in 1..n BY <1>3, <5>1
        <5>3. rows[i] = lots[i] /\ lots[i].opened_at # at BY <1>3, <1>4, <5>2
        <5>. QED BY <3>1, <5>3
      <4>. QED BY <1>3, <4>1
    <3>. QED BY <3>1
  <2>2. Held(rows, lot.opened_at)
    <3>1. n + 1 \in 1..Len(rows) BY <1>3
    <3>. QED BY <1>3, <3>1 DEF Held
  <2> HIDE DEF trades
  <2>. QED BY <1>2, <1>5, <2>1, <2>2, FreshAccount
<1>10. ASSUME NEW i \in 1..Len(more) PROVE Accounted(rows, trades, more[i])
  <2>1. CASE i = Len(ps) + 1 BY <1>6, <1>9, <2>1
  <2>2. CASE i # Len(ps) + 1
    <3>1. Len(ps) \in Nat OBVIOUS
    <3>2. i \in 1..Len(ps) BY <1>6, <2>2, <3>1
    <3>. QED BY <1>6, <1>8, <3>2
  <2>. QED BY <2>1, <2>2
<1>. QED BY <1>5, <1>10 DEF AccountsOK, rows, more

PurchasesOK(ps, now) ==
  ps \in Seq(Lot) /\ \A i \in 1..Len(ps) : Charged(ps[i]) /\ ps[i].opened_at <= now

FeesOK == PurchasesOK(purchases, Seen) /\ AccountsOK(ledger, purchases, Seen)

LEMMA MorePurchases ==
  ASSUME NEW before \in Int, NEW at \in Int, before <= at, NEW ps, PurchasesOK(ps, before)
  PROVE  /\ PurchasesOK(ps, at)
         /\ \A lot \in Lot : Charged(lot) /\ lot.opened_at = at => PurchasesOK(Append(ps, lot), at)
<1>1. ps \in Seq(Lot) /\ Len(ps) \in Nat BY DEF PurchasesOK
<1>2. ASSUME NEW i \in 1..Len(ps) PROVE Charged(ps[i]) /\ ps[i].opened_at <= at
  <2>1. ps[i] \in Lot BY <1>1
  <2>2. ps[i].opened_at \in Int BY <2>1 DEF Lot
  <2>3. Charged(ps[i]) /\ ps[i].opened_at <= before BY DEF PurchasesOK
  <2>. QED BY <2>2, <2>3
<1>3. ASSUME NEW lot \in Lot, Charged(lot), lot.opened_at = at PROVE PurchasesOK(Append(ps, lot), at)
  <2> DEFINE more == Append(ps, lot)
  <2>1. /\ more \in Seq(Lot) /\ Len(more) = Len(ps) + 1 /\ more[Len(ps) + 1] = lot
        /\ \A i \in 1..Len(ps) : more[i] = ps[i]
    BY <1>1, AppendIs
  <2> HIDE DEF more
  <2>2. ASSUME NEW i \in 1..Len(more) PROVE Charged(more[i]) /\ more[i].opened_at <= at
    <3>1. CASE i = Len(ps) + 1 BY <1>3, <2>1, <3>1
    <3>2. CASE i # Len(ps) + 1
      <4>1. i \in 1..Len(ps) BY <1>1, <2>1, <3>2
      <4>. QED BY <1>2, <2>1, <4>1
    <3>. QED BY <3>1, <3>2
  <2>. QED BY <2>1, <2>2 DEF PurchasesOK, more
<1>. QED BY <1>1, <1>2, <1>3 DEF PurchasesOK

\* What counting a sell leaves alone.
LEMMA CountedSell ==
  ASSUME NEW m \in Ledger PROVE CountSell(m).lots = m.lots /\ CountSell(m).trades = m.trades
BY DEF CountSell, Ledger

LEMMA FillShows ==
  ASSUME LotAssumption, RunAssumption, RunOK, FeesOK, phase = "open", NEW price \in OpenPrices
  PROVE  LET result == Fill(price)
             at == OpenTime(bar)
         IN IF pending.action = "buy" /\ result.filled
            THEN LET ps == Append(purchases, Last(result.ledger.lots))
                 IN PurchasesOK(ps, at) /\ AccountsOK(result.ledger, ps, at)
            ELSE PurchasesOK(purchases, at) /\ AccountsOK(result.ledger, purchases, at)
<1> DEFINE at == OpenTime(bar)
           before == at - 1
           fresh == BeginBar(ledger)
           result == Fill(price)
           kind == ExitKind
           ps == purchases
<1>1. at \in Int /\ before \in Int /\ before < at /\ before <= at
  <2>1. bar \in Nat BY DEF RunOK
  <2>2. at \in Nat BY <2>1, Times
  <2> HIDE DEF at
  <2>. QED BY <2>2
<1>2. Book(ledger, before) /\ PurchasesOK(ps, before) /\ AccountsOK(ledger, ps, before)
  BY DEF RunOK, FeesOK, Seen
<1>3. /\ Book(fresh, before) /\ fresh.lots = ledger.lots /\ fresh.trades = ledger.trades
  BY <1>2, BeginBarKeeps
<1> HIDE DEF before
<1>4. Book(fresh, at) /\ fresh \in Ledger /\ ledger \in Ledger
  <2>1. Book(fresh, at) BY <1>1, <1>3, BookLater
  <2>. QED BY <1>2, <2>1 DEF Book
<1> HIDE DEF fresh
<1>5. price \in Nat /\ price > 0 BY DEF RunAssumption
<1>6. OrderOK(pending) /\ (pending.action # "hold" => at > 0 /\ at < EndAt) BY DEF RunOK
<1>7. kind \in TradeKinds /\ kind # "end_of_data"
  <2>1. pending.kind \in OrderKinds BY <1>6 DEF OrderOK
  <2>2. pending.kind \in TradeKinds /\ pending.kind # "end_of_data"
    BY <2>1 DEF OrderKinds, TradeKinds
  <2>3. "time_exit" \in TradeKinds /\ "time_exit" # "end_of_data" BY DEF TradeKinds
  <2>. QED BY <2>2, <2>3 DEF ExitKind
<1>8. pending.action # "hold" => Closes(at, kind)
  <2>1. EndAt \in Int BY Times
  <2>2. at < EndAt => at # EndAt BY <1>1, <2>1
  <2>. QED BY <1>6, <1>7, <2>2 DEF Closes
<1> HIDE DEF at, kind, result, ps
<1>9. /\ PurchasesOK(ps, at) /\ ps \in Seq(Lot)
      /\ \A lot \in Lot : Charged(lot) /\ lot.opened_at = at => PurchasesOK(Append(ps, lot), at)
  <2>1. ps \in Seq(Lot) BY <1>2 DEF PurchasesOK
  <2>. QED BY <1>1, <1>2, <2>1, MorePurchases
<1>10. AccountsOK(fresh, ps, at) BY <1>1, <1>2, <1>3, <1>4, SameAccounts
<1>11. CASE pending.action = "buy"
  <2> DEFINE notional == pending.notional
  <2>1. result = Buy(fresh, at, price, notional) BY <1>11 DEF Fill, result, fresh, at
  <2>2. notional \in Nat BY <1>6 DEF OrderOK
  <2> HIDE DEF notional
  <2>3. /\ result.ledger.trades = fresh.trades
        /\ ~result.filled => result.ledger.lots = fresh.lots
        /\ result.filled => \E lot \in Lot : /\ result.ledger.lots = Append(fresh.lots, lot)
                                             /\ lot.opened_at = at /\ Charged(lot)
    <3> DEFINE bought == Buy(fresh, at, price, notional)
    <3>1. /\ bought.ledger.trades = fresh.trades
          /\ ~bought.filled => bought.ledger.lots = fresh.lots
          /\ bought.filled => \E lot \in Lot : /\ bought.ledger.lots = Append(fresh.lots, lot)
                                               /\ lot.opened_at = at /\ Charged(lot)
      BY <1>1, <1>4, <1>5, <2>2, BuyNotes
    <3> HIDE DEF bought
    <3>2. result = bought BY <2>1 DEF bought
    <3>. QED BY <3>1, <3>2
  <2>4. CASE ~result.filled
    <3>1. AccountsOK(result.ledger, ps, at) BY <1>1, <1>4, <1>10, <2>3, <2>4, SameAccounts
    <3>. QED BY <1>9, <2>4, <3>1 DEF result, at, ps
  <2>5. CASE result.filled
    <3>1. PICK lot \in Lot : /\ result.ledger.lots = Append(fresh.lots, lot)
                             /\ lot.opened_at = at /\ Charged(lot)
      BY <2>3, <2>5
    <3>2. AccountsOK(fresh, ps, before)
      <4>1. before <= before BY <1>1
      <4>. QED BY <1>1, <1>2, <1>3, <1>4, <4>1, SameAccounts
    <3>3. \A i \in 1..Len(ps) : ps[i].opened_at <= before BY <1>2 DEF PurchasesOK
    <3>4. AccountsOK(result.ledger, Append(ps, lot), at) /\ Last(result.ledger.lots) = lot
      <4> DEFINE m == result.ledger
      <4>1. m.lots = Append(fresh.lots, lot) /\ m.trades = fresh.trades BY <2>3, <3>1
      <4> HIDE DEF m
      <4>2. /\ before \in Int /\ at \in Int /\ before < at /\ Book(fresh, before)
            /\ ps \in Seq(Lot) /\ lot.opened_at = at
        BY <1>1, <1>3, <1>9, <3>1
      <4>3. AccountsOK(m, Append(ps, lot), at) BY <3>2, <3>3, <4>1, <4>2, BuyShows, Zenon
      <4>4. Last(m.lots) = lot
        <5>1. fresh.lots \in Seq(Lot) BY <1>4, BookTypes
        <5>2. Len(m.lots) = Len(fresh.lots) + 1 /\ m.lots[Len(fresh.lots) + 1] = lot
          BY <4>1, <5>1, AppendIs
        <5>. QED BY <5>2 DEF Last
      <4>. QED BY <4>3, <4>4 DEF m
    <3>5. PurchasesOK(Append(ps, lot), at) BY <1>9, <3>1
    <3>. QED BY <1>11, <2>5, <3>4, <3>5 DEF result, at, ps
  <2>. QED BY <2>4, <2>5
<1>12. CASE pending.action # "buy"
  <2>0. SUFFICES AccountsOK(result.ledger, ps, at) BY <1>9, <1>12 DEF result, at, ps
  <2>1. CASE pending.action = "hold"
    <3>1. result = Unfilled(fresh) BY <2>1 DEF Fill, result, fresh, Unfilled
    <3>2. result.ledger = fresh BY <3>1 DEF Unfilled
    <3>. QED BY <1>10, <3>2
  <2>2. ASSUME NEW m, AccountsOK(m, ps, at), Book(m, at), result.ledger = CountSell(m)
        PROVE  AccountsOK(result.ledger, ps, at)
    <3>1. m \in Ledger /\ at <= at BY <1>1, <2>2 DEF Book
    <3>2. result.ledger.lots = m.lots /\ result.ledger.trades = m.trades BY <2>2, <3>1, CountedSell
    <3>. QED BY <1>1, <2>2, <3>1, <3>2, SameAccounts
  <2>3. ASSUME NEW target \in Nat, target <= Holding(fresh), pending.action # "hold",
               result.ledger = CountSell(SellQty(fresh, target, at, price, kind))
        PROVE  AccountsOK(result.ledger, ps, at)
    <3> DEFINE m == SellQty(fresh, target, at, price, kind)
    <3>1. Book(m, at) BY <1>1, <1>4, <1>5, <1>7, <1>8, <2>3, QtySold
    <3>2. AccountsOK(m, ps, at) BY <1>1, <1>4, <1>5, <1>7, <1>8, <1>9, <1>10, <2>3, QtyShows
    <3> HIDE DEF m
    <3>3. result.ledger = CountSell(m) BY <2>3 DEF m
    <3>. QED BY <2>2, <3>1, <3>2, <3>3
  <2>4. ASSUME result = Unfilled(fresh) PROVE AccountsOK(result.ledger, ps, at)
    <3>1. result.ledger = fresh BY <2>4 DEF Unfilled
    <3>. QED BY <1>10, <3>1
  <2>5. Holding(fresh) \in Nat BY <1>4, HoldingIs
  <2>6. CASE pending.action = "sell"
    <3> DEFINE target == Lesser(FloorQty(SellNotional, price), Holding(fresh))
               m == SellQty(fresh, target, at, price, kind)
    <3>1. result = Sell(fresh, at, price, kind) BY <2>6 DEF Fill, result, fresh, at, kind
    <3>2. target \in Nat /\ target <= Holding(fresh)
      <4>1. SellNotional \in Nat BY LotParameters
      <4>2. FloorQty(SellNotional, price) \in Nat BY <1>5, <4>1, Quotient DEF FloorQty
      <4>. QED BY <2>5, <4>2, LesserOf
    <3>3. CASE target = 0
      <4>1. result = Unfilled(fresh) BY <3>1, <3>3 DEF Sell, Unfilled
      <4>. QED BY <2>4, <4>1
    <3>4. CASE target # 0
      <4>1. result = [filled |-> TRUE, ledger |-> CountSell(m)] BY <3>1, <3>4 DEF Sell
      <4>2. result.ledger = CountSell(m) BY <4>1
      <4> HIDE DEF target
      <4>. QED BY <2>3, <2>6, <3>2, <4>2
    <3>. QED BY <3>3, <3>4
  <2>7. CASE pending.action = "sell_all"
    <3> DEFINE target == Holding(fresh)
               m == SellQty(fresh, target, at, price, kind)
    <3>1. result = SellAll(fresh, at, price, kind) BY <2>7 DEF Fill, result, fresh, at, kind
    <3>2. CASE fresh.lots = <<>>
      <4>1. result = Unfilled(fresh) BY <3>1, <3>2 DEF SellAll, Unfilled
      <4>. QED BY <2>4, <4>1
    <3>3. CASE fresh.lots # <<>>
      <4>1. result = [filled |-> TRUE, ledger |-> CountSell(m)] BY <3>1, <3>3 DEF SellAll
      <4>2. result.ledger = CountSell(m) BY <4>1
      <4>3. target \in Nat /\ target <= Holding(fresh) BY <2>5
      <4> HIDE DEF target
      <4>. QED BY <2>3, <2>7, <4>2, <4>3
    <3>. QED BY <3>2, <3>3
  <2>8. CASE pending.action = "sell_lot"
    <3> DEFINE h == HeadAt(fresh.lots)
               qty == fresh.lots[h].qty
               m == SellPortion(fresh, qty, at, price, kind)
    <3>1. result = SellLot(fresh, at, price, kind) BY <2>8 DEF Fill, result, fresh, at, kind
    <3>2. CASE fresh.lots = <<>>
      <4>1. result = Unfilled(fresh) BY <3>1, <3>2 DEF SellLot, Unfilled
      <4>. QED BY <2>4, <4>1
    <3>3. CASE fresh.lots # <<>>
      <4>1. result = [filled |-> TRUE, ledger |-> CountSell(m)] BY <3>1, <3>3 DEF SellLot
      <4>2. result.ledger = CountSell(m) BY <4>1
      <4>3. fresh.lots \in Seq(Lot) /\ Queued(fresh.lots, at) BY <1>4, BookTypes DEF Book
      <4>4. h \in 1..Len(fresh.lots) /\ fresh.lots[h] \in Lot BY <3>3, <4>3, HeadIs
      <4>5. qty \in Nat /\ qty > 0 BY <4>3, <4>4 DEF Queued, Lot
      <4>6. qty \in Nat /\ OfHead(fresh, qty) BY <3>3, <4>5 DEF OfHead
      <4>7. Closes(at, kind) BY <1>8, <2>8
      <4> HIDE DEF qty
      <4>8. Book(m, at) BY <1>1, <1>4, <1>5, <1>7, <4>6, <4>7, PortionSold
      <4>9. AccountsOK(m, ps, at) BY <1>1, <1>4, <1>5, <1>7, <1>9, <1>10, <4>6, <4>7, PortionShows
      <4> HIDE DEF m
      <4>. QED BY <2>2, <4>2, <4>8, <4>9
    <3>. QED BY <3>2, <3>3
  <2>. QED BY <1>6, <1>12, <2>1, <2>6, <2>7, <2>8 DEF OrderOK, Actions
<1>. QED BY <1>11, <1>12

FeeInvariant == RunInvariant /\ FeesOK

LEMMA FeesInit == ASSUME LotAssumption, RunAssumption, Init PROVE FeeInvariant
<1>1. RunInvariant BY RunInit, ClockInit DEF RunInvariant
<1>2. purchases = <<>> /\ ledger.trades = <<>> BY DEF Init, EmptyLedger
<1>3. FeesOK BY <1>2 DEF FeesOK, PurchasesOK, AccountsOK
<1>. QED BY <1>1, <1>3 DEF FeeInvariant

LEMMA FeesOpen ==
  ASSUME LotAssumption, RunAssumption, RunOK, FeesOK, NEW price \in OpenPrices, OpenBar(price)
  PROVE  FeesOK'
<1> DEFINE result == Fill(price)
           l == result.ledger
           at == OpenTime(bar)
<1>1. /\ phase = "open" /\ ledger' = l /\ phase' = "close" /\ bar' = bar /\ Booked(result, l, price)
  BY OpenIs
<1>2. purchases' = IF result.filled /\ pending.action = "buy"
                   THEN Append(purchases, Last(l.lots)) ELSE purchases
  BY <1>1 DEF Booked
<1>3. IF pending.action = "buy" /\ result.filled
      THEN PurchasesOK(Append(purchases, Last(l.lots)), at)
           /\ AccountsOK(l, Append(purchases, Last(l.lots)), at)
      ELSE PurchasesOK(purchases, at) /\ AccountsOK(l, purchases, at)
  BY <1>1, FillShows
<1>4. Seen' = at BY <1>1 DEF Seen, OpenTime
<1> HIDE DEF result, l, at
<1>5. PurchasesOK(purchases', at) /\ AccountsOK(ledger', purchases', at) BY <1>1, <1>2, <1>3
<1>. QED BY <1>4, <1>5 DEF FeesOK

LEMMA FeesClose ==
  ASSUME LotAssumption, RunAssumption, RunOK, CurveOK, FeesOK,
         NEW price \in ClosePrices, NEW signal \in Signals \cup {Hold}, CloseBar(price, signal)
  PROVE  FeesOK'
<1>1. /\ ledger' = ledger /\ phase = "close" /\ purchases' = purchases
      /\ phase' = IF bar < LastBar THEN "open" ELSE "end"
      /\ bar' = IF bar < LastBar THEN bar + 1 ELSE bar
  BY RunCloses DEF CloseBar
<1>2. bar \in Nat /\ Book(ledger, Seen) BY DEF RunOK
<1>3. ledger \in Ledger BY <1>2 DEF Book
<1> DEFINE before == Seen
           after == Seen'
<1>4. before \in Int /\ after \in Int /\ before <= after
  <2> DEFINE a == OpenTime(bar)
             b == OpenTime(bar + 1)
  <2>1. bar + 1 \in Nat BY <1>2
  <2>2. a \in Nat /\ b \in Nat /\ a < b BY <1>2, <2>1, Times
  <2>3. before = a BY <1>1 DEF Seen
  <2>4. after = IF bar < LastBar THEN b - 1 ELSE a BY <1>1 DEF Seen, OpenTime
  <2> HIDE DEF a, b, before, after
  <2>. QED BY <2>2, <2>3, <2>4
<1>5. PurchasesOK(purchases, before) /\ AccountsOK(ledger, purchases, before) BY DEF FeesOK
<1> HIDE DEF before, after
<1>6. PurchasesOK(purchases, after) BY <1>4, <1>5, MorePurchases
<1>7. AccountsOK(ledger, purchases, after) BY <1>3, <1>4, <1>5, SameAccounts
<1>. QED BY <1>1, <1>6, <1>7 DEF FeesOK, after

LEMMA FeesFinish ==
  ASSUME LotAssumption, RunAssumption, RunOK, CurveOK, FeesOK, Finish
  PROVE  FeesOK'
<1>1. phase = "end" /\ phase' = "done" /\ bar' = bar /\ purchases' = purchases
  BY RunFinishes DEF Finish, history
<1>2. Seen' = Seen BY <1>1 DEF Seen, OpenTime
<1>3. /\ Book(ledger, Seen) /\ Seen \in Int /\ EndAt \in Int
  <2>1. bar \in Nat BY DEF RunOK
  <2>2. OpenTime(bar) \in Nat /\ EndAt \in Nat BY <2>1, Times
  <2>. QED BY <1>1, <2>2 DEF RunOK, Seen
<1>4. PurchasesOK(purchases, Seen) /\ AccountsOK(ledger, purchases, Seen) BY DEF FeesOK
<1>5. AccountsOK(ledger', purchases, Seen)
  <2>1. CASE ledger.lots = <<>>
    <3>1. ledger' = ledger BY <2>1 DEF Finish
    <3>. QED BY <1>4, <3>1
  <2>2. CASE ledger.lots # <<>>
    <3> DEFINE price == Last(prices)
               h == Holding(ledger)
               m == SellQty(ledger, h, EndAt, price, "end_of_data")
    <3>1. price \in Nat
      <4>1. prices \in Seq(Nat) /\ prices # <<>> BY <1>1 DEF RunOK
      <4>2. Len(prices) \in 1..Len(prices) BY <4>1
      <4>. QED BY <4>1, <4>2 DEF Last
    <3>2. ledger \in Ledger BY <1>3 DEF Book
    <3>3. h \in Nat /\ h <= Holding(ledger) BY <3>2, HoldingIs
    <3>4. "end_of_data" \in TradeKinds /\ Closes(EndAt, "end_of_data") BY DEF TradeKinds, Closes
    <3>5. ledger' = Checked(m, price) BY <2>2 DEF Finish, SoldOut
    <3>6. purchases \in Seq(Lot) BY <1>4 DEF PurchasesOK
    <3>7. AccountsOK(m, purchases, Seen) /\ Book(m, Seen)
      BY <1>3, <1>4, <3>1, <3>3, <3>4, <3>6, QtyShows, QtySold
    <3> HIDE DEF m, price
    <3>8. m \in Ledger BY <3>7 DEF Book
    <3>9. Checked(m, price).trades = m.trades /\ Checked(m, price).lots = m.lots
      <4> DEFINE raised == m.raised \/ ~Consistent(m, price)
      <4>1. Checked(m, price) = [m EXCEPT !.raised = raised] BY DEF Checked
      <4> HIDE DEF raised
      <4>. QED BY <3>8, <4>1 DEF Ledger
    <3>10. Seen <= Seen BY <1>3
    <3>. QED BY <1>3, <3>5, <3>7, <3>8, <3>9, <3>10, SameAccounts
  <2>. QED BY <2>1, <2>2
<1>. QED BY <1>1, <1>2, <1>4, <1>5 DEF FeesOK

LEMMA FeeSteps ==
  ASSUME LotAssumption, RunAssumption, FeeInvariant, [Next]_vars PROVE FeeInvariant'
<1>1. RunInvariant /\ RunOK /\ CurveOK /\ FeesOK BY DEF FeeInvariant, RunInvariant
<1>2. RunInvariant' BY <1>1, RunSteps
<1>3. ASSUME NEW price \in OpenPrices, OpenBar(price) PROVE FeesOK' BY <1>1, <1>3, FeesOpen
<1>4. ASSUME NEW price \in ClosePrices, NEW signal \in Signals \cup {Hold}, CloseBar(price, signal)
      PROVE  FeesOK'
  BY <1>1, <1>4, FeesClose
<1>5. CASE Finish BY <1>1, <1>2, <1>5, FeesFinish DEF FeeInvariant
<1>6. CASE UNCHANGED vars
  <2>1. /\ phase' = phase /\ bar' = bar /\ ledger' = ledger /\ purchases' = purchases
    BY <1>6 DEF vars, history
  <2>2. Seen' = Seen BY <2>1 DEF Seen, OpenTime
  <2>3. FeesOK' BY <1>1, <2>1, <2>2 DEF FeesOK
  <2>. QED BY <1>2, <2>3 DEF FeeInvariant
<1>. QED BY <1>2, <1>3, <1>4, <1>5, <1>6 DEF Next, FeeInvariant

-----------------------------------------------------------------------------
\* The first trade of a lot.
LEMMA SmallestIs ==
  ASSUME NEW S, S \subseteq Nat, S # {} PROVE Min(S) \in S
<1>1. IsWellFoundedOn(OpToRel(<, Nat), Nat) BY NatLessThanWellFounded
<1>2. PICK n \in S : \A k \in S : ~(<<k, n>> \in OpToRel(<, Nat)) BY <1>1, WFMin
<1>3. \A k \in S : ~(k < n) BY <1>2 DEF OpToRel
<1>4. \A k \in S : n <= k BY <1>3
<1>5. \E x \in S : \A y \in S : x <= y BY <1>4
<1>. QED BY <1>5 DEF Min

\* The recomputed run of a charge, as the equation that defines it.
LeftStep(of, bps, left, k) ==
  LET trades == ledger.trades
  IN IF k = 0
     THEN Charge(trades[Min(of)].entry_price
                   * Total([j \in DOMAIN trades |-> IF j \in of THEN trades[j].qty ELSE 0]), bps)
     ELSE LeftAfter(of, k, left[k - 1], bps)

LEMMA RecomputedIs ==
  ASSUME NEW of, NEW bps
  PROVE  Recomputed(of, bps)
           = CHOOSE left : left = [k \in 0..Len(ledger.trades) |-> LeftStep(of, bps, left, k)]
BY Zenon DEF Recomputed, LeftStep

\* Whatever runs the charge of a lot down its trades is what the formula recomputes.
LEMMA RunIsRecomputed ==
  ASSUME NEW of, NEW bps, NEW f, Len(ledger.trades) \in Nat,
         \A k \in 0..Len(ledger.trades) : f[k] = LeftStep(of, bps, f, k)
  PROVE  \A k \in 0..Len(ledger.trades) : Recomputed(of, bps)[k] = f[k]
<1> DEFINE n == Len(ledger.trades)
           g == Recomputed(of, bps)
           h == [k \in 0..n |-> f[k]]
           S == {k \in 0..n : g[k] = f[k]}
<1>1. h = [k \in 0..n |-> LeftStep(of, bps, h, k)]
  <2>1. ASSUME NEW k \in 0..n PROVE h[k] = LeftStep(of, bps, h, k)
    <3>1. h[k] = f[k] /\ f[k] = LeftStep(of, bps, f, k) OBVIOUS
    <3>2. CASE k = 0 BY <3>1, <3>2 DEF LeftStep
    <3>3. CASE k # 0
      <4>1. k - 1 \in 0..n BY <3>3
      <4>2. h[k - 1] = f[k - 1] BY <4>1
      <4> HIDE DEF h
      <4>. QED BY <3>1, <3>3, <4>2 DEF LeftStep
    <3>. QED BY <3>2, <3>3
  <2>2. h = [k \in 0..n |-> h[k]] OBVIOUS
  <2> HIDE DEF h
  <2>. QED BY <2>1, <2>2
<1> HIDE DEF h
<1>2. g = [k \in 0..n |-> LeftStep(of, bps, g, k)] BY <1>1, RecomputedIs, Zenon
<1> HIDE DEF g
<1>3. \A k \in 0..n : g[k] = LeftStep(of, bps, g, k) BY <1>2
<1>4. 0 \in S
  <2>1. 0 \in 0..n OBVIOUS
  <2>2. g[0] = LeftStep(of, bps, g, 0) /\ f[0] = LeftStep(of, bps, f, 0) BY <1>3, <2>1
  <2>. QED BY <2>1, <2>2 DEF LeftStep
<1>5. ASSUME NEW k \in 1..n, k - 1 \in S PROVE k \in S
  <2>1. k \in 0..n /\ k # 0 OBVIOUS
  <2>2. g[k] = LeftStep(of, bps, g, k) /\ f[k] = LeftStep(of, bps, f, k) BY <1>3, <2>1
  <2>3. g[k - 1] = f[k - 1] BY <1>5
  <2>. QED BY <2>1, <2>2, <2>3 DEF LeftStep
<1>6. \A k \in 0..n : k \in S
  <2> HIDE DEF S, n
  <2>1. n \in Nat BY DEF n
  <2>. QED BY <1>4, <1>5, <2>1, AllUpTo
<1>. QED BY <1>6 DEF g

\* A charge run down the trades of a lot that is sold out is what the formula
\* recomputes from them.
SoldOutBy(p, last) ==
  /\ ledger.trades \in Seq(Trade) /\ LastOf(ledger.trades, p.opened_at, last)
  /\ Total(Parts(ledger.trades, p.opened_at)) = p.qty
  /\ \A k \in TradesOf(p) : ledger.trades[k].entry_price = p.entry_price

EntryDown(p, last, f, bps) ==
  RunsDown(f, ledger.trades, p.opened_at, bps, last, Charge(p.entry_price * p.qty, bps))

LEMMA DownIsRecomputed ==
  ASSUME NEW p \in Lot, NEW last, SoldOutBy(p, last), NEW f, NEW bps \in Nat,
         EntryDown(p, last, f, bps)
  PROVE  \A k \in 0..Len(ledger.trades) : Recomputed(TradesOf(p), bps)[k] = f[k]
<1> DEFINE trades == ledger.trades
           n == Len(trades)
           t == p.opened_at
           of == TradesOf(p)
<1>0. /\ trades \in Seq(Trade) /\ LastOf(trades, t, last)
      /\ Total(Parts(trades, t)) = p.qty
      /\ \A k \in of : trades[k].entry_price = p.entry_price
      /\ RunsDown(f, trades, t, bps, last, Charge(p.entry_price * p.qty, bps))
  BY DEF SoldOutBy, EntryDown
<1>1. n \in Nat /\ DOMAIN trades = 1..n BY <1>0
<1>2. \A k \in 1..n : (k \in of) <=> (trades[k].opened_at = t) BY <1>1 DEF TradesOf
<1>3. of \subseteq 1..n BY <1>1 DEF TradesOf
<1>4. last \in of
  <2>1. last \in 1..n /\ trades[last].opened_at = t BY <1>0 DEF LastOf
  <2>. QED BY <1>2, <2>1
<1>5. \A k \in of : k <= last
  <2>1. ASSUME NEW k \in of, last < k PROVE FALSE
    <3>1. k \in (last + 1)..n /\ trades[k].opened_at = t BY <1>1, <1>2, <1>3, <1>4, <2>1
    <3>. QED BY <1>0, <3>1 DEF LastOf
  <2>. QED BY <1>3, <1>4, <2>1
<1>6. Min(of) \in of
  <2>1. of \subseteq Nat /\ of # {} BY <1>3, <1>4
  <2> HIDE DEF of
  <2>. QED BY <2>1, SmallestIs
<1>7. Total([j \in DOMAIN trades |-> IF j \in of THEN trades[j].qty ELSE 0]) = p.qty
  <2>1. Parts(trades, t) = [j \in DOMAIN trades |-> IF j \in of THEN trades[j].qty ELSE 0]
    <3> HIDE DEF of
    <3>. QED BY <1>1, <1>2 DEF Parts
  <2>. QED BY <1>0, <2>1
<1>8. /\ f[0] = Charge(p.entry_price * p.qty, bps)
      /\ \A k \in 1..n : f[k] = After(trades[k], t, bps, k = last, f[k - 1])
  BY <1>0 DEF RunsDown
<1>9. trades[Min(of)].entry_price = p.entry_price BY <1>0, <1>6
<1>10. ASSUME NEW k \in 0..n PROVE f[k] = LeftStep(of, bps, f, k)
  <2>1. CASE k = 0
    <3> HIDE DEF of
    <3>. QED BY <1>7, <1>8, <1>9, <2>1 DEF LeftStep
  <2>2. CASE k # 0
    <3>1. k \in 1..n BY <1>1, <2>2
    <3>2. f[k] = After(trades[k], t, bps, k = last, f[k - 1]) BY <1>8, <3>1
    <3>3. (k \in of) <=> (trades[k].opened_at = t) BY <1>2, <3>1
    <3>4. k \in of => ((k = last) <=> (\A j \in of : j <= k))
      <4>1. k \in Nat /\ last \in Nat /\ last \in of /\ \A j \in of : j <= last BY <1>3, <1>4, <1>5, <3>1
      <4> HIDE DEF of
      <4>. QED BY <4>1
    <3> HIDE DEF of
    <3>5. CASE k \notin of BY <2>2, <3>2, <3>3, <3>5 DEF LeftStep, LeftAfter, After
    <3>6. CASE k \in of /\ k = last
      <4>1. f[k] = 0 BY <3>2, <3>3, <3>6 DEF After
      <4>2. LeftStep(of, bps, f, k) = 0 BY <2>2, <3>4, <3>6 DEF LeftStep, LeftAfter
      <4>. QED BY <4>1, <4>2
    <3>7. CASE k \in of /\ k # last
      <4>1. f[k] = f[k - 1] - Lesser(Charge(trades[k].entry_price * trades[k].qty, bps), f[k - 1])
        BY <3>2, <3>3, <3>7 DEF After
      <4>2. LeftStep(of, bps, f, k)
              = f[k - 1] - Lesser(Charge(trades[k].entry_price * trades[k].qty, bps), f[k - 1])
        BY <2>2, <3>4, <3>7, Zenon DEF LeftStep, LeftAfter
      <4>. QED BY <4>1, <4>2
    <3>. QED BY <3>5, <3>6, <3>7
  <2>. QED BY <2>1, <2>2
<1> HIDE DEF of
<1>11. \A k \in 0..n : Recomputed(of, bps)[k] = f[k] BY <1>1, <1>10, RunIsRecomputed
<1>. QED BY <1>11 DEF of

LEMMA AccountRecomputed ==
  ASSUME LotAssumption, ledger.trades \in Seq(Trade), NEW p \in Lot, Charged(p),
         Accounted(ledger.lots, ledger.trades, p), ~Held(ledger.lots, p.opened_at),
         NEW k \in TradesOf(p)
  PROVE  LET fees == Recomputed(TradesOf(p), FeeBps)
             slippages == Recomputed(TradesOf(p), SlippageBps)
         IN Carries(ledger.trades[k], fees[k - 1] - fees[k], slippages[k - 1] - slippages[k])
<1> DEFINE trades == ledger.trades
           n == Len(trades)
           t == p.opened_at
<1>1. n \in Nat /\ DOMAIN trades = 1..n OBVIOUS
<1>2. FeeBps \in Nat /\ SlippageBps \in Nat BY DEF LotAssumption
<1>3. \A j \in TradesOf(p) : j \in 1..n /\ trades[j].opened_at = t BY <1>1 DEF TradesOf
<1>0. PICK last \in Nat : \E f, g : Shown(ledger.lots, trades, p, last, f, g) BY Zenon DEF Accounted
<1>4. PICK f, g : Shown(ledger.lots, trades, p, last, f, g) BY <1>0
<1>5. /\ ChargedAs(trades, p, last, f, g) /\ LastOf(trades, t, last)
      /\ Total(Parts(trades, t)) = p.qty
  BY <1>4, Zenon DEF Shown
<1>6. /\ RunsDown(f, trades, t, FeeBps, last, p.fee_left)
      /\ RunsDown(g, trades, t, SlippageBps, last, p.slippage_left)
      /\ \A j \in 1..n : trades[j].opened_at = t =>
           /\ trades[j].entry_price = p.entry_price
           /\ Carries(trades[j], f[j - 1] - f[j], g[j - 1] - g[j])
  BY <1>5, Zenon DEF ChargedAs
<1>7. /\ p.fee_left = Charge(p.entry_price * p.qty, FeeBps)
      /\ p.slippage_left = Charge(p.entry_price * p.qty, SlippageBps)
  BY DEF Charged
<1>8. EntryDown(p, last, f, FeeBps) /\ EntryDown(p, last, g, SlippageBps)
  BY <1>6, <1>7, Zenon DEF EntryDown
<1>9. \A j \in TradesOf(p) : trades[j].entry_price = p.entry_price BY <1>3, <1>6
<1>10. SoldOutBy(p, last) BY <1>5, <1>9 DEF SoldOutBy
<1>11. \A j \in 0..n : Recomputed(TradesOf(p), FeeBps)[j] = f[j]
  BY <1>2, <1>8, <1>10, DownIsRecomputed
<1>12. \A j \in 0..n : Recomputed(TradesOf(p), SlippageBps)[j] = g[j]
  BY <1>2, <1>8, <1>10, DownIsRecomputed
<1>13. k \in 1..n /\ trades[k].opened_at = t BY <1>3
<1>14. k \in 0..n /\ k - 1 \in 0..n BY <1>1, <1>13
<1>15. Carries(trades[k], f[k - 1] - f[k], g[k - 1] - g[k]) BY <1>6, <1>13
<1>16. /\ Recomputed(TradesOf(p), FeeBps)[k - 1] = f[k - 1]
       /\ Recomputed(TradesOf(p), FeeBps)[k] = f[k]
       /\ Recomputed(TradesOf(p), SlippageBps)[k - 1] = g[k - 1]
       /\ Recomputed(TradesOf(p), SlippageBps)[k] = g[k]
  BY <1>11, <1>12, <1>14
<1>. QED BY <1>15, <1>16

LEMMA FeesAreRecomputed ==
  ASSUME LotAssumption, RunAssumption, FeeInvariant PROVE ServerRecomputesFees
<1>1. ledger.trades \in Seq(Trade)
  <2>1. ledger \in Ledger BY DEF FeeInvariant, RunInvariant, RunOK, Book
  <2>. QED BY <2>1, BookTypes
<1>2. /\ purchases \in Seq(Lot)
      /\ \A i \in 1..Len(purchases) :
           Charged(purchases[i]) /\ Accounted(ledger.lots, ledger.trades, purchases[i])
  BY DEF FeeInvariant, FeesOK, PurchasesOK, AccountsOK
<1>3. ASSUME NEW i \in 1..Len(purchases),
             \A j \in 1..Len(ledger.lots) : ledger.lots[j].opened_at # purchases[i].opened_at,
             NEW k \in TradesOf(purchases[i])
      PROVE  LET fees == Recomputed(TradesOf(purchases[i]), FeeBps)
                 slippages == Recomputed(TradesOf(purchases[i]), SlippageBps)
             IN Carries(ledger.trades[k], fees[k - 1] - fees[k], slippages[k - 1] - slippages[k])
  <2>1. purchases[i] \in Lot BY <1>2
  <2>2. Charged(purchases[i]) /\ Accounted(ledger.lots, ledger.trades, purchases[i]) BY <1>2
  <2>3. ~Held(ledger.lots, purchases[i].opened_at) BY <1>3 DEF Held
  <2>. QED BY <1>1, <1>3, <2>1, <2>2, <2>3, AccountRecomputed, Zenon
<1>. QED BY <1>3 DEF ServerRecomputesFees, Carries

\* Every trade of a sold-out lot carries, to the unit, the fee and the slippage
\* that the formula recomputes from the lot's trades alone: _close_portion hands
\* each sale its part of the entry charge and the last sale whatever is left.
THEOREM ServerCanRecomputeFees ==
  ASSUME LotAssumption, RunAssumption PROVE Spec => []ServerRecomputesFees
<1>1. Init => FeeInvariant BY FeesInit
<1>2. FeeInvariant /\ [Next]_vars => FeeInvariant' BY FeeSteps
<1>3. FeeInvariant => ServerRecomputesFees BY FeesAreRecomputed
<1>. QED BY <1>1, <1>2, <1>3, PTL DEF Spec

=============================================================================
