--------------------------- MODULE DominanceRun ----------------------------
(***************************************************************************)
(* run_dominance of backtesting-py/portfolio_btc_dominance_rotation.py:    *)
(* the whole pool in equal parts while BTC dominance reads under its EMA,  *)
(* cash once it reads above.  Points of the metric are sparse, become      *)
(* readable late and not in the order of their dates; the EMA runs over    *)
(* those a close can read.  The portfolio is PortfolioRun.                 *)
(*                                                                         *)
(* Points that were readable from the start are counted by Archived; the   *)
(* later ones are named.  The side of the EMA the latest point falls on is *)
(* data, chosen anew whenever the readable points change.                  *)
(***************************************************************************)
EXTENDS PortfolioRun, SequencesExt

CONSTANTS
  Archived,            \* points readable before day 0, older than the others
  EmaPeriod,           \* btcd_ema_period
  PointDays,           \* dates of the later points, increasing
  Availabilities       \* [1..Len(PointDays) -> day] the archive may have

DominanceParameters ==
  /\ Archived \in Nat /\ EmaPeriod \in Nat \ {0}
  /\ PointDays \in Seq(Int) /\ Availabilities \subseteq [1..Len(PointDays) -> Int]
  /\ \A i \in 1..Len(PointDays) - 1 : PointDays[i] < PointDays[i + 1]
  /\ \A a \in Availabilities : \A i \in 1..Len(PointDays) : a[i] >= PointDays[i]

VARIABLES
  availableAt,     \* when each later point became readable
  cursor,          \* arrivals read so far
  visible,         \* their indices, as the template keeps them
  emaOver,         \* the indices the EMA was last computed over
  reading,         \* side of the EMA of the latest point
  exitDays,        \* exit_times
  decisions,
  halted           \* INSUFFICIENT_DATA

dominanceVars ==
  <<vars, availableAt, cursor, visible, emaOver, reading, exitDays, decisions, halted>>

Sides == {"above", "below", "level"}

Points == 1..Len(PointDays)

\* Points by availability, then date: the n-th has n - 1 before it.
ArrivesBefore(i, j) ==
  availableAt[i] < availableAt[j] \/ (availableAt[i] = availableAt[j] /\ i < j)
Arrivals ==
  [n \in Points |->
     CHOOSE i \in Points : Cardinality({j \in Points : ArrivesBefore(j, i)}) = n - 1]

\* insort: after the last point of an earlier date.
InsertPoint(seq, i) == InsertAt(seq, Max({0} \cup {k \in 1..Len(seq) : seq[k] < i}) + 1, i)

\* The points visible once the arrivals given were read one by one.
ReadAll(seq, fresh) ==
  LET after[n \in 0..Len(fresh)] == IF n = 0 THEN seq ELSE InsertPoint(after[n - 1], fresh[n])
  IN after[Len(fresh)]

DecisionAt(d) == d + 1

\* Arrivals a decision still has to read: the prefix available by then.
Readable(d) ==
  LET arrivals == Arrivals
      last == Max({n \in cursor..Len(PointDays) :
                     \A k \in cursor + 1..n : availableAt[arrivals[k]] <= DecisionAt(d)})
  IN SubSeq(arrivals, cursor + 1, last)

Held == \E s \in Symbols : Quantity(book, s) > 0

ExitDue(side) == Held /\ side = "above"

EntryDue(side, inRange) == ~Held /\ side = "below" /\ inRange

\* Too few readable points for an EMA.
TooShort(fresh, seen) == Archived + Len(seen) < EmaPeriod

Basket == [s \in Symbols |-> Scale \div Len(Pool)]

NothingRead ==
  /\ cursor = 0 /\ visible = <<>> /\ emaOver = <<>> /\ reading = "level"
  /\ exitDays = {} /\ decisions = <<>> /\ halted = FALSE

DominanceInit == Init /\ NothingRead /\ availableAt \in Availabilities

DominanceOpen ==
  /\ ~halted /\ \E prices \in OpenPrices : Open(prices)
  /\ UNCHANGED <<availableAt, cursor, visible, emaOver, reading, exitDays, decisions, halted>>

\* decide: read what became available, recompute the EMA if anything did,
\* then act on the side and on BTC's range.
DominanceClose ==
  \E prices \in ClosePrices, side \in Sides, inRange \in BOOLEAN :
    LET fresh == Readable(day)
        seen == ReadAll(visible, fresh)
        exit == ExitDue(side)
        entry == EntryDue(side, inRange)
    IN /\ phase = "close" /\ ~halted
       /\ day > 0 /\ fresh = <<>> => side = reading
       /\ cursor' = cursor + Len(fresh) /\ visible' = seen
       /\ emaOver' = IF fresh = <<>> THEN emaOver ELSE seen
       /\ reading' = side
       /\ UNCHANGED availableAt
       /\ halted' = TooShort(fresh, seen)
       /\ IF halted'
          THEN UNCHANGED <<vars, exitDays, decisions>>
          ELSE /\ Close(prices, CASE exit -> [s \in Symbols |-> 0]
                                  [] entry -> Basket
                                  [] OTHER -> NoTarget)
               /\ exitDays' = exitDays \cup (IF exit THEN {DecisionAt(day)} ELSE {})
               /\ decisions' = IF exit \/ entry
                               THEN Append(decisions, IF exit THEN "exit" ELSE "entry")
                               ELSE decisions

DominanceNext == DominanceOpen \/ DominanceClose

DominanceSpec == DominanceInit /\ [][DominanceNext]_dominanceVars

\* ENGINE_ERROR liquidation_below_minimum.
DominanceFailed ==
  \E i \in 1..Len(snapshots) :
    snapshots[i].ts \in exitDays /\ \E s \in Symbols : snapshots[i].quantities[s] > 0

-----------------------------------------------------------------------------
DominanceTypeOK ==
  /\ TypeOK /\ cursor \in 0..Len(PointDays) /\ Len(visible) = cursor
  /\ reading \in Sides /\ exitDays \subseteq 1..(LastDay + 1) /\ halted \in BOOLEAN

\* After a decision the points it used, and the EMA's, are those available by
\* its time, all of them, in the order of their dates: nothing is read early,
\* and an old point archived late hides no newer one.
ReadsWhatIsAvailable ==
  LET decided == DecisionAt(Len(snapshots) - 1)
  IN snapshots # <<>> /\ ~halted =>
       /\ Range(visible) = {i \in Points : availableAt[i] <= decided}
       /\ \A k \in 1..Len(visible) - 1 : visible[k] < visible[k + 1]
       /\ emaOver = visible

\* A run that succeeds never exits twice in a row, and its first decision is
\* an entry: an exit leaves nothing to sell.
ExitsFollowEntries ==
  ~DominanceFailed =>
    \A i \in 1..Len(decisions) :
      decisions[i] = "exit" => i > 1 /\ decisions[i - 1] = "entry"

\* A history too short for the EMA stops the run at its first close or never:
\* a run does not trade before it finds out.
HaltsBeforeTrading == halted => book = EmptyPortfolio /\ snapshots = <<>>
=============================================================================
