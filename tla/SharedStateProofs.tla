------------------------- MODULE SharedStateProofs -------------------------
(***************************************************************************)
(* Theorems about what the provider's threads share: the slots, the pace   *)
(* and the deadlines of RotationService, for any number of requests,       *)
(* streams, workers and slots; and the cache directory of OhlcvStore, for  *)
(* any number of threads, keys and files and any limit.                    *)
(*                                                                         *)
(* The slots are counted by the legs that hold them, so a leg that is      *)
(* reset or cancelled must not hold one: Started says that no leg exists   *)
(* before its job, Ended that none is under way after it unless the fetch  *)
(* deadline is over.  The pace is kept by the lock: the leg under it waits *)
(* out exactly what remains of the pace.                                   *)
(*                                                                         *)
(* A thread evicts from what it listed, not from what is there, and others *)
(* add files meanwhile.  The limit holds all the same because the last     *)
(* thread to list has seen every file: whoever added one after it has      *)
(* still to list.  So either somebody is before its listing, or some       *)
(* thread that still evicts has listed everything, or the limit holds.     *)
(***************************************************************************)
EXTENDS RotationService, OhlcvStore, FiniteSetTheorems, TLAPS

AllOk(r) == \A s \in Streams : leg[r][s] = "ok"

\* Which jobs and legs there are before, during and after a request.
Started(r) ==
  /\ phase[r] = "waiting" => job[r] = "none"
  /\ job[r] = "queued" => phase[r] = "serving"
  /\ job[r] \in {"none", "queued", "cancelled"} => \A s \in Streams : leg[r][s] = "none"
Ended(r) ==
  job[r] \in {"computing", "ended"} => fetchLeft[r] = 0 \/ \A s \in Streams : leg[r][s] \in Finished

\* A job that fetches is waited for, or its deadlines are over.
Dated(r) ==
  /\ fetchLeft[r] <= left[r]
  /\ job[r] = "fetching" => phase[r] = "serving" \/ left[r] = 0

\* What a success rests on, from the collection of the streams to the answer.
Whole(r) ==
  /\ job[r] = "computing" => AllOk(r)
  /\ result[r] = "success" => job[r] = "ended" /\ AllOk(r)
  /\ answer[r] = "success" => result[r] = "success"

Orderly == \A r \in Requests : Started(r) /\ Ended(r) /\ Dated(r) /\ Whole(r)

\* At most one leg waits under the lock, for exactly what remains of the pace.
Paced(r, s) == leg[r][s] = "paced"
Locked ==
  /\ \A r \in Requests, s \in Streams : Paced(r, s) => rateLock = Held /\ delay[r][s] = nextIn
  /\ \A r, q \in Requests, s, t \in Streams : Paced(r, s) /\ Paced(q, t) => r = q /\ s = t
  /\ grantAge + nextIn >= Pace

IInv == SlotsAccountedFor /\ Orderly /\ Locked

-----------------------------------------------------------------------------
(* Counting the legs that hold a slot.                                     *)

LEMMA Pairs == IsFiniteSet(Requests \X Streams)
  BY FS_Product, ServiceAssumption DEF ServiceAssumption

LEMMA HoldersFinite == IsFiniteSet(Holders) /\ Cardinality(Holders) \in Nat
<1>1. Holders \in SUBSET (Requests \X Streams)
  BY DEF Holders
<1> QED
  BY <1>1, Pairs, FS_Subset, FS_CardinalityType

\* One leg goes to another state: the count follows that leg.
LEMMA OneLegMoves ==
  ASSUME ServiceTypeOK, NEW r \in Requests, NEW s \in Streams, NEW state \in LegStates,
         Becomes(r, s, state)
  PROVE  /\ leg' \in [Requests -> [Streams -> LegStates]]
         /\ leg[r][s] \in Holding /\ state \in Holding => Holders' = Holders
         /\ leg[r][s] \notin Holding /\ state \notin Holding => Holders' = Holders
         /\ leg[r][s] \notin Holding /\ state \in Holding =>
              Cardinality(Holders') = Cardinality(Holders) + 1
         /\ leg[r][s] \in Holding /\ state \notin Holding =>
              Cardinality(Holders') = Cardinality(Holders) - 1
<1>1. leg' \in [Requests -> [Streams -> LegStates]]
  BY DEF ServiceTypeOK, Becomes
<1>2. \A q \in Requests, t \in Streams :
        leg'[q][t] = IF q = r /\ t = s THEN state ELSE leg[q][t]
  BY DEF ServiceTypeOK, Becomes
<1>3. Holders' = IF state \in Holding THEN Holders \cup {<<r, s>>} ELSE Holders \ {<<r, s>>}
  BY <1>2 DEF Holders
<1>4. <<r, s>> \in Holders <=> leg[r][s] \in Holding
  BY DEF Holders
<1>5. /\ Cardinality(Holders \cup {<<r, s>>}) =
           IF <<r, s>> \in Holders THEN Cardinality(Holders) ELSE Cardinality(Holders) + 1
      /\ Cardinality(Holders \ {<<r, s>>}) =
           IF <<r, s>> \in Holders THEN Cardinality(Holders) - 1 ELSE Cardinality(Holders)
  BY HoldersFinite, FS_AddElement, FS_RemoveElement
<1>6. leg[r][s] \in Holding /\ state \in Holding => Holders' = Holders
  BY <1>3, <1>4
<1>7. leg[r][s] \notin Holding /\ state \notin Holding => Holders' = Holders
  BY <1>3, <1>4
<1> QED
  BY <1>1, <1>3, <1>4, <1>5, <1>6, <1>7

\* The slots follow the leg.
LEMMA SlotsFollow ==
  ASSUME ServiceTypeOK, NEW r \in Requests, NEW s \in Streams, NEW state \in LegStates,
         Becomes(r, s, state), slotsFree \in Nat, slotsFree + Cardinality(Holders) = Slots,
         slotsFree' \in Nat,
         slotsFree' = slotsFree + (IF leg[r][s] \in Holding THEN 1 ELSE 0)
                                - (IF state \in Holding THEN 1 ELSE 0)
  PROVE  /\ leg' \in [Requests -> [Streams -> LegStates]]
         /\ slotsFree' \in Nat /\ slotsFree' + Cardinality(Holders') = Slots
<1>1. Cardinality(Holders) \in Nat
  BY HoldersFinite
<1>2. /\ leg' \in [Requests -> [Streams -> LegStates]]
      /\ (leg[r][s] \in Holding <=> state \in Holding) => Cardinality(Holders') = Cardinality(Holders)
      /\ leg[r][s] \notin Holding /\ state \in Holding =>
           Cardinality(Holders') = Cardinality(Holders) + 1
      /\ leg[r][s] \in Holding /\ state \notin Holding =>
           Cardinality(Holders') = Cardinality(Holders) - 1
  BY OneLegMoves
<1> QED
  BY <1>1, <1>2

-----------------------------------------------------------------------------
LEMMA Starts == Init => IInv
<1> SUFFICES ASSUME Init PROVE IInv
  OBVIOUS
<1>1. Holders = {}
  BY DEF Init, Holders, Holding
<1>2. Cardinality(Holders) = 0
  BY <1>1, FS_EmptySet
<1>3. SlotsAccountedFor
  BY <1>2, ServiceAssumption
  DEF Init, SlotsAccountedFor, ServiceTypeOK, LegStates, Verdicts, ServiceAssumption
<1>4. Orderly
  BY ServiceAssumption
  DEF Init, Orderly, Started, Ended, Dated, Whole, AllOk, ServiceAssumption
<1>5. Locked
  BY ServiceAssumption DEF Init, Locked, Paced, ServiceAssumption
<1> QED
  BY <1>3, <1>4, <1>5 DEF IInv

-----------------------------------------------------------------------------
(* One lemma per step: the slots, the order of jobs and legs, and the lock. *)

\* A request is taken up: it has no job and no legs yet.
LEMMA ServeKeeps ==
  ASSUME IInv, NEW r \in Requests, Serve(r)
  PROVE  IInv'
<1> USE DEF IInv
<1>1. SlotsAccountedFor'
  <2>1. Holders' = Holders
    BY DEF Serve, Holders
  <2> QED
    BY <2>1, ServiceAssumption
    DEF Serve, paceVars, SlotsAccountedFor, ServiceTypeOK, Verdicts, ServiceAssumption
<1>2. Orderly'
  BY ServiceAssumption DEF Serve, ServiceAssumption, jobVars, SlotsAccountedFor, ServiceTypeOK, Orderly, Started, Ended, Dated, Whole, AllOk, Finished
<1>3. Locked'
  BY DEF Serve, ServiceAssumption, paceVars, SlotsAccountedFor, ServiceTypeOK, Locked, Paced
<1> QED
  BY <1>1, <1>2, <1>3

\* The answer is what the job ended with.
LEMMA AnswerKeeps ==
  ASSUME IInv, NEW r \in Requests, Answer(r)
  PROVE  IInv'
<1> USE DEF IInv
<1>1. SlotsAccountedFor'
  <2>1. Holders' = Holders
    BY DEF Answer, Holders
  <2> QED
    BY <2>1, ServiceAssumption
    DEF Answer, paceVars, SlotsAccountedFor, ServiceTypeOK, Verdicts, ServiceAssumption
<1>2. Orderly'
  BY DEF Answer, jobVars, SlotsAccountedFor, ServiceTypeOK, Orderly, Started, Ended, Dated, Whole, AllOk, Finished
<1>3. Locked'
  BY DEF Answer, paceVars, SlotsAccountedFor, ServiceTypeOK, Locked, Paced
<1> QED
  BY <1>1, <1>2, <1>3

\* The deadline is over: the job may run on, its legs may not ask any more.
LEMMA AnswerTimeoutKeeps ==
  ASSUME IInv, NEW r \in Requests, AnswerTimeout(r)
  PROVE  IInv'
<1> USE DEF IInv
<1>1. SlotsAccountedFor'
  <2>1. Holders' = Holders
    BY DEF AnswerTimeout, Holders
  <2> QED
    BY <2>1, ServiceAssumption
    DEF AnswerTimeout, paceVars, SlotsAccountedFor, ServiceTypeOK, Verdicts, ServiceAssumption
<1>2. Orderly'
  BY DEF AnswerTimeout, WaitExpired, jobVars, SlotsAccountedFor, ServiceTypeOK, Orderly, Started, Ended, Dated, Whole, AllOk, Finished
<1>3. Locked'
  BY DEF AnswerTimeout, WaitExpired, paceVars, SlotsAccountedFor, ServiceTypeOK, Locked, Paced
<1> QED
  BY <1>1, <1>2, <1>3

\* The legs of a job that starts held nothing before.
LEMMA StartJobKeeps ==
  ASSUME IInv, NEW r \in Requests, StartJob(r)
  PROVE  IInv'
<1> USE DEF IInv
<1>1. SlotsAccountedFor'
  <2>1. Holders' = Holders
    BY DEF StartJob, Holders, Holding, Orderly, Started, SlotsAccountedFor, ServiceTypeOK
  <2> QED
    BY <2>1, ServiceAssumption
    DEF StartJob, FetchDeadline, Lesser, paceVars, SlotsAccountedFor, ServiceTypeOK, LegStates, ServiceAssumption
<1>2. Orderly'
  BY ServiceAssumption DEF StartJob, FetchDeadline, Lesser, ServiceAssumption, jobVars, SlotsAccountedFor, ServiceTypeOK, Orderly, Started, Ended, Dated, Whole, AllOk, Finished
<1>3. Locked'
  BY DEF StartJob, FetchDeadline, Lesser, ServiceAssumption, paceVars, SlotsAccountedFor, ServiceTypeOK, Locked, Paced
<1> QED
  BY <1>1, <1>2, <1>3

\* The legs cancelled at the deadline had not started.
LEMMA CollectKeeps ==
  ASSUME IInv, NEW r \in Requests, Collect(r)
  PROVE  IInv'
<1> USE DEF IInv
<1>1. SlotsAccountedFor'
  <2>1. Holders' = Holders
    BY DEF Collect, Holders, Holding, SlotsAccountedFor, ServiceTypeOK
  <2> QED
    BY <2>1
    DEF Collect, paceVars, SlotsAccountedFor, ServiceTypeOK, LegStates, Verdicts
<1>2. Orderly'
  BY DEF Collect, Incomplete, jobVars, SlotsAccountedFor, ServiceTypeOK, Orderly, Started, Ended, Dated, Whole, AllOk, Finished
<1>3. Locked'
  BY DEF Collect, Incomplete, paceVars, SlotsAccountedFor, ServiceTypeOK, Locked, Paced
<1> QED
  BY <1>1, <1>2, <1>3

\* A job ends with a result.
LEMMA ComputeKeeps ==
  ASSUME IInv, NEW r \in Requests, NEW verdict, Compute(r, verdict)
  PROVE  IInv'
<1> USE DEF IInv
<1>1. SlotsAccountedFor'
  <2>1. Holders' = Holders
    BY DEF Compute, Holders
  <2> QED
    BY <2>1, ServiceAssumption
    DEF Compute, paceVars, SlotsAccountedFor, ServiceTypeOK, Verdicts, ServiceAssumption
<1>2. Orderly'
  BY DEF Compute, jobVars, SlotsAccountedFor, ServiceTypeOK, Orderly, Started, Ended, Dated, Whole, AllOk, Finished
<1>3. Locked'
  BY DEF Compute, paceVars, SlotsAccountedFor, ServiceTypeOK, Locked, Paced
<1> QED
  BY <1>1, <1>2, <1>3

LEMMA Counted ==
  ASSUME IInv
  PROVE  /\ ServiceTypeOK /\ Orderly /\ Locked
         /\ slotsFree \in Nat /\ slotsFree + Cardinality(Holders) = Slots
  BY DEF IInv, SlotsAccountedFor, ServiceTypeOK

LEMMA LegAfter ==
  ASSUME ServiceTypeOK, NEW r \in Requests, NEW s \in Streams, NEW state, Becomes(r, s, state)
  PROVE  \A q \in Requests, t \in Streams :
           leg'[q][t] = IF q = r /\ t = s THEN state ELSE leg[q][t]
  BY DEF ServiceTypeOK, Becomes

\* A leg under way exists while its job fetches, or after the fetch deadline.
LEMMA LegOrderly ==
  ASSUME ServiceTypeOK, Orderly, NEW r \in Requests, NEW s \in Streams, NEW state,
         Becomes(r, s, state), UNCHANGED jobVars, leg[r][s] \notin {"none"} \cup Finished
  PROVE  Orderly'
<1>1. \A q \in Requests, t \in Streams :
        leg'[q][t] = IF q = r /\ t = s THEN state ELSE leg[q][t]
  BY LegAfter
<1> QED
  BY <1>1 DEF jobVars, Orderly, Started, Ended, Dated, Whole, AllOk, Finished

\* A leg that moves elsewhere leaves the one under the lock alone.
LEMMA LegLocked ==
  ASSUME ServiceTypeOK, Locked, NEW r \in Requests, NEW s \in Streams, NEW state,
         Becomes(r, s, state), state # "paced", UNCHANGED paceVars
  PROVE  Locked'
<1>1. \A q \in Requests, t \in Streams :
        leg'[q][t] = IF q = r /\ t = s THEN state ELSE leg[q][t]
  BY LegAfter
<1> QED
  BY <1>1 DEF paceVars, Locked, Paced

\* Slots and legs that are typed and counted again, beside what is unchanged.
LEMMA SlotsCounted ==
  ASSUME ServiceTypeOK, UNCHANGED jobVars,
         leg' \in [Requests -> [Streams -> LegStates]],
         slotsFree' \in Nat, slotsFree' + Cardinality(Holders)' = Slots,
         rateLock' \in {Free, Held}, nextIn' \in 0..Pace, grantAge' \in 0..Pace,
         delay' \in [Requests -> [Streams -> 0..Pace]]
  PROVE  SlotsAccountedFor'
<1>1. Cardinality(Holders)' \in Nat
  <2>1. Holders' \in SUBSET (Requests \X Streams)
    BY DEF Holders
  <2> QED
    BY <2>1, Pairs, FS_Subset, FS_CardinalityType
<1>2. slotsFree' \in 0..Slots
  BY <1>1, ServiceAssumption DEF ServiceAssumption
<1> QED
  BY <1>2 DEF jobVars, SlotsAccountedFor, ServiceTypeOK

\* A worker takes a stream.
LEMMA StartLegKeeps ==
  ASSUME IInv, NEW r \in Requests, NEW s \in Streams, StartLeg(r, s)
  PROVE  IInv'
<1>1. ServiceTypeOK /\ Orderly /\ Locked /\ slotsFree \in Nat /\ slotsFree + Cardinality(Holders) = Slots
  BY Counted
<1>2. ASSUME fetchLeft[r] = 0 PROVE IInv'
  <2>1. Becomes(r, s, "timeout") /\ UNCHANGED jobVars
    BY <1>2 DEF StartLeg
  <2>2. /\ leg' \in [Requests -> [Streams -> LegStates]]
        /\ slotsFree' \in Nat /\ slotsFree' + Cardinality(Holders') = Slots
    <3>1. /\ "timeout" \in LegStates /\ slotsFree' \in Nat
          /\ slotsFree' = slotsFree + (IF leg[r][s] \in Holding THEN 1 ELSE 0)
                                    - (IF "timeout" \in Holding THEN 1 ELSE 0)
      BY <1>1, <1>2 DEF StartLeg, Holding, LegStates
    <3> QED
      BY <1>1, <2>1, <3>1, SlotsFollow
  <2>3. UNCHANGED paceVars
    BY <1>2 DEF StartLeg, paceVars
  <2>4. SlotsAccountedFor'
    BY <1>1, <2>1, <2>2, <2>3, SlotsCounted DEF paceVars, ServiceTypeOK
  <2>5. Orderly'
    BY <1>1, <2>1, LegOrderly DEF StartLeg, Finished
  <2>6. Locked'
    BY <1>1, <2>1, <2>3, LegLocked
  <2> QED
    BY <2>4, <2>5, <2>6 DEF IInv
<1>3. ASSUME fetchLeft[r] # 0 PROVE IInv'
  <2>1. Becomes(r, s, "slot") /\ UNCHANGED jobVars
    BY <1>3 DEF StartLeg
  <2>2. /\ leg' \in [Requests -> [Streams -> LegStates]]
        /\ slotsFree' \in Nat /\ slotsFree' + Cardinality(Holders') = Slots
    <3>1. /\ "slot" \in LegStates /\ slotsFree' \in Nat
          /\ slotsFree' = slotsFree + (IF leg[r][s] \in Holding THEN 1 ELSE 0)
                                    - (IF "slot" \in Holding THEN 1 ELSE 0)
      BY <1>1, <1>3 DEF StartLeg, Holding, LegStates
    <3> QED
      BY <1>1, <2>1, <3>1, SlotsFollow
  <2>3. UNCHANGED paceVars
    BY <1>3 DEF StartLeg, paceVars
  <2>4. SlotsAccountedFor'
    BY <1>1, <2>1, <2>2, <2>3, SlotsCounted DEF paceVars, ServiceTypeOK
  <2>5. Orderly'
    BY <1>1, <2>1, LegOrderly DEF StartLeg, Finished
  <2>6. Locked'
    BY <1>1, <2>1, <2>3, LegLocked
  <2> QED
    BY <2>4, <2>5, <2>6 DEF IInv
<1> QED
  BY <1>2, <1>3 DEF StartLeg

\* A slot, or the deadline.
LEMMA TakeSlotKeeps ==
  ASSUME IInv, NEW r \in Requests, NEW s \in Streams, TakeSlot(r, s)
  PROVE  IInv'
<1>1. ServiceTypeOK /\ Orderly /\ Locked /\ slotsFree \in Nat /\ slotsFree + Cardinality(Holders) = Slots
  BY Counted
<1>2. ASSUME Becomes(r, s, "rate"), slotsFree > 0, slotsFree' = slotsFree - 1 PROVE IInv'
  <2>1. Becomes(r, s, "rate") /\ UNCHANGED jobVars
    BY <1>2 DEF TakeSlot, AfterSlotTimeout
  <2>2. /\ leg' \in [Requests -> [Streams -> LegStates]]
        /\ slotsFree' \in Nat /\ slotsFree' + Cardinality(Holders') = Slots
    <3>1. /\ "rate" \in LegStates /\ slotsFree' \in Nat
          /\ slotsFree' = slotsFree + (IF leg[r][s] \in Holding THEN 1 ELSE 0)
                                    - (IF "rate" \in Holding THEN 1 ELSE 0)
      BY <1>1, <1>2 DEF TakeSlot, AfterSlotTimeout, Holding, LegStates
    <3> QED
      BY <1>1, <2>1, <3>1, SlotsFollow
  <2>3. UNCHANGED paceVars
    BY <1>2 DEF TakeSlot, AfterSlotTimeout, paceVars
  <2>4. SlotsAccountedFor'
    BY <1>1, <2>1, <2>2, <2>3, SlotsCounted DEF paceVars, ServiceTypeOK
  <2>5. Orderly'
    BY <1>1, <2>1, LegOrderly DEF TakeSlot, AfterSlotTimeout, Finished
  <2>6. Locked'
    BY <1>1, <2>1, <2>3, LegLocked
  <2> QED
    BY <2>4, <2>5, <2>6 DEF IInv
<1>3. ASSUME Becomes(r, s, "timeout"), slotsFree' = slotsFree PROVE IInv'
  <2>1. Becomes(r, s, "timeout") /\ UNCHANGED jobVars
    BY <1>3 DEF TakeSlot, AfterSlotTimeout
  <2>2. /\ leg' \in [Requests -> [Streams -> LegStates]]
        /\ slotsFree' \in Nat /\ slotsFree' + Cardinality(Holders') = Slots
    <3>1. /\ "timeout" \in LegStates /\ slotsFree' \in Nat
          /\ slotsFree' = slotsFree + (IF leg[r][s] \in Holding THEN 1 ELSE 0)
                                    - (IF "timeout" \in Holding THEN 1 ELSE 0)
      BY <1>1, <1>3 DEF TakeSlot, AfterSlotTimeout, Holding, LegStates
    <3> QED
      BY <1>1, <2>1, <3>1, SlotsFollow
  <2>3. UNCHANGED paceVars
    BY <1>3 DEF TakeSlot, AfterSlotTimeout, paceVars
  <2>4. SlotsAccountedFor'
    BY <1>1, <2>1, <2>2, <2>3, SlotsCounted DEF paceVars, ServiceTypeOK
  <2>5. Orderly'
    BY <1>1, <2>1, LegOrderly DEF TakeSlot, AfterSlotTimeout, Finished
  <2>6. Locked'
    BY <1>1, <2>1, <2>3, LegLocked
  <2> QED
    BY <2>4, <2>5, <2>6 DEF IInv
<1> QED
  BY <1>2, <1>3 DEF TakeSlot, AfterSlotTimeout

\* The lock is taken for what remains of the pace, or the leg gives up.
LEMMA EnterRateKeeps ==
  ASSUME IInv, NEW r \in Requests, NEW s \in Streams, EnterRate(r, s)
  PROVE  IInv'
<1>1. ServiceTypeOK /\ Orderly /\ Locked /\ slotsFree \in Nat /\ slotsFree + Cardinality(Holders) = Slots
  BY Counted
<1>2. ASSUME nextIn >= fetchLeft[r] PROVE IInv'
  <2>1. Becomes(r, s, "timeout") /\ UNCHANGED jobVars
    BY <1>2 DEF EnterRate, LockFree
  <2>2. /\ leg' \in [Requests -> [Streams -> LegStates]]
        /\ slotsFree' \in Nat /\ slotsFree' + Cardinality(Holders') = Slots
    <3>1. leg[r][s] = "rate" /\ slotsFree' = slotsFree + 1
      BY <1>2 DEF EnterRate
    <3>2. leg[r][s] \in Holding /\ "timeout" \notin Holding /\ "timeout" \in LegStates
      BY <3>1 DEF Holding, LegStates
    <3>3. /\ leg' \in [Requests -> [Streams -> LegStates]]
          /\ Cardinality(Holders') = Cardinality(Holders) - 1
      BY <1>1, <2>1, <3>2, OneLegMoves
    <3> QED
      BY <1>1, <3>1, <3>3, HoldersFinite
  <2>3. UNCHANGED paceVars
    BY <1>2 DEF EnterRate, LockFree, paceVars
  <2>4. SlotsAccountedFor'
    BY <1>1, <2>1, <2>2, <2>3, SlotsCounted DEF paceVars, ServiceTypeOK
  <2>5. Orderly'
    BY <1>1, <2>1, LegOrderly DEF EnterRate, LockFree, Finished
  <2>6. Locked'
    BY <1>1, <2>1, <2>3, LegLocked
  <2> QED
    BY <2>4, <2>5, <2>6 DEF IInv
<1>3. ASSUME ~(nextIn >= fetchLeft[r]) PROVE IInv'
  <2>1. Becomes(r, s, "paced") /\ UNCHANGED jobVars
    BY <1>3 DEF EnterRate, LockFree
  <2>2. /\ leg' \in [Requests -> [Streams -> LegStates]]
        /\ slotsFree' \in Nat /\ slotsFree' + Cardinality(Holders') = Slots
    <3>1. /\ "paced" \in LegStates /\ slotsFree' \in Nat
          /\ slotsFree' = slotsFree + (IF leg[r][s] \in Holding THEN 1 ELSE 0)
                                    - (IF "paced" \in Holding THEN 1 ELSE 0)
      BY <1>1, <1>3 DEF EnterRate, LockFree, Holding, LegStates
    <3> QED
      BY <1>1, <2>1, <3>1, SlotsFollow
  <2>3. /\ rateLock = Free /\ rateLock' = Held /\ nextIn' = nextIn /\ grantAge' = grantAge
        /\ delay' = [delay EXCEPT ![r][s] = nextIn]
    BY <1>3 DEF EnterRate, LockFree, paceVars
  <2>4. SlotsAccountedFor'
    <3>1. rateLock' \in {Free, Held} /\ nextIn' \in 0..Pace /\ grantAge' \in 0..Pace
          /\ delay' \in [Requests -> [Streams -> 0..Pace]]
      BY <1>1, <2>3 DEF ServiceTypeOK
    <3> QED
      BY <1>1, <2>1, <2>2, <3>1, SlotsCounted
  <2>5. Orderly'
    BY <1>1, <2>1, LegOrderly DEF EnterRate, Finished
  <2>6. Locked'
    <3>1. \A q \in Requests, t \in Streams : ~Paced(q, t)
      BY <1>1, <2>3 DEF Locked, Free, Held
    <3>2. \A q \in Requests, t \in Streams : Paced(q, t)' => q = r /\ t = s
      BY <1>1, <2>1, <3>1, LegAfter DEF Paced
    <3>3. delay'[r][s] = nextIn
      BY <1>1, <2>3 DEF ServiceTypeOK
    <3> QED
      BY <1>1, <2>3, <3>2, <3>3 DEF Locked
  <2> QED
    BY <2>4, <2>5, <2>6 DEF IInv
<1> QED
  BY <1>2, <1>3 DEF EnterRate, LockFree

\* The leg under the lock goes on, and the pace starts again.
LEMMA GrantKeeps ==
  ASSUME IInv, NEW r \in Requests, NEW s \in Streams, Grant(r, s)
  PROVE  IInv'
<1>1. ServiceTypeOK /\ Orderly /\ Locked /\ slotsFree \in Nat /\ slotsFree + Cardinality(Holders) = Slots
  BY Counted
<1>2. Becomes(r, s, "go") /\ UNCHANGED jobVars
  BY DEF Grant
<1>3. /\ leg' \in [Requests -> [Streams -> LegStates]]
      /\ slotsFree' \in Nat /\ slotsFree' + Cardinality(Holders') = Slots
  <2>1. /\ "go" \in LegStates /\ slotsFree' \in Nat
        /\ slotsFree' = slotsFree + (IF leg[r][s] \in Holding THEN 1 ELSE 0)
                                  - (IF "go" \in Holding THEN 1 ELSE 0)
    BY <1>1 DEF Grant, Holding, LegStates
  <2> QED
    BY <1>1, <1>2, <2>1, SlotsFollow
<1>4. rateLock' = Free /\ nextIn' = Pace /\ grantAge' = 0 /\ delay' = delay
  BY DEF Grant
<1>5. SlotsAccountedFor'
  BY <1>1, <1>2, <1>3, <1>4, SlotsCounted, ServiceAssumption DEF ServiceTypeOK, ServiceAssumption
<1>6. Orderly'
  BY <1>1, <1>2, LegOrderly DEF Grant, Finished
<1>7. Locked'
  <2>1. \A q \in Requests, t \in Streams : ~Paced(q, t)'
    BY <1>1, <1>2, LegAfter DEF Grant, Locked, Paced
  <2> QED
    BY <1>4, <2>1, ServiceAssumption DEF Locked, ServiceAssumption
<1> QED
  BY <1>5, <1>6, <1>7 DEF IInv

\* The market is asked, if the deadline allows.
LEMMA GoKeeps ==
  ASSUME IInv, NEW r \in Requests, NEW s \in Streams, Go(r, s)
  PROVE  IInv'
<1>1. ServiceTypeOK /\ Orderly /\ Locked /\ slotsFree \in Nat /\ slotsFree + Cardinality(Holders) = Slots
  BY Counted
<1>2. ASSUME InTime(r) PROVE IInv'
  <2>1. Becomes(r, s, "fetch") /\ UNCHANGED jobVars
    BY <1>2 DEF Go, InTime
  <2>2. /\ leg' \in [Requests -> [Streams -> LegStates]]
        /\ slotsFree' \in Nat /\ slotsFree' + Cardinality(Holders') = Slots
    <3>1. /\ "fetch" \in LegStates /\ slotsFree' \in Nat
          /\ slotsFree' = slotsFree + (IF leg[r][s] \in Holding THEN 1 ELSE 0)
                                    - (IF "fetch" \in Holding THEN 1 ELSE 0)
      BY <1>1, <1>2 DEF Go, InTime, Holding, LegStates
    <3> QED
      BY <1>1, <2>1, <3>1, SlotsFollow
  <2>3. UNCHANGED paceVars
    BY <1>2 DEF Go, InTime, paceVars
  <2>4. SlotsAccountedFor'
    BY <1>1, <2>1, <2>2, <2>3, SlotsCounted DEF paceVars, ServiceTypeOK
  <2>5. Orderly'
    BY <1>1, <2>1, LegOrderly DEF Go, InTime, Finished
  <2>6. Locked'
    BY <1>1, <2>1, <2>3, LegLocked
  <2> QED
    BY <2>4, <2>5, <2>6 DEF IInv
<1>3. ASSUME ~InTime(r) PROVE IInv'
  <2>1. Becomes(r, s, "timeout") /\ UNCHANGED jobVars
    BY <1>3 DEF Go, InTime
  <2>2. /\ leg' \in [Requests -> [Streams -> LegStates]]
        /\ slotsFree' \in Nat /\ slotsFree' + Cardinality(Holders') = Slots
    <3>1. /\ "timeout" \in LegStates /\ slotsFree' \in Nat
          /\ slotsFree' = slotsFree + (IF leg[r][s] \in Holding THEN 1 ELSE 0)
                                    - (IF "timeout" \in Holding THEN 1 ELSE 0)
      BY <1>1, <1>3 DEF Go, InTime, Holding, LegStates
    <3> QED
      BY <1>1, <2>1, <3>1, SlotsFollow
  <2>3. UNCHANGED paceVars
    BY <1>3 DEF Go, InTime, paceVars
  <2>4. SlotsAccountedFor'
    BY <1>1, <2>1, <2>2, <2>3, SlotsCounted DEF paceVars, ServiceTypeOK
  <2>5. Orderly'
    BY <1>1, <2>1, LegOrderly DEF Go, InTime, Finished
  <2>6. Locked'
    BY <1>1, <2>1, <2>3, LegLocked
  <2> QED
    BY <2>4, <2>5, <2>6 DEF IInv
<1> QED
  BY <1>2, <1>3 DEF Go, InTime

\* The market answers, and the slot is given back.
LEMMA FetchedKeeps ==
  ASSUME IInv, NEW r \in Requests, NEW s \in Streams, Fetched(r, s)
  PROVE  IInv'
<1>1. ServiceTypeOK /\ Orderly /\ Locked /\ slotsFree \in Nat /\ slotsFree + Cardinality(Holders) = Slots
  BY Counted
<1>2. ASSUME Becomes(r, s, "ok") PROVE IInv'
  <2>1. Becomes(r, s, "ok") /\ UNCHANGED jobVars
    BY <1>2 DEF Fetched
  <2>2. /\ leg' \in [Requests -> [Streams -> LegStates]]
        /\ slotsFree' \in Nat /\ slotsFree' + Cardinality(Holders') = Slots
    <3>1. /\ "ok" \in LegStates /\ slotsFree' \in Nat
          /\ slotsFree' = slotsFree + (IF leg[r][s] \in Holding THEN 1 ELSE 0)
                                    - (IF "ok" \in Holding THEN 1 ELSE 0)
      BY <1>1, <1>2 DEF Fetched, Holding, LegStates
    <3> QED
      BY <1>1, <2>1, <3>1, SlotsFollow
  <2>3. UNCHANGED paceVars
    BY <1>2 DEF Fetched, paceVars
  <2>4. SlotsAccountedFor'
    BY <1>1, <2>1, <2>2, <2>3, SlotsCounted DEF paceVars, ServiceTypeOK
  <2>5. Orderly'
    BY <1>1, <2>1, LegOrderly DEF Fetched, Finished
  <2>6. Locked'
    BY <1>1, <2>1, <2>3, LegLocked
  <2> QED
    BY <2>4, <2>5, <2>6 DEF IInv
<1>3. ASSUME Becomes(r, s, "failed") PROVE IInv'
  <2>1. Becomes(r, s, "failed") /\ UNCHANGED jobVars
    BY <1>3 DEF Fetched
  <2>2. /\ leg' \in [Requests -> [Streams -> LegStates]]
        /\ slotsFree' \in Nat /\ slotsFree' + Cardinality(Holders') = Slots
    <3>1. /\ "failed" \in LegStates /\ slotsFree' \in Nat
          /\ slotsFree' = slotsFree + (IF leg[r][s] \in Holding THEN 1 ELSE 0)
                                    - (IF "failed" \in Holding THEN 1 ELSE 0)
      BY <1>1, <1>3 DEF Fetched, Holding, LegStates
    <3> QED
      BY <1>1, <2>1, <3>1, SlotsFollow
  <2>3. UNCHANGED paceVars
    BY <1>3 DEF Fetched, paceVars
  <2>4. SlotsAccountedFor'
    BY <1>1, <2>1, <2>2, <2>3, SlotsCounted DEF paceVars, ServiceTypeOK
  <2>5. Orderly'
    BY <1>1, <2>1, LegOrderly DEF Fetched, Finished
  <2>6. Locked'
    BY <1>1, <2>1, <2>3, LegLocked
  <2> QED
    BY <2>4, <2>5, <2>6 DEF IInv
<1> QED
  BY <1>2, <1>3 DEF Fetched

LEMMA Downwards ==
  ASSUME NEW b \in Nat, NEW n \in 0..b
  PROVE  Down(n) \in 0..b
  BY DEF Down

\* Time passes for everyone alike.
LEMMA TickKeeps ==
  ASSUME IInv, Tick
  PROVE  IInv'
<1> USE DEF IInv
<1>1. SlotsAccountedFor'
  <2>1. Holders' = Holders
    BY DEF Tick, Holders
  <2>2. /\ left' \in [Requests -> 0..RunBudget] /\ fetchLeft' \in [Requests -> 0..FetchBudget]
        /\ nextIn' \in 0..Pace /\ grantAge' \in 0..Pace
    <3>1. /\ \A q \in Requests : left[q] \in 0..RunBudget /\ fetchLeft[q] \in 0..FetchBudget
          /\ nextIn \in 0..Pace /\ grantAge \in 0..Pace
      BY DEF SlotsAccountedFor, ServiceTypeOK
    <3>2. /\ \A q \in Requests : Down(left[q]) \in 0..RunBudget /\ Down(fetchLeft[q]) \in 0..FetchBudget
          /\ Down(nextIn) \in 0..Pace
      BY <3>1, Downwards, ServiceAssumption DEF ServiceAssumption
    <3>3. Lesser(grantAge + 1, Pace) \in 0..Pace
      BY <3>1, ServiceAssumption DEF Lesser, ServiceAssumption
    <3> QED
      BY <3>2, <3>3 DEF Tick
  <2>3. delay' \in [Requests -> [Streams -> 0..Pace]]
    <3>1. \A q \in Requests, u \in Streams : delay[q][u] \in 0..Pace
      BY DEF SlotsAccountedFor, ServiceTypeOK
    <3>2. \A q \in Requests, u \in Streams : Down(delay[q][u]) \in 0..Pace
      BY <3>1, Downwards, ServiceAssumption DEF ServiceAssumption
    <3> QED
      BY <3>2 DEF Tick
  <2> QED
    BY <2>1, <2>2, <2>3 DEF Tick, SlotsAccountedFor, ServiceTypeOK
<1>2. Orderly'
  BY DEF Tick, Down, SlotsAccountedFor, ServiceTypeOK, Orderly, Started, Ended, Dated, Whole, AllOk
<1>3. Locked'
  BY ServiceAssumption
  DEF Tick, Down, Lesser, SlotsAccountedFor, ServiceTypeOK, Locked, Paced, ServiceAssumption
<1> QED
  BY <1>1, <1>2, <1>3

LEMMA StutterKeeps ==
  ASSUME IInv, UNCHANGED vars
  PROVE  IInv'
  BY DEF IInv, vars, jobVars, paceVars, SlotsAccountedFor, ServiceTypeOK, Holders, Orderly,
         Started, Ended, Dated, Whole, AllOk, Locked, Paced

LEMMA StepKeeps ==
  ASSUME IInv, [Next]_vars
  PROVE  IInv'
<1>1. ASSUME NEW r \in Requests, Serve(r) PROVE IInv'
  BY <1>1, ServeKeeps
<1>2. ASSUME NEW r \in Requests, Answer(r) PROVE IInv'
  BY <1>2, AnswerKeeps
<1>3. ASSUME NEW r \in Requests, AnswerTimeout(r) PROVE IInv'
  BY <1>3, AnswerTimeoutKeeps
<1>4. ASSUME NEW r \in Requests, StartJob(r) PROVE IInv'
  BY <1>4, StartJobKeeps
<1>5. ASSUME NEW r \in Requests, Collect(r) PROVE IInv'
  BY <1>5, CollectKeeps
<1>6. ASSUME NEW r \in Requests, NEW verdict \in {"success", "engine_error"}, Compute(r, verdict)
      PROVE  IInv'
  BY <1>6, ComputeKeeps
<1>7. ASSUME NEW r \in Requests, NEW s \in Streams, StartLeg(r, s) \/ TakeSlot(r, s) \/ EnterRate(r, s)
      PROVE  IInv'
  BY <1>7, StartLegKeeps, TakeSlotKeeps, EnterRateKeeps
<1>8. ASSUME NEW r \in Requests, NEW s \in Streams, Grant(r, s) \/ Go(r, s) \/ Fetched(r, s)
      PROVE  IInv'
  BY <1>8, GrantKeeps, GoKeeps, FetchedKeeps
<1> QED
  BY <1>1, <1>2, <1>3, <1>4, <1>5, <1>6, <1>7, <1>8, TickKeeps, StutterKeeps DEF Next

-----------------------------------------------------------------------------
\* The inductive invariant of the service holds in every state of every run.
THEOREM ServiceInvariance == Spec => []IInv
<1>1. IInv /\ [Next]_vars => IInv'
  BY StepKeeps
<1> QED
  BY Starts, <1>1, PTL DEF Spec

\* Every slot is free or held by a leg that will give it back, whatever gave up, was
\* cancelled or timed out (_FETCH_SLOTS, acquire and release in fetch_rotation).
THEOREM SlotsNeverLost == Spec => []SlotsAccountedFor
<1>1. IInv => SlotsAccountedFor
  BY DEF IInv
<1> QED
  BY ServiceInvariance, <1>1, PTL

\* An answer of success rests on every stream of the pool (execute, fetch_rotation).
THEOREM SuccessesAreWhole == Spec => []SuccessIsWhole
<1>1. IInv => SuccessIsWhole
  BY DEF IInv, Orderly, Whole, AllOk, SuccessIsWhole
<1> QED
  BY ServiceInvariance, <1>1, PTL

\* A leg is let through only when the pace has passed: the one under the lock waited for it.
LEMMA GrantsWait ==
  ASSUME IInv, Next, Granted
  PROVE  grantAge >= Pace
<1>1. PICK r \in Requests, s \in Streams : leg[r][s] = "paced" /\ leg'[r][s] = "go"
  BY DEF Granted
<1>2. delay[r][s] = nextIn /\ grantAge + nextIn >= Pace
  BY <1>1 DEF IInv, Locked, Paced
<1>3. delay[r][s] = 0
  <2>0. ServiceTypeOK
    BY Counted
  <2>1. \A q \in Requests, u \in Streams :
          \A state : Becomes(q, u, state) => q = r /\ u = s /\ state = "go"
    BY <1>1, <2>0, LegAfter
  <2>2. leg' # leg
    BY <1>1
  <2>3. \A q \in Requests : ~StartJob(q) /\ ~Collect(q)
    <3>1. ASSUME NEW q \in Requests, StartJob(q) PROVE leg'[r][s] \in {leg[r][s], "queued"}
      BY <2>0, <3>1 DEF StartJob, ServiceTypeOK
    <3>2. ASSUME NEW q \in Requests, Collect(q) PROVE leg'[r][s] \in {leg[r][s], "cancelled"}
      BY <2>0, <3>2 DEF Collect, ServiceTypeOK
    <3> QED
      BY <1>1, <3>1, <3>2
  <2>4. PICK q \in Requests, u \in Streams :
          StartLeg(q, u) \/ TakeSlot(q, u) \/ EnterRate(q, u) \/ Grant(q, u) \/ Go(q, u) \/ Fetched(q, u)
    BY <2>2, <2>3 DEF Next, Serve, Answer, AnswerTimeout, Compute, Tick
  <2>5. Grant(q, u)
    BY <2>1, <2>4 DEF StartLeg, TakeSlot, EnterRate, Go, Fetched
  <2>6. q = r /\ u = s
    BY <2>1, <2>5 DEF Grant
  <2> QED
    BY <2>5, <2>6 DEF Grant
<1> QED
  BY <1>2, <1>3, ServiceAssumption DEF IInv, SlotsAccountedFor, ServiceTypeOK, ServiceAssumption

\* A leg that asks the market has time left, so its job fetches and its caller waits.
LEMMA AskedWaits ==
  ASSUME IInv, Next, NEW r \in Requests, Asked(r)
  PROVE  phase[r] = "serving"
<1>1. PICK s \in Streams : leg[r][s] # "fetch" /\ leg'[r][s] = "fetch"
  BY DEF Asked
<1>2. ServiceTypeOK /\ Orderly
  BY Counted
<1>3. Go(r, s) /\ InTime(r)
  <2>1. \A q \in Requests, u \in Streams :
          \A state : Becomes(q, u, state) => q = r /\ u = s /\ state = "fetch"
    BY <1>1, <1>2, LegAfter
  <2>2. leg' # leg
    BY <1>1
  <2>3. \A q \in Requests : ~StartJob(q) /\ ~Collect(q)
    <3>1. ASSUME NEW q \in Requests, StartJob(q) PROVE leg'[r][s] \in {leg[r][s], "queued"}
      BY <1>2, <3>1 DEF StartJob, ServiceTypeOK
    <3>2. ASSUME NEW q \in Requests, Collect(q) PROVE leg'[r][s] \in {leg[r][s], "cancelled"}
      BY <1>2, <3>2 DEF Collect, ServiceTypeOK
    <3> QED
      BY <1>1, <3>1, <3>2
  <2>4. PICK q \in Requests, u \in Streams :
          StartLeg(q, u) \/ TakeSlot(q, u) \/ EnterRate(q, u) \/ Grant(q, u) \/ Go(q, u) \/ Fetched(q, u)
    BY <2>2, <2>3 DEF Next, Serve, Answer, AnswerTimeout, Compute, Tick
  <2>5. Go(q, u) /\ InTime(q)
    BY <2>1, <2>4 DEF StartLeg, TakeSlot, EnterRate, Grant, Go, Fetched
  <2>6. q = r /\ u = s
    BY <2>1, <2>5 DEF Go
  <2> QED
    BY <2>5, <2>6
<1>4. leg[r][s] = "go" /\ fetchLeft[r] > 0 /\ fetchLeft[r] \in Nat /\ left[r] \in Nat
  BY <1>2, <1>3, ServiceAssumption DEF Go, InTime, ServiceTypeOK, ServiceAssumption
<1>5. job[r] = "fetching"
  <2>1. job[r] \notin {"none", "queued", "cancelled"}
    BY <1>2, <1>4 DEF Orderly, Started
  <2>2. job[r] \notin {"computing", "ended"}
    BY <1>2, <1>4 DEF Orderly, Ended, Finished
  <2> QED
    BY <1>2, <2>1, <2>2 DEF ServiceTypeOK
<1> QED
  BY <1>2, <1>4, <1>5 DEF Orderly, Dated

\* The market is asked a pace apart and only for requests that are waited for
\* (_RATE_LOCK, _NEXT_FETCH and the deadlines of fetch_rotation).
THEOREM MarketAskedInTurn == Spec => MarketIsAskedInTurn
<1>1. IInv /\ [Next]_vars => [InTurn]_vars
  BY GrantsWait, AskedWaits DEF InTurn
<1> QED
  BY ServiceInvariance, <1>1, PTL DEF Spec, MarketIsAskedInTurn

-----------------------------------------------------------------------------
(***************************************************************************)
(* The cache directory.                                                    *)
(***************************************************************************)
HasListed(t) == at[t] \in {"sort", "evict"}
ToList(t) == at[t] \in {"write", "list"}
SeesAll(t) == HasListed(t) /\ Present \subseteq DOMAIN listed[t]
WithinLimit == Cardinality(Present) <= MaxFiles

\* Somebody still to list, somebody who listed all there is, or room.
Watched ==
  \/ owed
  \/ \E t \in Threads : ToList(t)
  \/ \E t \in Threads : SeesAll(t)
  \/ WithinLimit

Typed ==
  /\ StoreTypeOK
  /\ DOMAIN listed = Threads /\ DOMAIN last = Threads /\ owed \in BOOLEAN

StoreIInv == Typed /\ Watched

-----------------------------------------------------------------------------
LEMMA NamesFinite ==
  ASSUME StoreAssumption, NEW S \in SUBSET Keys
  PROVE  IsFiniteSet(S) /\ Cardinality(S) \in Nat
  BY FS_Subset, FS_CardinalityType DEF StoreAssumption

\* Fewer files are within the limit that more were within.
LEMMA FewerAreWithin ==
  ASSUME StoreAssumption, NEW S \in SUBSET Keys, NEW T \in SUBSET S, Cardinality(S) <= MaxFiles
  PROVE  Cardinality(T) <= MaxFiles
<1>1. Cardinality(T) <= Cardinality(S) /\ Cardinality(T) \in Nat /\ Cardinality(S) \in Nat
  BY NamesFinite, FS_Subset
<1> QED
  BY <1>1 DEF StoreAssumption

-----------------------------------------------------------------------------
(* Types.                                                                  *)

LEMMA StoreStarts == ASSUME StoreAssumption, StoreInit PROVE StoreIInv
<1>1. PICK f \in FilesBefore : files = [k \in DOMAIN f |-> File(0, "rows", f[k], 0)]
  BY DEF StoreInit
<1>2. Present = DOMAIN f
  BY <1>1 DEF Present
<1>3. \A k \in Present : files[k] \in StoredFile /\ files[k].mtime < clock
  BY <1>1, <1>2 DEF StoreInit, StoreAssumption, File, StoredFile
<1>4. Typed
  <2>1. (CHOOSE k \in Keys : TRUE) \in Keys
    BY DEF StoreAssumption
  <2>2. at \in [Threads -> Steps] /\ fd \in [Threads -> Nat] /\ key \in [Threads -> Keys]
    BY <2>1 DEF StoreInit, Steps
  <2>3. \A t \in Threads : DOMAIN listed[t] = {}
    BY DEF StoreInit, NoNames
  <2>4. DOMAIN listed = Threads /\ DOMAIN last = Threads /\ clock = 1 /\ fetches = 0 /\ owed = FALSE
    BY DEF StoreInit
  <2>5. Present \subseteq Keys /\ fetches \in 0..MaxFetches /\ clock \in Nat
    BY <1>2, <2>4 DEF StoreAssumption
  <2>6. \A t \in Threads : DOMAIN listed[t] \subseteq Keys
    BY <2>3
  <2> QED
    BY <1>3, <2>2, <2>4, <2>5, <2>6 DEF Typed, StoreTypeOK
<1>5. WithinLimit
  BY <1>2 DEF StoreAssumption, WithinLimit
<1> QED
  BY <1>4, <1>5 DEF StoreIInv, Watched

\* Files that are added or written keep the types.
LEMMA PutTyped ==
  ASSUME StoreTypeOK, NEW k \in Keys, NEW file \in StoredFile, file.mtime = clock,
         files' = Put(k, file), clock' = clock + 1
  PROVE  /\ Present' = Present \cup {k} /\ Present' \subseteq Keys
         /\ \A j \in Present' : files'[j] \in StoredFile /\ files'[j].mtime < clock'
<1>1. Present' = Present \cup {k}
  BY DEF Put, Present
<1>2. \A j \in Present' : files'[j] = IF j = k THEN file ELSE files[j]
  BY <1>1 DEF Put
<1>3. \A j \in Present' : files'[j] \in StoredFile
  BY <1>1, <1>2 DEF StoreTypeOK
<1>4. \A j \in Present : files[j].mtime \in Nat /\ files[j].mtime < clock
  BY DEF StoreTypeOK, StoredFile
<1>5. \A j \in Present' : files'[j].mtime < clock'
  BY <1>1, <1>2, <1>4 DEF StoreTypeOK
<1> QED
  BY <1>1, <1>3, <1>5 DEF StoreTypeOK

\* Fewer files keep them too.
LEMMA WithoutTyped ==
  ASSUME StoreTypeOK, NEW k, files' = Without(k), clock' = clock
  PROVE  /\ Present' = Present \ {k} /\ Present' \subseteq Keys
         /\ \A j \in Present' : files'[j] \in StoredFile /\ files'[j].mtime < clock'
<1>1. Present' = Present \ {k}
  BY DEF Without, Present
<1>2. \A j \in Present' : files'[j] = files[j]
  BY <1>1 DEF Without
<1> QED
  BY <1>1, <1>2 DEF StoreTypeOK

LEMMA StepTyped ==
  ASSUME StoreAssumption, Typed, StoreNext
  PROVE  Typed'
<1> USE DEF Typed
<1>1. ASSUME NEW t \in Threads, NEW k \in Keys, Exists(t, k) PROVE Typed'
  BY <1>1 DEF Exists, Goes, StoreTypeOK, Steps, Present, StoreAssumption
<1>2. ASSUME NEW t \in Threads, Stat(t) \/ Load(t) \/ Fetch(t) PROVE Typed'
  BY <1>2 DEF Stat, Load, Fetch, Goes, Return, StoreTypeOK, Steps, Present
<1>3. ASSUME NEW t \in Threads, UnlinkStale(t) PROVE Typed'
  BY <1>3, WithoutTyped DEF UnlinkStale, Goes, StoreTypeOK, Steps
<1>4. ASSUME NEW t \in Threads, OpenFile(t) PROVE Typed'
  <2> DEFINE id == IF key[t] \in Present THEN files[key[t]].id ELSE clock
  <2>1. key[t] \in Keys /\ id \in Nat
    BY DEF StoreTypeOK, StoredFile
  <2>2. File(id, "truncated", Source, clock) \in StoredFile
    BY <2>1 DEF File, StoredFile, Source, StoreTypeOK
  <2>3. files' = Put(key[t], File(id, "truncated", Source, clock)) /\ clock' = clock + 1
    BY <1>4 DEF OpenFile
  <2>4. /\ Present' \subseteq Keys
        /\ \A j \in Present' : files'[j] \in StoredFile /\ files'[j].mtime < clock'
    BY <2>1, <2>2, <2>3, PutTyped DEF File
  <2> QED
    BY <1>4, <2>1, <2>4 DEF OpenFile, Goes, StoreTypeOK, Steps
<1>5. ASSUME NEW t \in Threads, WriteFile(t) PROVE Typed'
  <2>1. File(fd[t], "rows", Source, clock) \in StoredFile /\ key[t] \in Keys
    BY DEF File, StoredFile, Source, StoreTypeOK
  <2>2. CASE files' = Put(key[t], File(fd[t], "rows", Source, clock)) /\ clock' = clock + 1
    <3>1. /\ Present' \subseteq Keys
          /\ \A j \in Present' : files'[j] \in StoredFile /\ files'[j].mtime < clock'
      BY <2>1, <2>2, PutTyped DEF File
    <3> QED
      BY <1>5, <2>2, <3>1 DEF WriteFile, Goes, Return, StoreTypeOK, Steps
  <2>3. CASE files' = files /\ clock' \in {clock, clock + 1}
    <3>1. \A k \in Present : files[k].mtime \in Nat
      BY DEF StoreTypeOK, StoredFile
    <3>2. Present' = Present /\ clock' \in Nat
      BY <2>3 DEF Present, StoreTypeOK
    <3>3. \A k \in Present' : files'[k] \in StoredFile /\ files'[k].mtime < clock'
      BY <2>3, <3>1, <3>2 DEF StoreTypeOK
    <3> QED
      BY <1>5, <3>2, <3>3 DEF WriteFile, Goes, Return, StoreTypeOK, Steps
  <2> QED
    BY <1>5, <2>2, <2>3 DEF WriteFile
<1>6. ASSUME NEW t \in Threads, List(t) \/ Sort(t) PROVE Typed'
  <2>1. DOMAIN NoNames = {}
    BY DEF NoNames
  <2>2. CASE List(t)
    BY <2>2 DEF List, Goes, StoreTypeOK, Steps, Present
  <2>3. CASE Sort(t)
    <3>1. at' \in [Threads -> Steps] /\ DOMAIN last' = Threads /\ owed' \in BOOLEAN
      BY <2>3 DEF Sort, Goes, Return, StoreTypeOK, Steps
    <3>2. DOMAIN listed' = Threads /\ \A u \in Threads : DOMAIN listed'[u] \subseteq DOMAIN listed[u]
      BY <2>1, <2>3 DEF Sort
    <3>3. UNCHANGED <<files, clock, key, fd, fetches>>
      BY <2>3 DEF Sort
    <3> QED
      BY <3>1, <3>2, <3>3 DEF StoreTypeOK, Present
  <2> QED
    BY <1>6, <2>2, <2>3
<1>7. ASSUME NEW t \in Threads, Evict(t) PROVE Typed'
  <2>1. ASSUME NEW k, EvictOldest(t, k), UNCHANGED <<clock, key, fd, fetches, owed>> PROVE Typed'
    BY <2>1, WithoutTyped DEF EvictOldest, StoreTypeOK
  <2>2. ASSUME Return(t, Rows("fetched", Source, "rows")), listed' = [listed EXCEPT ![t] = NoNames],
               UNCHANGED <<files, clock, key, fd, fetches, owed>>
        PROVE  Typed'
    BY <2>2 DEF Return, StoreTypeOK, Steps, Present, NoNames
  <2> QED
    BY <1>7, <2>1, <2>2 DEF Evict
<1>8. ASSUME NEW k \in Keys, Expire(k) PROVE Typed'
  <2>1. Present' = Present
    BY <1>8 DEF Expire, Present
  <2>2. \A j \in Present : files'[j] = IF j = k THEN [files[k] EXCEPT !.stale = TRUE] ELSE files[j]
    BY <1>8 DEF Expire, Present
  <2>3. [files[k] EXCEPT !.stale = TRUE] \in StoredFile /\ files[k].mtime < clock
        /\ [files[k] EXCEPT !.stale = TRUE].mtime = files[k].mtime
    BY <1>8 DEF Expire, StoreTypeOK, StoredFile
  <2> QED
    BY <1>8, <2>1, <2>2, <2>3 DEF Expire, StoreTypeOK
<1>9. ASSUME Restart PROVE Typed'
  BY <1>9 DEF Restart, StoreTypeOK, Steps, Present, NoNames
<1> QED
  BY <1>1, <1>2, <1>3, <1>4, <1>5, <1>6, <1>7, <1>8, <1>9 DEF StoreNext
-----------------------------------------------------------------------------
(* Somebody watches the limit.                                             *)

\* A step that adds no file, lists none and takes nobody from the writing
\* leaves everything to those who watched before.
LEMMA StillWatched ==
  ASSUME StoreAssumption, Typed, Watched, Present' \subseteq Present,
         owed => owed',
         \A t \in Threads : ToList(t) => ToList(t)',
         \A t \in Threads : HasListed(t) => HasListed(t)' /\ DOMAIN listed[t] \subseteq DOMAIN listed'[t]
  PROVE  Watched'
<1>1. WithinLimit => WithinLimit'
  BY FewerAreWithin DEF WithinLimit, Typed, StoreTypeOK
<1>2. \A t \in Threads : SeesAll(t) => SeesAll(t)'
  BY DEF SeesAll
<1> QED
  BY <1>1, <1>2 DEF Watched

LEMMA StepWatched ==
  ASSUME StoreAssumption, StoreIInv, StoreNext
  PROVE  Watched'
<1> USE DEF StoreIInv
<1>0. StoreTypeOK /\ DOMAIN listed = Threads
  BY DEF Typed
<1>1. ASSUME NEW t \in Threads, NEW k \in Keys, Exists(t, k) PROVE Watched'
  BY <1>0, <1>1, StillWatched DEF Exists, Goes, StoreTypeOK, Present, ToList, HasListed
<1>2. ASSUME NEW t \in Threads, Stat(t) \/ Load(t) \/ Fetch(t) PROVE Watched'
  BY <1>0, <1>2, StillWatched DEF Stat, Load, Fetch, Goes, Return, StoreTypeOK, Present, ToList, HasListed
<1>3. ASSUME NEW t \in Threads, UnlinkStale(t) PROVE Watched'
  BY <1>0, <1>3, StillWatched, WithoutTyped DEF UnlinkStale, Goes, StoreTypeOK, ToList, HasListed
<1>4. ASSUME NEW t \in Threads, OpenFile(t) PROVE Watched'
  <2>1. ToList(t)'
    BY <1>0, <1>4 DEF OpenFile, Goes, StoreTypeOK, ToList
  <2> QED
    BY <2>1 DEF Watched
<1>5. ASSUME NEW t \in Threads, WriteFile(t) PROVE Watched'
  <2>1. owed' \/ ToList(t)'
    BY <1>0, <1>5 DEF WriteFile, Goes, StoreTypeOK, ToList
  <2> QED
    BY <2>1 DEF Watched
<1>6. ASSUME NEW t \in Threads, List(t) PROVE Watched'
  <2>1. SeesAll(t)'
    BY <1>0, <1>6 DEF List, Goes, StoreTypeOK, SeesAll, HasListed, Present
  <2> QED
    BY <2>1 DEF Watched
<1>7. ASSUME NEW t \in Threads, Sort(t) PROVE Watched'
  <2>1. CASE owed'
    BY <2>1 DEF Watched
  <2>2. CASE ~owed'
    <3>1. /\ listed' = [listed EXCEPT ![t] = [k \in DOMAIN @ |-> files[k].mtime]]
          /\ Goes(t, "evict") /\ UNCHANGED <<files, owed>>
      BY <1>7, <2>2 DEF Sort
    <3>2. \A u \in Threads : DOMAIN listed'[u] = DOMAIN listed[u]
      BY <1>0, <3>1
    <3> QED
      BY <1>0, <1>7, <3>1, <3>2, StillWatched DEF Goes, Sort, StoreTypeOK, Present, ToList, HasListed
  <2> QED
    BY <2>1, <2>2
<1>8. ASSUME NEW t \in Threads, NEW k, at[t] = "evict", EvictOldest(t, k), UNCHANGED owed PROVE Watched'
  <2>1. Present' = Present \ {k}
    BY <1>8 DEF EvictOldest, Without, Present
  <2>2. \A u \in Threads : DOMAIN listed'[u] = IF u = t THEN DOMAIN listed[t] \ {k} ELSE DOMAIN listed[u]
    BY <1>0, <1>8 DEF EvictOldest
  <2>3. \A u \in Threads : (ToList(u) => ToList(u)') /\ (SeesAll(u) => SeesAll(u)')
    BY <1>8, <2>1, <2>2 DEF EvictOldest, ToList, HasListed, SeesAll
  <2>4. WithinLimit => WithinLimit'
    BY <1>0, <2>1, FewerAreWithin DEF WithinLimit, StoreTypeOK
  <2> QED
    BY <1>8, <2>3, <2>4 DEF Watched
<1>9. ASSUME NEW t \in Threads, at[t] = "evict", ~OverLimit(Cardinality(DOMAIN listed[t])),
             Return(t, Rows("fetched", Source, "rows")), listed' = [listed EXCEPT ![t] = NoNames],
             UNCHANGED <<files, owed>>
      PROVE  Watched'
  <2>1. Present' = Present
    BY <1>9 DEF Present
  <2>2. SeesAll(t) => WithinLimit
    <3>1. DOMAIN listed[t] \subseteq Keys
      BY <1>0 DEF StoreTypeOK
    <3>2. Cardinality(DOMAIN listed[t]) <= MaxFiles
      BY <1>9, <3>1, NamesFinite DEF OverLimit, StoreAssumption
    <3> QED
      BY <3>1, <3>2, FewerAreWithin DEF SeesAll, WithinLimit
  <2>3. \A u \in Threads : ToList(u) => ToList(u)'
    BY <1>0, <1>9 DEF Return, StoreTypeOK, ToList
  <2>4. \A u \in Threads \ {t} : SeesAll(u) => SeesAll(u)'
    BY <1>0, <1>9, <2>1 DEF Return, StoreTypeOK, HasListed, SeesAll
  <2> QED
    BY <1>9, <2>1, <2>2, <2>3, <2>4 DEF Watched, WithinLimit
<1>10. ASSUME NEW k \in Keys, Expire(k) PROVE Watched'
  BY <1>0, <1>10, StillWatched DEF Expire, Present, ToList, HasListed
<1>11. ASSUME Restart PROVE Watched'
  <2>1. CASE owed'
    BY <2>1 DEF Watched
  <2>2. CASE ~owed'
    <3>1. ~owed /\ \A t \in Threads : at[t] \notin Writing
      BY <1>11, <2>2 DEF Restart
    <3>2. WithinLimit
      BY <3>1 DEF Watched, ToList, SeesAll, HasListed, Writing
    <3> QED
      BY <1>11, <3>2 DEF Restart, Watched, WithinLimit, Present
  <2> QED
    BY <2>1, <2>2
<1>12. ASSUME NEW t \in Threads, Evict(t) PROVE Watched'
  BY <1>8, <1>9, <1>12 DEF Evict
<1> QED
  BY <1>1, <1>2, <1>3, <1>4, <1>5, <1>6, <1>7, <1>10, <1>11, <1>12 DEF StoreNext

-----------------------------------------------------------------------------
(* The theorems.                                                           *)

LEMMA StoreStutters == ASSUME StoreIInv, UNCHANGED storeVars PROVE StoreIInv'
  BY DEF StoreIInv, Typed, StoreTypeOK, storeVars, Present, Watched, ToList, SeesAll, HasListed, WithinLimit

\* The types hold, and somebody watches the limit of the directory
\* (_enforce_cache_lru_limit).
THEOREM StoreInvariance == ASSUME StoreAssumption PROVE StoreSpec => []StoreIInv
<1>1. StoreIInv /\ [StoreNext]_storeVars => StoreIInv'
  BY StepTyped, StepWatched, StoreStutters DEF StoreIInv
<1> QED
  BY <1>1, StoreStarts, PTL DEF StoreSpec

\* With no write under way and no eviction skipped, the directory is within
\* MAX_CACHE_FILES, however many threads evicted under each other.
THEOREM LimitHoldsAtRest == ASSUME StoreAssumption PROVE StoreSpec => []BoundedAtRest
<1>1. StoreIInv => BoundedAtRest
  BY DEF StoreIInv, Typed, BoundedAtRest, Watched, ToList, SeesAll, HasListed, Writing, WithinLimit
<1> QED
  BY <1>1, StoreInvariance, PTL

ServesWhole == DOMAIN last = Threads /\ HitsAreWhole

\* A cache hit is a whole file of the configured source (_read_cache and the
\* source rules of _fetch_ohlcv_raw), whatever was written when it was read.
THEOREM HitsStayWhole == ASSUME StoreAssumption PROVE StoreSpec => []HitsAreWhole
<1>1. StoreInit => ServesWhole
  BY DEF StoreInit, ServesWhole, HitsAreWhole, Nothing
<1>2. ASSUME ServesWhole, NEW t \in Threads, NEW value, Return(t, value),
             value.kind = "hit" => value.body = "rows" /\ (CentralConfigured => value.source = "central")
      PROVE  ServesWhole'
  BY <1>2 DEF ServesWhole, HitsAreWhole, Return
<1>3. ASSUME NEW error, NEW source PROVE Raises(error).kind # "hit" /\ Rows("fetched", source, "rows").kind # "hit"
  BY DEF Raises, Rows
<1>4. ASSUME ServesWhole, NEW t \in Threads, Load(t) PROVE ServesWhole'
  <2> DEFINE found == Rows("hit", files[key[t]].source, files[key[t]].body)
  <2>1. CASE Return(t, found) /\ Parses(files[key[t]]) /\ Trusted(files[key[t]])
    <3>1. found.body = "rows" /\ (CentralConfigured => found.source = "central")
      BY <2>1 DEF Rows, Parses, Trusted
    <3> QED
      BY <1>2, <1>4, <2>1, <3>1
  <2>2. CASE last' = last
    BY <1>4, <2>2 DEF ServesWhole, HitsAreWhole
  <2> QED
    BY <1>4, <2>1, <2>2 DEF Load, Goes
<1>5. ASSUME ServesWhole, StoreNext PROVE ServesWhole'
  <2>1. ASSUME NEW t \in Threads, NEW value, Return(t, value), value.kind # "hit" PROVE ServesWhole'
    BY <1>2, <1>5, <2>1
  <2>2. ASSUME last' = last PROVE ServesWhole'
    BY <1>5, <2>2 DEF ServesWhole, HitsAreWhole
  <2>3. ASSUME NEW t \in Threads, Stat(t) \/ Fetch(t) \/ WriteFile(t) \/ Sort(t) \/ Evict(t) PROVE ServesWhole'
    BY <1>3, <2>1, <2>2, <2>3 DEF Stat, Fetch, WriteFile, Sort, Evict, EvictOldest, Goes
  <2>4. ASSUME Restart PROVE ServesWhole'
    BY <2>4 DEF Restart, ServesWhole, HitsAreWhole, Nothing
  <2> QED
    BY <1>4, <1>5, <2>2, <2>3, <2>4 DEF StoreNext, Exists, UnlinkStale, OpenFile, List, Expire, Goes
<1>6. ASSUME ServesWhole, UNCHANGED storeVars PROVE ServesWhole'
  BY <1>6 DEF ServesWhole, HitsAreWhole, storeVars
<1>7. ServesWhole /\ [StoreNext]_storeVars => ServesWhole'
  BY <1>5, <1>6
<1>8. ServesWhole => HitsAreWhole
  BY DEF ServesWhole
<1> QED
  BY <1>1, <1>7, <1>8, PTL DEF StoreSpec

\* The cache serves whole files of the configured source and stays within its limit
\* (_read_cache, _write_cache and _enforce_cache_lru_limit).
THEOREM CacheIsWholeAndBounded == ASSUME StoreAssumption PROVE StoreSpec => []CacheServesWholeFiles
<1>1. HitsAreWhole /\ BoundedAtRest => CacheServesWholeFiles
  BY DEF CacheServesWholeFiles
<1> QED
  BY <1>1, HitsStayWhole, LimitHoldsAtRest, PTL
=============================================================================
