-------------------------- MODULE RotationService --------------------------
(***************************************************************************)
(* How the provider serves portfolio requests: the limiter of run_backtest *)
(* (backtesting-py/cutie_backtesting_provider.py), rotation_response and   *)
(* its executor (portfolio_rotation_http.py), and fetch_rotation, whose    *)
(* legs share fetch slots and a pace with every other run of the process   *)
(* (portfolio_rotation.py).                                                *)
(*                                                                         *)
(* Threads: the one serving a request, the one executing it, and one for   *)
(* each leg being fetched.  Time is counted down: left, fetchLeft and      *)
(* nextIn are what remains of a deadline or of a delay, in ticks.  A tick  *)
(* may fall between any two steps.                                         *)
(***************************************************************************)
EXTENDS Integers, FiniteSets

CONSTANTS
  Requests,
  Streams,         \* symbols a run fetches, BTC included
  JobWorkers,      \* _EXECUTOR
  LegWorkers,      \* executor of a fetch_rotation
  Slots,           \* _FETCH_SLOTS
  Pace,            \* ticks between two requests to the market
  FetchBudget, RunBudget     \* FETCH_SECONDS, EXECUTION_SECONDS

ASSUME ServiceAssumption ==
  /\ {JobWorkers, LegWorkers, Slots, Pace, FetchBudget, RunBudget} \subseteq Nat \ {0}
  /\ IsFiniteSet(Requests) /\ IsFiniteSet(Streams) /\ Streams # {}

Free == "free"
Held == "held"

VARIABLES
  phase,        \* of the HTTP request: "waiting", "serving", "answered"
  answer,       \* its result, "none" before
  job,          \* "none", "queued", "fetching", "computing", "ended", "cancelled"
  result,       \* what the job ended with, "none" before
  left,         \* of the request's deadline
  fetchLeft,    \* of the fetch deadline
  leg,          \* [request -> [stream -> state]]
  slotsFree,
  rateLock,     \* _RATE_LOCK: Free or Held
  nextIn,       \* until _NEXT_FETCH
  delay,        \* [request -> [stream -> what a leg still waits under the lock]]
  grantAge      \* history: ticks since a leg was last let through, at most Pace

jobVars == <<phase, answer, job, result, left, fetchLeft>>
paceVars == <<rateLock, nextIn, delay, grantAge>>
vars == <<jobVars, leg, slotsFree, paceVars>>

Lesser(a, b) == IF a < b THEN a ELSE b
Down(n) == IF n = 0 THEN 0 ELSE n - 1

LegStates == {"none", "queued", "slot", "rate", "paced", "go", "fetch",
              "ok", "failed", "timeout", "cancelled"}
Finished == {"ok", "failed", "timeout", "cancelled"}
Holding == {"rate", "paced", "go", "fetch"}      \* past acquire, before release

Running(r) == {s \in Streams : leg[r][s] \notin {"none", "queued"} \cup Finished}
RunningJobs == {r \in Requests : job[r] \in {"fetching", "computing"}}

Init ==
  /\ phase = [r \in Requests |-> "waiting"]
  /\ answer = [r \in Requests |-> "none"] /\ result = [r \in Requests |-> "none"]
  /\ job = [r \in Requests |-> "none"]
  /\ left = [r \in Requests |-> 0] /\ fetchLeft = [r \in Requests |-> 0]
  /\ leg = [r \in Requests |-> [s \in Streams |-> "none"]]
  /\ slotsFree = Slots
  /\ rateLock = Free /\ nextIn = 0 /\ grantAge = Pace
  /\ delay = [r \in Requests |-> [s \in Streams |-> 0]]

-----------------------------------------------------------------------------
\* The limiter: one request is served at a time.
Serve(r) ==
  /\ phase[r] = "waiting" /\ \A q \in Requests : phase[q] # "serving"
  /\ phase' = [phase EXCEPT ![r] = "serving"]
  /\ left' = [left EXCEPT ![r] = RunBudget]
  /\ job' = [job EXCEPT ![r] = "queued"]
  /\ UNCHANGED <<answer, result, fetchLeft, leg, slotsFree, paceVars>>

\* future.result returns what the job ended with.
Answer(r) ==
  /\ phase[r] = "serving" /\ job[r] = "ended"
  /\ phase' = [phase EXCEPT ![r] = "answered"]
  /\ answer' = [answer EXCEPT ![r] = result[r]]
  /\ UNCHANGED <<job, result, left, fetchLeft, leg, slotsFree, paceVars>>

\* Mutation: the wait for the job has no timeout.
WaitsForTheJob(r) == FALSE

WaitExpired(r) == left[r] = 0

\* future.result times out: a job not started is cancelled, another runs on.
AnswerTimeout(r) ==
  /\ phase[r] = "serving" /\ job[r] # "ended" /\ WaitExpired(r)
  /\ phase' = [phase EXCEPT ![r] = "answered"]
  /\ answer' = [answer EXCEPT ![r] = "execution_timeout"]
  /\ job' = [job EXCEPT ![r] = IF @ = "queued" THEN "cancelled" ELSE @]
  /\ UNCHANGED <<result, left, fetchLeft, leg, slotsFree, paceVars>>

-----------------------------------------------------------------------------
FetchDeadline(r) == Lesser(FetchBudget, left[r])

\* execute begins: fetch_rotation submits every stream.
StartJob(r) ==
  /\ job[r] = "queued" /\ Cardinality(RunningJobs) < JobWorkers
  /\ job' = [job EXCEPT ![r] = "fetching"]
  /\ fetchLeft' = [fetchLeft EXCEPT ![r] = FetchDeadline(r)]
  /\ leg' = [leg EXCEPT ![r] = [s \in Streams |-> "queued"]]
  /\ UNCHANGED <<phase, answer, result, left, slotsFree, paceVars>>

\* shutdown(wait=False): a leg still fetching keeps its slot, not the job.
GivesUp(r) == TRUE

\* Mutation: streams that failed are left out of the pool.
NothingToTrade(r) == \A s \in Streams : leg[r][s] # "ok"

Incomplete(r) == \E s \in Streams : leg[r][s] # "ok"

\* wait returns: with every stream, or at the deadline.  A timeout cancels the
\* streams not started; any failure fails the run, no pool is made smaller.
Collect(r) ==
  /\ job[r] = "fetching"
  /\ (\A s \in Streams : leg[r][s] \in Finished) \/ fetchLeft[r] = 0
  /\ fetchLeft[r] = 0 => GivesUp(r)
  /\ LET verdict == CASE fetchLeft[r] = 0 -> "fetch_timeout"
                      [] fetchLeft[r] > 0 /\ Incomplete(r) -> "fetch_failed"
                      [] OTHER -> "none"
     IN /\ result' = [result EXCEPT ![r] = verdict]
        /\ job' = [job EXCEPT ![r] = IF verdict = "none" THEN "computing" ELSE "ended"]
  /\ leg' = [leg EXCEPT ![r] = [s \in Streams |-> IF @[s] = "queued" THEN "cancelled" ELSE @[s]]]
  /\ UNCHANGED <<phase, answer, left, fetchLeft, slotsFree, paceVars>>

\* run_rotation or run_dominance: a result, an engine error, or, once its
\* deadline passed, EXECUTION_TIMEOUT.
Compute(r, verdict) ==
  /\ job[r] = "computing" /\ verdict \in {"success", "engine_error"}
  /\ job' = [job EXCEPT ![r] = "ended"]
  /\ result' = [result EXCEPT ![r] = IF left[r] = 0 THEN "execution_timeout" ELSE verdict]
  /\ UNCHANGED <<phase, answer, left, fetchLeft, leg, slotsFree, paceVars>>

-----------------------------------------------------------------------------
Becomes(r, s, state) == leg' = [leg EXCEPT ![r][s] = state]

\* A worker takes a stream: nothing is asked of the market past the deadline.
StartLeg(r, s) ==
  /\ leg[r][s] = "queued" /\ Cardinality(Running(r)) < LegWorkers
  /\ Becomes(r, s, IF fetchLeft[r] = 0 THEN "timeout" ELSE "slot")
  /\ UNCHANGED <<jobVars, slotsFree, paceVars>>

\* Mutation: the slot is given back even when it was never had.
ReleasesAnyway == slotsFree + 1

AfterSlotTimeout == slotsFree

\* acquire(timeout): a slot, or the deadline.
TakeSlot(r, s) ==
  /\ leg[r][s] = "slot"
  /\ \/ /\ slotsFree > 0 /\ slotsFree' = slotsFree - 1
        /\ Becomes(r, s, "rate")
     \/ /\ fetchLeft[r] = 0 /\ slotsFree' = AfterSlotTimeout
        /\ Becomes(r, s, "timeout")
  /\ UNCHANGED <<jobVars, paceVars>>

\* Mutation: the delay is waited out without the lock.
LockNotHeld == TRUE

LockFree == rateLock = Free

\* Under _RATE_LOCK: give up if the delay is too long, or wait it out.
EnterRate(r, s) ==
  /\ leg[r][s] = "rate" /\ LockFree
  /\ IF nextIn >= fetchLeft[r]
     THEN /\ Becomes(r, s, "timeout") /\ slotsFree' = slotsFree + 1
          /\ UNCHANGED <<rateLock, delay>>
     ELSE /\ Becomes(r, s, "paced") /\ rateLock' = Held
          /\ delay' = [delay EXCEPT ![r][s] = nextIn]
          /\ UNCHANGED slotsFree
  /\ UNCHANGED <<jobVars, nextIn, grantAge>>

\* The delay is over: the next one starts now, and the lock is released.
Grant(r, s) ==
  /\ leg[r][s] = "paced" /\ delay[r][s] = 0
  /\ nextIn' = Pace /\ rateLock' = Free /\ grantAge' = 0
  /\ Becomes(r, s, "go")
  /\ UNCHANGED <<jobVars, slotsFree, delay>>

InTime(r) == fetchLeft[r] > 0

Go(r, s) ==
  /\ leg[r][s] = "go"
  /\ IF InTime(r)
     THEN Becomes(r, s, "fetch") /\ UNCHANGED slotsFree
     ELSE Becomes(r, s, "timeout") /\ slotsFree' = slotsFree + 1
  /\ UNCHANGED <<jobVars, paceVars>>

\* The market answers, or does not.
Fetched(r, s) ==
  /\ leg[r][s] = "fetch"
  /\ \E state \in {"ok", "failed"} : Becomes(r, s, state)
  /\ slotsFree' = slotsFree + 1
  /\ UNCHANGED <<jobVars, paceVars>>

Tick ==
  /\ left' = [r \in Requests |-> Down(left[r])]
  /\ fetchLeft' = [r \in Requests |-> Down(fetchLeft[r])]
  /\ delay' = [r \in Requests |-> [s \in Streams |-> Down(delay[r][s])]]
  /\ nextIn' = Down(nextIn) /\ grantAge' = Lesser(grantAge + 1, Pace)
  /\ UNCHANGED <<phase, answer, job, result, leg, slotsFree, rateLock>>

Next ==
  \/ \E r \in Requests :
       \/ Serve(r) \/ Answer(r) \/ AnswerTimeout(r)
       \/ StartJob(r) \/ Collect(r)
       \/ \E verdict \in {"success", "engine_error"} : Compute(r, verdict)
       \/ \E s \in Streams : \/ StartLeg(r, s) \/ TakeSlot(r, s) \/ EnterRate(r, s)
                             \/ Grant(r, s) \/ Go(r, s) \/ Fetched(r, s)
  \/ Tick

Spec == Init /\ [][Next]_vars

\* Time passes and the threads that serve requests are scheduled; nothing is
\* asked of the jobs.
ServingFairness ==
  /\ WF_vars(Tick)
  /\ \A r \in Requests : WF_vars(Serve(r)) /\ WF_vars(Answer(r)) /\ WF_vars(AnswerTimeout(r))

\* Jobs and their legs are scheduled too; the market may never answer.
JobFairness ==
  \A r \in Requests :
    /\ WF_vars(StartJob(r)) /\ WF_vars(Collect(r))
    /\ WF_vars(\E verdict \in {"success", "engine_error"} : Compute(r, verdict))
    /\ \A s \in Streams :
         /\ WF_vars(StartLeg(r, s)) /\ WF_vars(TakeSlot(r, s))
         /\ WF_vars(EnterRate(r, s)) /\ WF_vars(Grant(r, s)) /\ WF_vars(Go(r, s))

ServingSpec == Spec /\ ServingFairness

-----------------------------------------------------------------------------
Verdicts ==
  {"none", "success", "engine_error", "fetch_timeout", "fetch_failed", "execution_timeout"}

ServiceTypeOK ==
  /\ answer \in [Requests -> Verdicts] /\ result \in [Requests -> Verdicts]
  /\ phase \in [Requests -> {"waiting", "serving", "answered"}]
  /\ job \in [Requests -> {"none", "queued", "fetching", "computing", "ended", "cancelled"}]
  /\ left \in [Requests -> 0..RunBudget] /\ fetchLeft \in [Requests -> 0..FetchBudget]
  /\ leg \in [Requests -> [Streams -> LegStates]]
  /\ slotsFree \in 0..Slots /\ nextIn \in 0..Pace /\ grantAge \in 0..Pace
  /\ rateLock \in {Free, Held} /\ delay \in [Requests -> [Streams -> 0..Pace]]

Holders == {l \in Requests \X Streams : leg[l[1]][l[2]] \in Holding}

\* Every slot is free or held by a leg that will give it back, legs of runs
\* already answered included: the market sees no more than Slots at a time.
SlotsAccountedFor ==
  /\ ServiceTypeOK
  /\ slotsFree + Cardinality(Holders) = Slots

\* Legs are let through to the market at least a pace apart, whatever run they belong to
\* and however many wait for it; and once a request is answered no more of its streams are
\* asked for: what runs on is only what was already asked (_RATE_LOCK, _NEXT_FETCH, the
\* deadlines of fetch_rotation).
Granted == \E r \in Requests, s \in Streams : leg[r][s] = "paced" /\ leg'[r][s] = "go"
Asked(r) == \E s \in Streams : leg[r][s] # "fetch" /\ leg'[r][s] = "fetch"
InTurn ==
  /\ Granted => grantAge >= Pace
  /\ \A r \in Requests : Asked(r) => phase[r] = "serving"
MarketIsAskedInTurn == [][InTurn]_vars

\* A success was computed from the whole pool, and in time for its caller.
SuccessIsWhole ==
  \A r \in Requests : answer[r] = "success" =>
    /\ job[r] = "ended" /\ result[r] = "success"
    /\ \A s \in Streams : leg[r][s] = "ok"

\* "One CPU backtest at a time per provider process" (the comment at
\* _BACKTEST_LIMITER).
OneBacktestAtATime == Cardinality({r \in Requests : job[r] = "computing"}) <= 1

\* Every request is answered and the next one served, even if no job makes
\* progress any more.
EveryRequestAnswered == \A r \in Requests : <>(phase[r] = "answered")

\* Every job leaves its executor thread if jobs are scheduled, even if the market never
\* answers and the slots of earlier runs never come back.
EveryJobEnds ==
  JobFairness => \A r \in Requests : (job[r] # "none") ~> (job[r] \in {"ended", "cancelled"})
=============================================================================
