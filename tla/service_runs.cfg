\* Two slots for four streams, one job worker for two requests, jobs that may stop and a market that may never answer.
SPECIFICATION ServingSpec
CONSTANTS
  Requests = {r1, r2}
  Streams = {btc, coin}
  JobWorkers = 1
  LegWorkers = 2
  Slots = 2
  Pace = 1
  FetchBudget = 2
  RunBudget = 3
INVARIANTS
  SlotsAccountedFor
  SuccessIsWhole
PROPERTIES
  MarketIsAskedInTurn
  EveryoneIsServed
CHECK_DEADLOCK FALSE
