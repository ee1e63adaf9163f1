\* A job worker for each request.
SPECIFICATION Spec
CONSTANTS
  Requests = {r1, r2}
  Streams = {btc, coin}
  JobWorkers = 2
  LegWorkers = 2
  Slots = 2
  Pace = 2
  FetchBudget = 3
  RunBudget = 4
INVARIANTS OneBacktestAtATime
CHECK_DEADLOCK FALSE
