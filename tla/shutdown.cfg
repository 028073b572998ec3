SPECIFICATION LifeFairSpec
CONSTANTS
  Unset = Unset
  Garbage = Garbage
  Blank = Blank
  Text = Text
  Refused = Refused
  MaxU64 = 2147483647
  k1 = k1
  p1 = p1
  None = None
  NoKey = NoKey
  Requests = {r1, r2}
  Tokens = {r1, r2}
  Keys = {k1}
  Payloads = {p1}
  Demands <- Retries
  Capacity = 1
  IppTimeout = 1
  FindCalls = 1
  Ttl = 4
  Faults = {"panic"}
  ShutdownTimeouts <- Budgets
  StopGrace = 4
  MayCrash = TRUE
  Lives = 2
INVARIANTS OneJobPerLife RepliesStand DrainLeavesNothingUnknown BudgetSuffices
PROPERTIES EveryRequestEnds EveryAttemptSettles EachLifeAnew
CHECK_DEADLOCK FALSE
