SPECIFICATION Spec
CONSTANTS
  k1 = k1
  k2 = k2
  p1 = p1
  p2 = p2
  None = None
  NoKey = NoKey
  Requests = {r1, r2, r3}
  Tokens = {r1, r2, r3}
  Keys = {k1}
  Payloads = {p1}
  Demands <- RetryDemands
  Capacity = 1
  IppTimeout = 1
  FindCalls = 2
  Ttl = 5
  Faults = {"get_jobs_fails"}
INVARIANTS AtMostOneJob
