SPECIFICATION Spec
CONSTANTS
  k1 = k1
  k2 = k2
  p1 = p1
  p2 = p2
  None = None
  NoKey = NoKey
  Requests = {r1, r2, r3}
  Tokens = {r1, r2, r3}
  Keys = {k1, k2}
  Payloads = {p1, p2}
  Demands <- SafetyDemands
  Capacity = 1
  IppTimeout = 1
  FindCalls = 1
  Ttl = 4
  Faults = {}
SYMMETRY Symmetry
INVARIANTS AtMostOneJob ReplyFidelity
PROPERTIES NoPrintAfterSuccess ImplementsPrintOnce
