SPECIFICATION ClientsFairSpec
CONSTANTS
  None = None
  Nothing = Nothing
  f = f
  lp = lp
  lp2 = lp2
  MaxCalls = 3
  MaxSessions = 1
  MaxRetries = 1
  MaxAgentCalls = 2
  Requests <- Calls
  Keys <- ClientKeys
  Demands <- Asked
  Payloads <- Contents
  Device = lp
  Name <- Names
INVARIANTS StaysOnDevice
PROPERTIES SubmitEnds BlameIsDeserved
CHECK_DEADLOCK FALSE
