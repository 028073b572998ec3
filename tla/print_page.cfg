SPECIFICATION ClientsSpec
CONSTANTS
  None = None
  Nothing = Nothing
  f = f
  lp = lp
  lp2 = lp2
  MaxCalls = 4
  MaxSessions = 2
  MaxRetries = 1
  MaxAgentCalls = 0
  Requests <- Calls
  Keys <- ClientKeys
  Demands <- Asked
  Payloads <- Contents
  Device = lp
  Name <- Names
INVARIANTS OneJobPerIntent SuccessIsNew FinalErrorMeansNoJob ShowsThisSession
CHECK_DEADLOCK FALSE
