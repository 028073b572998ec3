SPECIFICATION Spec
CONSTANTS
  NoValue = NoValue
  Nothing = Nothing
  Failed = Failed
  Requests = {q1, q2, q3}
  Demands <- Lists
  PrinterCount = 2
  LastVersion = 1
  Report <- Changing
  Concurrency = 1
  IppTimeout = 1
  CacheTtl = 2
INVARIANTS RefreshAlwaysSeesChange
