SPECIFICATION Spec
CONSTANTS
  j1 = j1
  j2 = j2
  j3 = j3
  p1 = p1
  p2 = p2
  NoJob = NoJob
  Jobs = {j1, j2}
  Printers = {p1, p2}
  Printer <- PrinterEach
  Readers = {g1}
  Cancelers = {}
  Listers = {l1}
  Limit = 1
  Capacity = 2
  RecordTtl = 1
  CacheSize = 1
  StatusTtl = 1
  IppTimeout = 1
INVARIANTS StatusCatchesUp
PROPERTIES ActiveNotCrowdedOut
