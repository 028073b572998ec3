SPECIFICATION Spec
CONSTANTS
  j1 = j1
  j2 = j2
  j3 = j3
  p1 = p1
  p2 = p2
  NoJob = NoJob
  Jobs = {j1, j2, j3}
  Printers = {p1}
  Printer <- OnePrinter
  Readers = {}
  Cancelers = {d1}
  Listers = {}
  Limit = 1
  Capacity = 2
  RecordTtl = 2
  CacheSize = 1
  StatusTtl = 1
  IppTimeout = 1
SYMMETRY SameJobs
INVARIANTS OrderMatchesMap NewestFirst CancelRemembered
