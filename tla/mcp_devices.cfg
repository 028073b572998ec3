SPECIFICATION Spec
CONSTANTS
  NoService = NoService
  Devices = {d1, d2, d3}
  Requests = {r1, r2, r3, r4, r5}
  MaxDevices = 2
  IdleTtl = 2
SYMMETRY Symmetry
INVARIANTS HeldServiceLives
PROPERTIES RefusedOnlyWhenBusy
CHECK_DEADLOCK FALSE
