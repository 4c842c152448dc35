SPECIFICATION Spec
CONSTANTS
  Slots = {live}
  Routers = {worker, panel}
  Permits = {w1, w2}
  Threshold = 1
  Lots = 2
  Calls = 3
  Faults = 1
SYMMETRY Threads
INVARIANTS TypeOK   ProbeAlone
CHECK_DEADLOCK FALSE
