SPECIFICATION Spec
CONSTANTS
  r1 = r1  r2 = r2  r3 = r3  op = op
  Requests = {r1}
  Operations = {op}
  Operation <- Same
  MaxFaults = 2
  MaxSwitches = 0
  None = None
INVARIANTS RejectionComplete
CHECK_DEADLOCK FALSE
