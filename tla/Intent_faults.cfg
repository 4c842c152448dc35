SPECIFICATION Spec
CONSTANTS
  r1 = r1  r2 = r2  r3 = r3  op = op
  Requests = {r1, r2}
  Operations = {op}
  Operation <- Same
  MaxFaults = 3
  MaxSwitches = 1
  None = None
SYMMETRY Repetitions
INVARIANTS TypeOK SentOnce AnswersAgree RejectionFinal
CHECK_DEADLOCK FALSE
