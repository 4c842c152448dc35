SPECIFICATION Spec
CONSTANTS
    c1 = c1  c2 = c2  key = key  d1 = d1  d2 = d2  buy = buy
    Callers = {c1, c2}
    Worker = worker
    Keys = {key}
    KeyOf <- OneKey
    Operations <- Asked
    Fallback = "live"
    MaxManaged = 1
    Alerts = {buy}
    Deliveries = {d1, d2}
    AlertOf <- Alert
    Carries <- EntryOrHold
    MaxLost = 1
    None = None
SYMMETRY Repetitions
INVARIANTS TypeOK AcceptedIsKept
PROPERTIES EntersWhileActive LiveWhenLive
CHECK_DEADLOCK FALSE
