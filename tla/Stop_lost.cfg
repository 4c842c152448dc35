SPECIFICATION Spec
CONSTANTS
    c1 = c1  c2 = c2  key = key  d1 = d1  d2 = d2  buy = buy
    Callers = {c1}
    Worker = worker
    Keys = {key}
    KeyOf <- OneKey
    Operations <- Stopped
    Fallback = "live"
    MaxManaged = 1
    Alerts = {buy}
    Deliveries = {d1}
    AlertOf <- Alert
    Carries <- EntryOnly
    MaxLost = 1
    None = None
INVARIANT StopHolds
CHECK_DEADLOCK FALSE
