SPECIFICATION FairSpec
CONSTANTS
    s1 = s1  u1 = u1  u2 = u2  d1 = d1  d2 = d2  b1 = b1  n1 = n1
    Signals = {s1}
    Users = {u1, u2}
    Deliveries = {d1}
    SignalOf <- SignalOfSingle
    BodyOf <- BodyOfSingle
    NonceOf <- NonceOfSingle
    Production = TRUE
    Modes <- RealOnly
    MaxAttempts = 2
    Concurrency = 2
    MaxCrashes = 0
    DbFaults = FALSE
    Loop = Loop
    None = None
PROPERTIES SignalsSettle
CHECK_DEADLOCK FALSE
