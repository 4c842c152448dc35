SPECIFICATION Spec
CONSTANTS
    s1 = s1  u1 = u1  u2 = u2  d1 = d1  d2 = d2  b1 = b1  n1 = n1
    Signals = {s1}
    Users = {u1, u2}
    Deliveries = {d1, d2}
    SignalOf <- SignalOfTwins
    BodyOf <- BodyOfTwins
    NonceOf <- NonceOfTwins
    Production = FALSE
    Modes <- PaperAndSignal
    MaxAttempts = 2
    Concurrency = 2
    MaxCrashes = 2
    DbFaults = TRUE
    Loop = Loop
    None = None
SYMMETRY TwinSymmetry
INVARIANTS TypeOK AttemptsBounded AtMostOneOrder SettledMeansDone ClosedEventTruthful
PROPERTIES ImplementsPromise
CHECK_DEADLOCK FALSE
