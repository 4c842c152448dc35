SPECIFICATION Spec
CONSTANTS
    r1 = r1  r2 = r2  r3 = r3  u1 = u1  u2 = u2  i1 = i1  i2 = i2  i3 = i3
    v1 = v1  v2 = v2  w1 = w1  w2 = w2
    Requests = {r1, r2, r3}
    Users = {u1, u2}
    Owner <- OneOwner
    Identities = {i1, i2, i3}
    Identity <- OtherOptions
    Versions = {v1, v2}
    Output <- OutputOf
    Eligible = {v1}
    Uploads = {v1}
    Workers = {w1}
    MaxAttempts = 2
    GlobalLimit = 2
    UserLimit = 1
    MaxFailures = 1
    MaxCancels = 1
    MaxCrashes = 1
    None = None
INVARIANTS TypeOK AttemptsBounded
PROPERTIES ResultsStay ReviewUndisturbed ConsentBeforeReview
CHECK_DEADLOCK FALSE
