SPECIFICATION FairSpec
CONSTANTS
    r1 = r1  r2 = r2  r3 = r3  u1 = u1  u2 = u2  i1 = i1  i2 = i2  i3 = i3
    v1 = v1  v2 = v2  w1 = w1  w2 = w2
    Requests = {r1, r3}
    Users = {u1, u2}
    Owner <- TwoOwners
    Identities = {i1, i2, i3}
    Identity <- OtherSource
    Versions = {v1, v2}
    Output <- OutputOf
    Eligible = {v1}
    Uploads = {}
    Workers = {w1, w2}
    MaxAttempts = 2
    GlobalLimit = 1
    UserLimit = 1
    MaxFailures = 1
    MaxCancels = 1
    MaxCrashes = 0
    None = None
INVARIANT WithinGlobalLimit
PROPERTIES ConversionsEnd
CHECK_DEADLOCK FALSE
