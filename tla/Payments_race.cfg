SPECIFICATION FairSpec
CONSTANTS
    e1 = e1  e2 = e2  e3 = e3  e4 = e4  s1 = s1  s2 = s2
    Events = {e1, e2, e3, e4}
    Plan <- PlanOf
    Brings <- BringsOf
    End <- EndOf
    Lookups = {e4}
    Servers = {s1, s2}
    PilotHours = 2
    MaxOccurrences = 1
INVARIANTS TypeOK AppliedOnce AccessPaid PaperKept RevocationHolds
PROPERTIES AllAnswered
CHECK_DEADLOCK FALSE
