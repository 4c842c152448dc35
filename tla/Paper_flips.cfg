SPECIFICATION FairSpec
CONSTANTS
    e1 = e1  e2 = e2  x1 = x1  x2 = x2  a1 = a1  a2 = a2  a3 = a3  a4 = a4  a5 = a5  s1 = s1  lock = lock
    Entries = {e1, e2}
    Side <- BothSides
    Lots <- TwoThenOne
    Exits = {x1, x2}
    Monitored = {x2}
    Adjusts = {a3}
    Change <- PanelChanges
    Suggests = {s1}
    Locks = {lock}
    LockOf <- EntriesLocked
    MaxLots = 3
    MaxFaults = 0
    None = None
PROPERTY ClaimsResolved
CHECK_DEADLOCK FALSE
