SPECIFICATION Spec
CONSTANTS
    e1 = e1  e2 = e2  x1 = x1  x2 = x2  a1 = a1  a2 = a2  a3 = a3  a4 = a4  a5 = a5  s1 = s1  lock = lock
    Entries = {e1}
    Side <- OneSide
    Lots <- TwoLots
    Exits = {x1, x2}
    Monitored = {x2}
    Adjusts = {a1, a2, a4}
    Change <- PanelChanges
    Suggests = {}
    Locks = {lock}
    LockOf <- FirstExitLocked
    MaxLots = 3
    MaxFaults = 1
    None = None
INVARIANTS TypeOK LotsConserved LedgerAgrees
PROPERTIES SellsWhatItClaimed ClaimHeld NeverRecreated
CHECK_DEADLOCK FALSE
