\* Unique IDs, crashes and store failures: nothing persisted is lost.
CONSTANTS
    IDs = {a, b}
    Workers = {w1, w2}
    Clients = {c1, c2}
    NoReq = NoReq
    Values <- MCValues
    MaxPush = 3
    MaxRemove = 2
    MaxCrash = 1
    UniqueIDs = TRUE
SPECIFICATION Spec
SYMMETRY MCSymmetry
INVARIANT PersistedIsTracked
INVARIANT TrackedIsPersisted
INVARIANT NoLostWakeup
