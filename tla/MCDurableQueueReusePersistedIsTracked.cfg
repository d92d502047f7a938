\* Callers reuse an ID (allowed: nothing enforces uniqueness) or remove
\* one they have not pushed yet.
CONSTANTS
    IDs = {a, b}
    Workers = {w1, w2}
    Clients = {c1, c2}
    NoReq = NoReq
    Values <- MCValues
    MaxPush = 3
    MaxRemove = 1
    MaxCrash = 0
    UniqueIDs = FALSE
SPECIFICATION Spec
SYMMETRY MCSymmetry
INVARIANT PersistedIsTracked
