\* Remove against a request waiting in the list or for its retry; no crash,
\* so a call can only come from the running process.
CONSTANTS
    IDs = {a, b}
    Workers = {w1, w2}
    Clients = {c1, c2}
    NoReq = NoReq
    Values <- MCValues
    MaxPush = 2
    MaxRemove = 1
    MaxCrash = 0
    UniqueIDs = TRUE
SPECIFICATION Spec
SYMMETRY MCSymmetry
PROPERTY NoCallAfterRemove
