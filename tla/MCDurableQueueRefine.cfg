\* No Remove: the queue implements RetryQueue, and every live row reaches
\* the handler.  Liveness, so no symmetry reduction.
CONSTANTS
    IDs = {a, b}
    Workers = {w1, w2}
    Clients = {c1, c2}
    NoReq = NoReq
    Values <- MCValues
    MaxPush = 2
    MaxRemove = 0
    MaxCrash = 2
    UniqueIDs = TRUE
SPECIFICATION Spec
PROPERTY PersistedReachesHandler ImplementsRetryQueue
