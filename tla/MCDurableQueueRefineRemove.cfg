\* With one Remove the queue no longer implements RetryQueue: a removed
\* request is still handed to the handler.
CONSTANTS
    IDs = {a, b}
    Workers = {w1, w2}
    Clients = {c1, c2}
    NoReq = NoReq
    Values <- MCValues
    MaxPush = 2
    MaxRemove = 1
    MaxCrash = 0
    UniqueIDs = TRUE
SPECIFICATION Spec
PROPERTY ImplementsRetryQueue
