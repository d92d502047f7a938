\* Replay order alone: two rows and one crash; TLC finds it violated.
CONSTANTS
    IDs = {a, b}
    Workers = {w1}
    Clients = {c1}
    NoReq = NoReq
    Values <- MCValues
    MaxPush = 2
    MaxRemove = 0
    MaxCrash = 1
    UniqueIDs = TRUE
SPECIFICATION Spec
PROPERTY ReplayOldestFirst
