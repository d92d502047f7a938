\* Locker: mutual exclusion per id and no starvation of a blocked Lock.
CONSTANTS
    a = a
    b = b
    c1 = c1
    c2 = c2
    c3 = c3
    IDs <- MCIDs
    Clients <- MCClients
    MaxMutex = 2
SPECIFICATION Spec
INVARIANTS TypeOK MutualExclusion
PROPERTY ImplementsIdLock
