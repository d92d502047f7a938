\* RAM cache: type, expiring entries keep their callback, eventual eviction.
CONSTANTS
    k1 = k1
    k2 = k2
    p1 = p1
    Keys <- MCKeys
    Patterns <- MCPatterns
    ContainsRel <- MCContainsRel
    MaxAges = {0, 1}
    MaxTime = 3
    MaxSave = 3
SPECIFICATION Spec
INVARIANTS TypeOK ExpiringEntryHasTimer
PROPERTY ExpiredEventuallyEvicted
