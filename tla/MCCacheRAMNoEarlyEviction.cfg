\* RAM cache: an older save's expiry callback deletes a newer entry of the key.
CONSTANTS
    k1 = k1
    k2 = k2
    p1 = p1
    Keys <- MCKeys
    Patterns <- MCPatterns
    ContainsRel <- MCContainsRel
    MaxAges = {0, 1}
    MaxTime = 3
    MaxSave = 2
SPECIFICATION Spec
PROPERTY NoEarlyEviction
