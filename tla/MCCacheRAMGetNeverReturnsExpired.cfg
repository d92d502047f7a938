\* RAM cache: GetCache returns an entry past its expiration.
CONSTANTS
    k1 = k1
    k2 = k2
    p1 = p1
    Keys <- MCKeys
    Patterns <- MCPatterns
    ContainsRel <- MCContainsRel
    MaxAges = {0, 1}
    MaxTime = 3
    MaxSave = 2
SPECIFICATION Spec
INVARIANT GetNeverReturnsExpired
