\* Decoding, the test functions and chains of up to three conditions.
CONSTANTS
    k1 = k1
    k2 = k2
    Bits = 8
    Rules <- AllRules
    Fields <- AllFields
    LowerFlags = {FALSE, TRUE}
SPECIFICATION Spec
INVARIANT ProcessMatchesRightNested
