\* The chains of up to three conditions against AND-before-OR precedence.
CONSTANTS
    k1 = k1
    k2 = k2
    Bits = 8
    Rules <- ChainRules
    Fields <- ChainFields
    LowerFlags = {FALSE}
SPECIFICATION Spec
INVARIANT ProcessMatchesPrecedence
