\* Numeric comparisons against integer, unsigned and float contents.
CONSTANTS
    k1 = k1
    k2 = k2
    Bits = 4
    Rules <- NumRules
    Fields <- NumFields
    LowerFlags = {FALSE}
SPECIFICATION Spec
INVARIANT NumericComparisonsAreNumeric
