CONSTANTS
    Bits = 8
    MaxPlaces = 3
SPECIFICATION Spec
INVARIANT BetweenIsNextOccurrence
