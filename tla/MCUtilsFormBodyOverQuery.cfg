\* The property alone; TLC finds it violated.
CONSTANTS
    Bits = 8
    MaxPlaces = 3
SPECIFICATION Spec
INVARIANT FormBodyOverQuery
