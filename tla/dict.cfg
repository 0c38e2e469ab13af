CONSTANTS
    Depth = 2
    Digit <- Binary
    Key <- SomeKeys
    Value = {v1, v2}
    NoValue = none

SYMMETRY Values

SPECIFICATION Spec

INVARIANT VisitedOnce
PROPERTY ImplementsMap
