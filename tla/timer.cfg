SPECIFICATION Spec
CONSTANTS
    Nano = 4
    Secs = 1
    Frac = 0
    MaxSelect = 4
    MaxHandler = 2
    MaxSec = 6
INVARIANTS Exact Telescopes Drift
