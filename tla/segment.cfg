SPECIFICATION Spec
CONSTANTS
    Rx = 3
    Lengths <- MCLengths
    MaxMsgs = 3
    MaxFaults = 2
INVARIANTS
    Fits
    CountsDown
    DamageBounded
    Survives
CHECK_DEADLOCK FALSE
