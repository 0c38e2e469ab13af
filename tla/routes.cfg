CONSTANTS
    Name <- Names
    Addr <- Stations
    NoAddr = "zeros"
    Hash <- Hashes
    Depth = 2
    Digit <- Binary
    MaxHops = 1
    MaxLines = 2

SPECIFICATION Spec

INVARIANT StationRouted
CHECK_DEADLOCK FALSE
