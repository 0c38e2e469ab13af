CONSTANTS
    Fd = {4, 5}
    Client = {2, 3}
    ServerFd = 1
    Scan = 6
    Types = {"STREAM", "RAW"}
    Addr = {a1}
    IfAddr = a1
    Remote = {r1, r2}
    NoAddr = empty
    None = none

SYMMETRY Stations

SPECIFICATION Spec

INVARIANTS LoopSafe TablesAgree NoOrphan DaemonStays
CHECK_DEADLOCK FALSE
