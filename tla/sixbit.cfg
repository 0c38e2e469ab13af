SPECIFICATION Spec
CONSTANTS
    Mod = 8
    ModExt = 8
    WinDefault = 2
    Win22 = 4
    WinMax = 7
    NRetry = 1
    MaxItem = 5
    Patty = {1, 2}
    Listeners = {2}
    Callers = {}
    Leavers = {}
    Hangers = {}
    Redialers = {}
    Setters = {}
    Windows = {1}
    MaxSend <- Send5
    NetCap = 2
    Foreign = {}
    Connected = TRUE
    Base = 4
INVARIANT AckedDelivered
CHECK_DEADLOCK FALSE
