SPECIFICATION Spec
CONSTANTS
    Mod = 8
    ModExt = 10
    WinDefault = 2
    Win22 = 4
    WinMax = 9
    NRetry = 1
    MaxItem = 3
    Patty = {1, 2}
    Listeners = {2}
    Callers = {}
    Leavers = {2}
    Hangers = {}
    Redialers = {}
    Setters = {}
    Windows = {1}
    MaxSend <- Send3
    NetCap = 2
    Foreign = {}
    Connected = TRUE
    Base = 0
INVARIANTS RetransmissionArmed AckedDelivered NoGap
PROPERTIES PendingKept ImplementsPipe
CHECK_DEADLOCK FALSE
