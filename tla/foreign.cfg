SPECIFICATION Spec
CONSTANTS
    Mod = 4
    ModExt = 8
    WinDefault = 2
    Win22 = 4
    WinMax = 7
    NRetry = 1
    MaxItem = 1
    Patty = {1}
    Listeners = {1}
    Callers = {1}
    Leavers = {1}
    Hangers = {1}
    Redialers = {1}
    Setters = {1}
    Windows = {1}
    MaxSend <- Send1
    NetCap = 1
    Foreign <- AnyFrame
    Connected = FALSE
    Base = 0
INVARIANTS TypeOK RetransmissionArmed LinkSupervised AckScheduled RingSized
CHECK_DEADLOCK FALSE
