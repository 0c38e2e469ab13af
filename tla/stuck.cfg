SPECIFICATION TimelySpec
CONSTANTS
    Mod = 8
    ModExt = 10
    WinDefault = 2
    Win22 = 4
    WinMax = 9
    NRetry = 1
    MaxItem = 1
    Patty = {1, 2}
    Listeners = {2}
    Callers = {1}
    Leavers = {}
    Hangers = {}
    Redialers = {}
    Setters = {}
    Windows = {1}
    MaxSend <- Send1
    NetCap = 2
    Foreign = {}
    Connected = FALSE
    Base = 0
PROPERTY ConnectAnswered
CHECK_DEADLOCK FALSE
