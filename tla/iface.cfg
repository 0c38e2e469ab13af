CONSTANTS
    CallSize = 2
    PathSize = 2
    BodySize = 2
    MaxHops = 2
    Station <- Calls
    NoStation <- Empty
    Frames <- SomeFrames
    Lines <- SomeLines
    Comments <- SomeComments
    Answered <- Tests
    Answer <- UaAnswer
    Fd = {f1, f2}
    Others = {"other"}
    Mru = 3
    Mtu = 3
    BufSize = 8
    MaxFrames = 2
    MaxSocks = 2
    MaxOdd = 1

SYMMETRY Descriptors

SPECIFICATION Spec

INVARIANTS NoOverflow InOrder Complete RawIntact NoStray Survives ReplyReturns
CHECK_DEADLOCK FALSE
