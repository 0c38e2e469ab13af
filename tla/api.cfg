SPECIFICATION Spec
CONSTANTS
    Fd <- MCFd
    Types <- MCTypes
    MaxCalls = 5
    MaxSocks = 3
    MaxPeer = 3
INVARIANTS
    TypeOK
    AnswersMatch
    OwnSocket
    Known
    Holds

    
CHECK_DEADLOCK FALSE
