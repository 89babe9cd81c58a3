SPECIFICATION Spec
CONSTANTS
    WsFrames <- MCFrames
    WsRequests <- MCWsRequests
    WsLens <- MCLens
    WsMaxLen = 2
    WsMaxFrames = 4
    HtRequests <- MCRequests
    HtResponses <- MCResponses
    HcPages <- MCPages
    HcMaxConnect = 2
    PsTimeouts <- MCTimeouts
    PsMaxLen = 2
    PsMaxWait = 3
    UrChars = {"%", "blank", "-", "0"}
    UrMaxLen = 6
    UrCap = 6
    CpCount = 3
    CpIntMax = 7
    CpMaxWorker = 5
    TcCmds = {1, 2}
    TcMaxLen = 2
    TcMaxSend = 4
    LsNode = {1, 2, 3, 4}
    LsNull = 0
    LsMaxShift = 2
INVARIANTS WSCorrect HTCorrect HCCorrect PSCorrect URCorrect CPBalanced TCCarried ListsOK
CHECK_DEADLOCK FALSE
