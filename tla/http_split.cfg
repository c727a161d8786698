SPECIFICATION Spec
CONSTANTS
    MaxOpenRetry = 0
    MaxCloseRetry = 0
    MaxSendRetry = 0
    MaxReceiveRetry = 1
    TempBufferSize = 8
    SendPieces = 1
    Replies <- GoodReplies
    Cuts = {"status", "byte", "LF", "CR"}
    MaxRequests = 1
    MaxSets = 0
    Options = {}
    InitMayFail = FALSE
INVARIANTS
    AnswerIsWhole
