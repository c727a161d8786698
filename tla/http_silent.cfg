SPECIFICATION Spec
CONSTANTS
    MaxOpenRetry = 0
    MaxCloseRetry = 0
    MaxSendRetry = 0
    MaxReceiveRetry = 1
    TempBufferSize = 4
    SendPieces = 1
    Replies <- GoodReplies
    Cuts = {"LF", "byte"}
    MaxRequests = 1
    MaxSets = 0
    Options = {}
    InitMayFail = FALSE
PROPERTIES
    ReadsGiveUp
