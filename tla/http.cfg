SPECIFICATION Spec
CONSTANTS
    MaxOpenRetry = 0
    MaxCloseRetry = 0
    MaxSendRetry = 0
    MaxReceiveRetry = 1
    TempBufferSize = 4
    SendPieces = 1
    Replies <- AllReplies
    Cuts = {"status", "byte"}
    MaxRequests = 2
    MaxSets = 1
    Options = {"certificate"}
    InitMayFail = TRUE
INVARIANTS
    AnswerIsWhole
    LevelsUndone
    OptionsInForce
PROPERTIES
    RequestsEnd
