SPECIFICATION FairSpec
CONSTANTS
    Layers <- SocketOnly
    Unit <- FrameUnits
    Scripts <- FrameScripts
    MayBlock = FALSE
    MaxQueue = 2
    MaxOpens = 1
    MaxSends = 1
    MaxDepth = 8
    MaxNested = 1
    MaxStack = 24
    Calls = {"open", "close", "close_null", "handshake", "send", "dowork", "destroy"}
    ReentrantCalls = {"close"}
INVARIANTS
    TypeOK
    MessagesAsSent
    SendsCompleteOnce
    OpensAnswered
    ClosedMeansReleased
PROPERTIES
    CallsReturn
