SPECIFICATION Spec
CONSTANTS
    Layers <- SocketOnly
    Unit <- WsioUnits
    Scripts <- WsioScripts
    MayBlock = TRUE
    MaxQueue = 1
    MaxOpens = 2
    MaxCloses = 2
    MaxSends = 1
    MaxDepth = 7
    Calls = {"open", "close", "close_null", "send", "send_null", "dowork", "destroy"}
    ReentrantCalls = {"close"}
INVARIANTS
    WsioSendsSettled
    WsioEndsAnswered
    BytesAsSent
PROPERTIES
    WsioKeepsContract
    WsioCallsReturn
