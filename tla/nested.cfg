SPECIFICATION Spec
CONSTANTS
    Layers <- SocketOnly
    Unit <- NestedUnits
    Scripts <- NestedScripts
    MayBlock = TRUE
    MaxQueue = 2
    MaxOpens = 1
    MaxSends = 2
    MaxDepth = 10
    MaxNested = 2
    MaxStack = 24
    Calls = {"open", "close", "close_null", "handshake", "send", "dowork", "destroy"}
    ReentrantCalls = {"close", "handshake", "send"}
INVARIANTS
    SendsSettled
    DecodedExactly
    ClosesAnswered
