SPECIFICATION Spec
CONSTANTS
    Layers <- OverTls
    Unit <- ReopenUnits
    Scripts <- ReopenScripts
    MayBlock = TRUE
    MaxQueue = 1
    MaxOpens = 2
    MaxSends = 1
    MaxDepth = 6
    MaxNested = 2
    MaxStack = 24
    Calls = {"open", "close_open", "send", "dowork"}
    ReentrantCalls = {"close_open", "open"}
INVARIANTS
    MessagesAsSent
PROPERTIES
    DeliveredWhileOpen
