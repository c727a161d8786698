SPECIFICATION Spec
CONSTANTS
    Layers <- OverTls
    Unit <- ReopenUnits
    Scripts <- ReopenScripts
    MayBlock = TRUE
    MaxQueue = 2
    MaxOpens = 2
    MaxSends = 1
    MaxDepth = 0
    MaxNested = 0
    MaxStack = 24
    Calls = {"open", "close_open", "send", "dowork"}
    ReentrantCalls = {}
INVARIANTS
    NoFaults
