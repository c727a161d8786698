SPECIFICATION Spec
CONSTANTS
    Layers <- OverTls
    Unit <- TlsUnits
    Scripts <- TlsScripts
    MayBlock = FALSE
    MaxQueue = 2
    MaxOpens = 1
    MaxSends = 0
    MaxDepth = 0
    MaxNested = 0
    MaxStack = 24
    Calls = {"open", "close", "dowork"}
    ReentrantCalls = {}
INVARIANTS
    NestingBounded
