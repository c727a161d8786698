SPECIFICATION Spec
CONSTANTS
    Layers <- ThroughProxy
    Unit <- ProxyUnits
    Scripts <- ProxyScripts
    MayBlock = TRUE
    MaxQueue = 2
    MaxOpens = 2
    MaxCloses = 2
    MaxSends = 2
    MaxDepth = 8
    AnsweredPhases = {"closed", "open", "failed"}
    ReentrantCalls = {"close", "open", "send"}
    CallingFrom = {"on_bytes_received", "on_io_error", "on_io_close_complete", "on_underlying_io_send_complete"}
    Reuse = FALSE
INVARIANTS
    OpenedByResponse
    ProxyEndsAnswered
PROPERTIES
    KeepsContract
