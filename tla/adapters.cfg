SPECIFICATION Spec
CONSTANTS
    Layers <- OverTls
    Unit <- AdapterUnits
    Scripts <- AdapterScripts
    MayBlock = FALSE
    MaxQueue = 1
    MaxOpens = 2
    MaxCloses = 2
    MaxSends = 2
    MaxDepth = 8
    AnsweredPhases = {"open"}
    ReentrantCalls = {"close", "send"}
    CallingFrom = {"on_bytes_received", "on_io_error", "on_io_close_complete", "on_underlying_io_send_complete"}
    Chosen <- AllAdapters
    Reusable = {}
    SafeFrom <- Safe
INVARIANTS
    SecureAndInOrder
    AnsweredOnce
PROPERTIES
    ToldInOrder
    AdapterCallsReturn
