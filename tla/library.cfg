SPECIFICATION Spec
CONSTANTS
    Objects <- AllObjects
    Addr = {1, 2, 3}
    Heads = {"h", "g"}
    Entries = {"e1", "e2", "e3"}
    Vectors = {"v1", "v2"}
    Blocks = {"b1", "b2", "b3"}
    ElementSize = 2
    Elements = {"x", "y"}
    MaxElements = 2
    Keys = {"k1", "k2", "k3"}
    Values <- TwoValues
    RejectedKeys = {"k3"}
    Spaces = {"space"}
    MaxValue = 3
    MaxFaults = 2
    Buffers = {"b", "c"}
    Bytes = {"x", "y"}
    MaxSize = 2
    Characters = {"a", "quote", "control"}
    Sharers = {"t1", "t2"}
    MaxHeld = 3
    MaxVersion = 1
    Callers = {"t1"}
    Pointers = {"p1", "p2", "p3"}
    Nodes = {"n1", "n2", "n3"}
    Sizes = {1}
    SizeValues = 16
    Takers = {"taker1", "taker2"}
    Givers = {"giver1", "giver2"}
    Conditions <- Waiting
    Programs <- SavableTogether
    OptionValues = {"1.1", "aa"}
    Malformed = {}
    Repeatable = {"trusted"}
    MaxSets = 3
    MaxFailing = 1
    Verifiers = {"t1", "t2"}
    Certificates <- ToVerify
    IssuerAt <- PublishedBy
    GoesOn = {"t2"}
    FileSlots = 2
    CacheGrowth = 1
    MaxLists = 2
    MaxNow = 1
    MaxVerified = 2
    Platforms = {"win32", "mbed"}
    Hosts <- Resolved
    Partial <- PartTaken
    Reenter <- FromInside
    OpenTwice = {"win32"}
    MaxOut = 3
    MaxIn = 1
    MaxConnections = 2
    MaxInside = 2
    HttpLibraries = {"curl", "winhttp"}
    HttpUsers = {"u1", "u2"}
    Asked <- Requests
    Answers <- Responses
    OptionsToSet <- HttpOptions
    Mishandled <- NotReported
    MaxAsked = 2
    MaxOptionsSet = 2
    MaxCalls = 4
    Requesters = {"u1"}
    Kinds <- AllKinds
    Letters <- KindLetters
    InputLength <- InputLengths
    SasInputs <- Sas
    Times = {0, 9, 10, 11, 99, 100, 101}
    SHAversions <- HashVersions
    BlockSize <- BlockSizes
    HashSize <- HashSizes
    Word = 16
    MaxMessage = 33
    Portions = {0, 1, 3, 5}
    KeySizes = {1, 4, 5, 7}
    ULLONG_MAX = 127
    DBL_MAX_10_EXP = 9
    _TRUNCATE = _TRUNCATE
INVARIANTS
    ContainersAsTold
    BuffersAsTold
    TrackedExactly
    OptionsRestored
    OptionsReleased
    ListsAsAsked
    CredentialsAsConfigured
    SocketsAsAsked
    HttpAsAsked
    EncodingsSurvive
    DigestsOfWholeMessage
    ParsedAsWritten
PROPERTIES
    NobodyForgotten
CHECK_DEADLOCK FALSE
