SPECIFICATION FairSpec
CONSTANTS
    Sessions <- AllBranches
    DumpBlocks = 2
    FullChunks = 2
    BlockFrames = 2
    ChildGap = 1
    InitiateTimeout = 8
    IdleTimeout = 4
    MaxEmits = 2
    EchoFrames = 2
    ClientReady = 2
    HostGap = 7
    CloseRetry = 4
    Grace = 6
    SilenceLimit = 1
    OutstandingMax = 2
    UplinkMax = 1
CHECK_DEADLOCK FALSE
INVARIANTS
    NoLinkError
    OneUnread
    NetworkOutlivesGift
PROPERTIES
    ImplementsPromise
    GiftEnds
