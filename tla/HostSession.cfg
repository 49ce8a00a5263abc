SPECIFICATION FairSpec
CONSTANTS
    cidA = cidA
    cidB = cidB
    idle = idle
    word = word
    closeLink = closeLink
    ConnectId <- MCIds
    Cid = cidA
    OtherCid = cidB
    Command <- MCCommands
    Idle = idle
    Word = word
    CloseLink = closeLink
    ChildLast = 2
    ParentLast = 2
    SkipModes = {FALSE}
    KeepaliveFrames = 0
    EchoMax = 3
    MaxInflight = 3
    OutstandingMax = 2
    SentMax = 9
    ConsoleMax = 6
CHECK_DEADLOCK FALSE
INVARIANTS
    AcceptAfterConnectAck
    DisconnectEndsStream
    NoWordLost
PROPERTIES
    CloseEnds
    ConnectIsAccepted
    ReleaseIsGuarded
