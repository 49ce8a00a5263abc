SPECIFICATION FairSpec
CONSTANTS
    child = child
    idle = idle
    keyA = keyA
    ConnectId <- MCIds
    Cid = child
    Command <- TwoCommands
    Idle = idle
    ChildLast = 4
    ParentLast = 3
    SkipModes = {TRUE, FALSE}
    KeepaliveFrames = 1
    EchoMax = 2
    OutstandingMax = 2
    PendingMax = 2
    MaxInflight = 1
    SilenceCeil = 2
    SlotCreditMax = 1
    ReackEvery = 2
    AckRepeats = 1
    NullReemitMax = 1
INVARIANTS
    GameDataInOrder
    StopAndWait
    NoEarlyUni
    NoEchoLost
PROPERTIES
    LinkComesUp
    EchoComesBack
