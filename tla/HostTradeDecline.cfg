SPECIFICATION FairSpec
CONSTANTS
    host1 = host1
    host2 = host2
    child1 = child1
    child2 = child2
    HostMons <- MCHostMons
    ChildMons <- MCChildMons
    Offered <- OneTrade
    SaveRounds = 2
    EchoFrames = 3
    Quiet = 6
    Settle = 2
    LinkIdle = 6
    ExitWait = 12
    OutstandingMax = 2
    UplinkMax = 2
    Repeat = 4
    MenuDelay = 4
    MissMax = 0
    Extra = 0
    Answer = {"INIT_BLOCK", "READY_CANCEL_TRADE"}
CHECK_DEADLOCK FALSE
PROPERTIES
    DeclineReturns
