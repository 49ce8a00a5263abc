SPECIFICATION FairSpec
CONSTANTS
    host1 = host1
    host2 = host2
    child1 = child1
    child2 = child2
    HostMons <- MCHostMons
    ChildMons <- MCChildMons
    Offered <- TwoTrades
    SaveRounds = 2
    EchoFrames = 3
    Quiet = 6
    Settle = 2
    LinkIdle = 6
    ExitWait = 12
    OutstandingMax = 2
    UplinkMax = 2
    Repeat = 4
    MenuDelay = 4
    MissMax = 2
    Extra = 2
    Answer = {"INIT_BLOCK"}
CHECK_DEADLOCK FALSE
INVARIANTS
    EveryWordHeard
    ShownIsTraded
    ExitBeforeClose
PROPERTIES
    ImplementsSwap
    SessionEnds
