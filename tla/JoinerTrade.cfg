SPECIFICATION FairSpec
CONSTANTS
    leader1 = leader1
    leader2 = leader2
    joiner1 = joiner1
    joiner2 = joiner2
    LeaderMons <- MCLeaderMons
    JoinerMons <- MCJoinerMons
    Offered <- TwoTrades
    Decline = FALSE
    Refused = {}
    Route = 2
    BlockFrames = 2
    InitiateTimeout = 8
    IdleTimeout = 4
    MaxEmits = 2
    SaveRounds = 2
    SaveWrite = 2
    SeatIdle = 4
    Settle = 5
    SilenceLimit = 1
    OutstandingMax = 2
    UplinkMax = 1
    Repeats = 1
    Extra = 1
    Answer = {"yes", "no"}
CHECK_DEADLOCK FALSE
INVARIANTS
    EverySlotHeard
    NeverAhead
    ShownIsTraded
PROPERTIES
    ImplementsSwap
    SessionEnds
