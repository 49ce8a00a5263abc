SPECIFICATION Spec
CONSTANTS
    leader1 = leader1
    leader2 = leader2
    joiner1 = joiner1
    joiner2 = joiner2
    LeaderMons <- MCLeaderMons
    JoinerMons <- MCJoinerMons
    Offered <- OneTrade
    Decline = TRUE
    Refused = {}
    Route = 2
    BlockFrames = 3
    InitiateTimeout = 10
    IdleTimeout = 4
    MaxEmits = 2
    SaveRounds = 2
    SaveWrite = 2
    SeatIdle = 4
    Settle = 6
    SilenceLimit = 1
    OutstandingMax = 3
    UplinkMax = 1
    Repeats = 0
    Extra = 1
    Answer = {"yes"}
CHECK_DEADLOCK FALSE
INVARIANTS
    DeclineLeaves
