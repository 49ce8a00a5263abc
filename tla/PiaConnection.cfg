SPECIFICATION FairSpec
CONSTANTS
    Modes <- MCModes
CHECK_DEADLOCK FALSE
INVARIANT
    StagesInStep
PROPERTY
    ComesUp
