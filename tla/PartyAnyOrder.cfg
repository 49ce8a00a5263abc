SPECIFICATION Spec
CONSTANTS
    Rounds = 2
    ChildFrags = 2
    HostFrags = 2
    WatchdogInit = 1
    HoldGap = 1
    Settle = 6
    OutstandingMax = 2
    ChildWindow = 2
    SlotCreditMax = 1
    QuietMax = 1
    LateMax = 1
INVARIANT
    TransferInAnyOrder
