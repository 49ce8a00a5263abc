SPECIFICATION FairSpec
CONSTANTS
    host = host
    console = console
    Peer <- MCPeer
    Quota <- MCQuota
    SeqSpace = 6
    Start = 5
    MaxInflight = 2
    MaskBits = 2
    NackThreshold = 1
    RetransmitLimit = 2
INVARIANTS
    Inv
    InOrderExactlyOnce
    DeliveryTracksAcks
    AckedWasReceived
    MaskCoversReceived
PROPERTIES
    ImplementsStream
    QueuedIsDelivered
