SPECIFICATION FairSpec
CONSTANTS
    Bodies = {0, 2}
    Replies = {1}
    Fates = {"ok", "unknown", "rejected", "panics"}
    BufferSize = 15
    SendBuffer = 13
    MaxSent = 3
INVARIANTS
    TypeOK
    DeliveredAsSent
    PanicExplained
    SeenUntilCut
PROPERTIES
    SentIsDelivered
CHECK_DEADLOCK FALSE
