SPECIFICATION Spec
CONSTANTS
    Bodies = {0, 2}
    Replies = {1}
    Fates = {"ok"}
    BufferSize = 15
    SendBuffer = 30
    MaxSent = 3
INVARIANT GoodClientServed
CHECK_DEADLOCK FALSE
