SPECIFICATION Spec
CONSTANTS
    Bodies = {0}
    Replies = {1}
    Fates = {"ok"}
    BufferSize = 15
    SendBuffer = 13
    MaxSent = 2
INVARIANT SeenAsWritten
CHECK_DEADLOCK FALSE
