SPECIFICATION FairSpec
CONSTANTS
    Conns = {c1, c2}
    Accounts = {a1}
    Names = {Arlyon, arlyon}
    Proper = {Arlyon}
    NoAccount = NoAccount
    MaxPackets = 2
    MaxChars = 2
    MaxStops = 1
    MaxPanics = 1
INVARIANTS
    TypeOK
    HeadersInOrder
    NamesUnique
    QueuedHasSession
PROPERTIES
    PacketsHandled
CHECK_DEADLOCK FALSE
