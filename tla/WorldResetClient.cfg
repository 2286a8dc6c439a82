SPECIFICATION Spec
CONSTANTS
    Conns = {c1}
    Accounts = {a1}
    Names = {Arlyon}
    Proper = {Arlyon}
    NoAccount = NoAccount
    MaxPackets = 1
    MaxChars = 1
    MaxStops = 1
    MaxPanics = 0
INVARIANT ServerKeepsRunning
CHECK_DEADLOCK FALSE
