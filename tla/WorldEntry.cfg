SPECIFICATION EntrySpec

CONSTANTS
    Typed = {"ARLYON"}
    Upper <- MCUpper
    TooLong = {}
    Listable = {}
    Durations = {1}
    MaxTime = 1
    MaxBans = 0
    Clients = {c1, c2}
    MaxNonce = 2
    MaxCrashes = 1
    RealmIds = {1, 257}

INVARIANTS
    EntryTypeOK
    EntryLinearizable
    StayingClientEnters

\* A server whose listener has ended stops.
CHECK_DEADLOCK FALSE
