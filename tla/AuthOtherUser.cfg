SPECIFICATION Spec

CONSTANTS
    Typed = {"ARLYON", "bob"}
    Upper <- MCUpper
    TooLong = {}
    Listable = {}
    Durations = {1}
    MaxTime = 1
    MaxBans = 0
    Clients = {c1}
    MaxNonce = 2
    MaxCrashes = 0

INVARIANTS
    LoginStoresKey

CHECK_DEADLOCK FALSE
