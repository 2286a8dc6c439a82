SPECIFICATION Spec

CONSTANTS
    Typed = {"ARLYON"}
    Upper <- MCUpper
    TooLong = {}
    Listable = {}
    Durations = {0, 1}
    MaxTime = 3
    MaxBans = 1
    Clients = {c1}
    MaxNonce = 1
    MaxCrashes = 0

PROPERTIES
    TermHonoured

CHECK_DEADLOCK FALSE
