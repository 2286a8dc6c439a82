SPECIFICATION Spec

CONSTANTS
    Typed = {"ARLYON"}
    Upper <- MCUpper
    TooLong = {}
    Listable = {}
    Durations = {1, 2}
    MaxTime = 3
    MaxBans = 2
    Clients = {c1}
    MaxNonce = 1
    MaxCrashes = 0

PROPERTIES
    BanInForceRefused

CHECK_DEADLOCK FALSE
