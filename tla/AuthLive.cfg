SPECIFICATION FairSpec

CONSTANTS
    Typed = {"ARLYON"}
    Upper <- MCUpper
    TooLong = {}
    Listable = {}
    Durations = {1}
    MaxTime = 1
    MaxBans = 0
    Clients = {c1, c2}
    MaxNonce = 2
    MaxCrashes = 1

PROPERTIES
    RequestAnswered
    QueuedServed

\* A server whose listener has ended, and is not restarted, stops.
CHECK_DEADLOCK FALSE
