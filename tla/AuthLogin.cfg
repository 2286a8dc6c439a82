SPECIFICATION Spec

CONSTANTS
    Typed = {"ARLYON", "bob"}
    Upper <- MCUpper
    TooLong = {}
    Listable = {}
    Durations = {1}
    MaxTime = 1
    MaxBans = 0
    Clients = {c1, c2}
    MaxNonce = 3
    MaxCrashes = 1

INVARIANTS
    TypeOK
    ReloginKeyFresh
    ArlyonKeyStored

PROPERTIES
    ImplementsChallengeResponse

SYMMETRY ClientSymmetry

\* A server whose listener has ended, and is not restarted, stops.
CHECK_DEADLOCK FALSE
