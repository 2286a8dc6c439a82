SPECIFICATION Spec

CONSTANTS
    Typed = {"arlyon", "bob", "BOB", "azerothazerothazeroth"}
    Upper <- MCUpper
    TooLong = {"azerothazerothazeroth"}
    Listable = {r1, r2}
    Durations = {1}
    MaxTime = 2
    MaxBans = 2
    Clients = {c1}
    MaxNonce = 1
    MaxCrashes = 0

PROPERTIES
    AllBansRefuse
    TermHonoured
    SuccessRepairsAll

SYMMETRY RealmSymmetry

\* A server whose listener has ended, and is not restarted, stops.
CHECK_DEADLOCK FALSE
