SPECIFICATION FairSpec

CONSTANTS
    Realms = {1, 258}
    Period = 2
    Timeout = 6
    MaxLost = 4
    MaxStops = 1
    MaxErrors = 1
    MaxRestarts = 1

INVARIANTS
    TypeOK
    RecommendedIsTracked

PROPERTIES
    LossesTolerated
    RunningRecommended
    StoppedOfflineIfNoFault
