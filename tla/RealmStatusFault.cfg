SPECIFICATION FairSpec

CONSTANTS
    Realms = {1}
    Period = 2
    Timeout = 6
    MaxLost = 3
    MaxStops = 1
    MaxErrors = 1
    MaxRestarts = 0

PROPERTIES
    StoppedOffline
