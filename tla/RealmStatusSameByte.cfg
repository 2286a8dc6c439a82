SPECIFICATION FairSpec

CONSTANTS
    Realms = {1, 257}
    Period = 2
    Timeout = 6
    MaxLost = 0
    MaxStops = 1
    MaxErrors = 0
    MaxRestarts = 0

PROPERTIES
    StoppedOffline
