\* Two resets asked for by the user or the application, two power cuts, one lost connection.
SPECIFICATION FairSpec
CONSTANTS
    MaxTimes = 2
    MaxAsks = 2
    MaxCrashes = 2
    MaxWire = 1
    MaxDrops = 1
INVARIANT ClearedMeansTold
PROPERTIES RestoreIsAskedFor ResetIsTold
CHECK_DEADLOCK FALSE
