\* The first start fails with the reconnection switched on.
SPECIFICATION FairSpec
CONSTANTS
    MaxRuns = 2
    MaxStops = 1
    MaxAttempts = 1
PROPERTIES
    StartingEnds
CHECK_DEADLOCK FALSE
