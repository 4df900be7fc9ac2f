\* Three starts and two stops; the reconnection is switched on and off.
SPECIFICATION FairSpec
CONSTANTS
    MaxRuns = 3
    MaxStops = 2
    MaxAttempts = 1
INVARIANTS
    RunningMeansCoreUp
    StoppedIsQuiet
    OnePoller
PROPERTIES
    PollEnds
    SingleStartEnds
CHECK_DEADLOCK FALSE
