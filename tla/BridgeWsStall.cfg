\* The client stops reading and keeps its socket open.
SPECIFICATION FairSpec
PROPERTIES
    CancelEndsBridge
CHECK_DEADLOCK FALSE
