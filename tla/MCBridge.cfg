\* Every interleaving of the tasks of one bridge, over either transport.
SPECIFICATION HFairSpec
INVARIANTS
    TornOnlyAtEnd
    LateWritesBounded
PROPERTIES
    ImplementsBridge
    OneSideEndsEither
    CancelEndsEither
CHECK_DEADLOCK FALSE
