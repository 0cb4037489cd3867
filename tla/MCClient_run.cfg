SPECIFICATION FairSpec
CONSTANTS
    MaxTyped = 3
    MaxTexts = 2
INVARIANTS
    ClientTypeOK
    EndsInOrder
    OnlyEarlyWritesUnprepared
PROPERTY LoopStops
CHECK_DEADLOCK FALSE
