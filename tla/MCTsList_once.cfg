SPECIFICATION Spec
CONSTANTS
    p1 = p1
    p2 = p2
    Producers <- MCProducers
    Consumer = consumer
    NoOwner = none
    MinCapacity = 2
    MaxInserts = 3
    MaxSpurious = 1
INVARIANT HandledOnce
CHECK_DEADLOCK FALSE
