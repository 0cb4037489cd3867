SPECIFICATION FairSpec
CONSTANTS
    p1 = p1
    p2 = p2
    Producers <- MCProducers
    Consumer = consumer
    NoOwner = none
    MinCapacity = 1
    MaxInserts = 3
    MaxSpurious = 1
PROPERTY
    BacklogDrained
CHECK_DEADLOCK FALSE
