SPECIFICATION FairSpec
CONSTANTS
    p1 = p1
    p2 = p2
    Producers <- MCProducers
    Consumer = consumer
    NoOwner = none
    MinCapacity = 2
    MaxInserts = 6
    MaxSpurious = 1
INVARIANTS
    GotStillQueued
    StaleOnlyPastCapacity
    LostToOlder
    Inductive
PROPERTIES
    ImplementsMailbox
    InsertCompletes
    SleeperIsWoken
    BacklogServed
CHECK_DEADLOCK FALSE
