SPECIFICATION Spec
CONSTANTS
    d1 = d1
    d2 = d2
    Data <- MCData
    ZeroData = zero
    MinCapacity = 3
    MaxSize = 4
    PastEnd = 2
SYMMETRY MCSymmetry
INVARIANTS
    TypeOK
    ListValid
    SpaceBounded
    ShrinkKeepsContents
PROPERTIES
    InsertKeepsNodes
    ImplementsListSpec
    OperationsAreExact
CHECK_DEADLOCK FALSE
