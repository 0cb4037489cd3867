SPECIFICATION WireSpec
CONSTANTS
    Byte <- MCByte
    IntSize = 2
    IndexSize = 1
    NameSize = 3
    MsgSize = 6
    User <- MCUser
    Secret <- MCSecret
    Line <- MCLine
    Owner <- MCOwner
    Stat <- MCStat
    MaxSent = 2
INVARIANTS
    WireTypeOK
    CutsOnlyTruncate
    CrashNeedsStray
    NamesSurvive
PROPERTY ImplementsChannel
CHECK_DEADLOCK FALSE
