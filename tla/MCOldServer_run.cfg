SPECIFICATION OldSpec
CONSTANTS
    ann = ann
    bob = bob
    carl = carl
    c1 = c1
    c2 = c2
    x = x
    Name <- MCName
    NoName = none
    Pswd <- MCPswd
    NoPswd = noPswd
    Connection <- MCConnection
    NULL = NULL
    MAX_CONNECTIONS = 3
    IN_WAIT = 3
    MaxMail = 1
SYMMETRY MCSymmetry
INVARIANTS
    TableConsistent
    OnlySharedAreInherited
    MailAtOrBeforeAddressee
PROPERTY NamesKept
CHECK_DEADLOCK FALSE
