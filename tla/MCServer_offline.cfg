SPECIFICATION ServerSpec
CONSTANTS
    ann = ann
    bob = bob
    none = none
    s1 = s1
    s2 = s2
    x = x
    y = y
    noPswd = noPswd
    noStream = noStream
    Name <- MCName
    Pswd <- MCPswd
    Hash <- MCHash
    Stream <- MCStream
    MaxClients = 2
    NoName = none
    NoPswd = noPswd
    NoStream = noStream
    Request <- MCRequest
    MaxAccepts = 1
    MaxReads = 1
INVARIANT DisconnectedGoesOffline
CHECK_DEADLOCK FALSE
