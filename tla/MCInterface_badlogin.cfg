SPECIFICATION Spec
CONSTANTS
    ann = ann
    bob = bob
    eve = eve
    kim = kim
    none = none
    s1 = s1
    s2 = s2
    x = x
    y = y
    noPswd = noPswd
    Name <- MCName
    Pswd <- MCPswd
    Hash <- MCHash
    Stream <- MCStream
    MaxClients = 2
    NoName = none
    NoPswd = noPswd
    NoStream = noStream
INVARIANT BadLogInAnswered
CHECK_DEADLOCK FALSE
