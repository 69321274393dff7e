SPECIFICATION FairSpec
CONSTANTS
    Clients = {c1, c2}
    Users = {u1, u2}
    Ports = {p1, p2}
    NoUser = NoUser
    NoPort = NoPort
    MaxInbox = 1
INVARIANTS
    ClientTypeOK
    OpenIsTrue
PROPERTIES
    PayersAnswered
CHECK_DEADLOCK FALSE
