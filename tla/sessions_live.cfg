SPECIFICATION FairSpec
CONSTANTS
    Users = {u1, u2}
    KeptUsers = {u1, u2}
    Workers = {w1, w2}
    Conns = {c1, c2}
    Amounts = {1}
    InitialBalance = 0
    NoUser = NoUser
    NoConn = NoConn
    NoSession = NoSession
    Faults = {}
    SocketBuffer = 2
    MaxFds = 2
PROPERTIES
    CommandsAnswered
    PaymentsAnswered
CHECK_DEADLOCK FALSE
