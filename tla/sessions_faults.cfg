SPECIFICATION Spec
CONSTANTS
    Users = {u1}
    KeptUsers = {u1}
    Workers = {w1, w2}
    Conns = {c1, c2}
    Amounts = {1}
    InitialBalance = 1
    NoUser = NoUser
    NoConn = NoConn
    NoSession = NoSession
    Faults = {"busy", "depart", "interrupt", "relogin"}
    SocketBuffer = 1
    MaxFds = 2
SYMMETRY ServerSymmetry
CONSTRAINT FewEntries
INVARIANTS
    OneSessionPerUser
CHECK_DEADLOCK FALSE
