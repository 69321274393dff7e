SPECIFICATION OrderlySpec
CONSTANTS
    Users = {u1, u2}
    KeptUsers = {}
    Workers = {w1, w2}
    Conns = {c1, c2, c3}
    Amounts = {1}
    InitialBalance = 1
    NoUser = NoUser
    NoConn = NoConn
    NoSession = NoSession
    Faults = {}
    SocketBuffer = 2
    MaxFds = 3
SYMMETRY ServerSymmetry
INVARIANTS
    TypeOK
    SessionHasEntry
    AnswersFit
    NobodyLeftOnline
    LoginsAreTrue
CHECK_DEADLOCK FALSE
