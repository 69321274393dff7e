SPECIFICATION Spec
CONSTANTS
    Users = {u1, u2}
    Workers = {w1, w2}
    Addrs = {a1, a2}
    Ports = {p1}
    NoAddr = NoAddr
    NoPort = NoPort
    NoRow = NoRow
    Amounts = {1}
    Scale = 1
    InitialBalance = 1
    Kept <- AllOffline
    MaxBalance = 3
SYMMETRY Symmetry
CONSTRAINTS
    SmallBalances
    OwnConnections
INVARIANTS
    NoMoneyMadeAtRest
CHECK_DEADLOCK FALSE
