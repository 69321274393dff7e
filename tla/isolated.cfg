SPECIFICATION IsolatedSpec
CONSTANTS
    Users = {u1, u2, u3}
    Workers = {w1, w2}
    Addrs = {a1, a2}
    Ports = {p1}
    NoAddr = NoAddr
    NoPort = NoPort
    NoRow = NoRow
    Amounts <- SignedAmounts
    Scale = 2
    InitialBalance = 1
    Kept = {}
    MaxBalance = 3
SYMMETRY Symmetry
INVARIANTS
    NoMoneyMade
PROPERTIES
    ActsAsBank
    LossHasCause
CHECK_DEADLOCK FALSE
