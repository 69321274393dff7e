SPECIFICATION LifeSpec
CONSTANTS
    Users = {u1, u2}
    Workers = {w1, w2}
    Addrs = {a1, a2}
    Ports = {p1}
    NoAddr = NoAddr
    NoPort = NoPort
    NoRow = NoRow
    Amounts = {1}
    Scale = 2
    InitialBalance = 1
    Kept = {}
SYMMETRY LifeSymmetry
CONSTRAINT FewTransfers
INVARIANTS
    LifeTypeOK
    NoTornRow
    OnlineIsExplained
PROPERTIES
    RegistrationsKept
    OnlyRegistrationsEnter
CHECK_DEADLOCK FALSE
