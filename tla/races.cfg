SPECIFICATION Spec
CONSTANTS
    Users = {u1, u2}
    Workers = {w1, w2}
    Addrs = {a1, a2}
    Ports = {p1}
    NoAddr = NoAddr
    NoPort = NoPort
    NoRow = NoRow
    Amounts <- HalfAmounts
    Scale = 2
    InitialBalance = 2
    Kept = {}
    MaxBalance = 3
SYMMETRY Symmetry
CONSTRAINT SmallBalances
INVARIANTS
    TypeOK
    NoOverdraft
    NoTornRow
PROPERTIES
    RegistrationIsPermanent
CHECK_DEADLOCK FALSE
