SPECIFICATION Spec
CONSTANTS
    Conns = {c1, c2}
    Addresses = {m1, m2, m3}
    Prints = {f1, f2}
    Programs = {x1}
    NoAddress = NoAddress
    NoScope = NoScope
    NoPrint = NoPrint
    Never = Never
    Mode = "per_connection"
    Ttl = 1
    MaxTime = 1
    ReusesMemory = FALSE
    ClockJumps = TRUE
PROPERTIES ImplementsPolicy
CHECK_DEADLOCK FALSE
