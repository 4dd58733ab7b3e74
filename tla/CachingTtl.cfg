SPECIFICATION Spec
CONSTANTS
    Conns = {c1, c2}
    Addresses = {m1, m2}
    Prints = {f1, f2}
    Programs = {x1, x2}
    NoAddress = NoAddress
    NoScope = NoScope
    NoPrint = NoPrint
    Never = Never
    Mode = "ttl"
    Ttl = 2
    MaxTime = 3
    ReusesMemory = TRUE
    ClockJumps = FALSE
INVARIANTS TypeOK
PROPERTIES ImplementsPolicy
