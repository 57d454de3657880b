CONSTANTS
    p1 = p1
    p2 = p2
    h1 = h1
    h2 = h2
    Months = {1, 2}
    Rent = 2
    LateFee = 1
    GraceDays = 1
    MonthDays = 2
    MaxDay = 4
    Online = {p1}
    Offline = {p2}
    Amount <- MCAmount
    Handlers = {h1, h2}
    Faults <- Worlds
SPECIFICATION Spec
SYMMETRY Sym
CHECK_DEADLOCK FALSE
INVARIANTS ChargeConsistent FifoPrefix
PROPERTIES AllocationIsAtomic ImplementsAccount
