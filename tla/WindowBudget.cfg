SPECIFICATION BudgetSpec
CONSTANTS
    Tasks = {"t1", "t2"}
    FixtureTasks = {"t2"}
    c1 = c1
    c2 = c2
    Coordinators = {c1, c2}
    m1 = m1
    m2 = m2
    Messages = {m1, m2}
    Usages <- TaskUsages
    MaxConcurrent = 2
    MaxTasks = 2
    MaxRetries = 1
    MaxUnits <- Limits
    PerTask <- Reservations
    NoOne = NoOne
SYMMETRY Alike
INVARIANTS
    BudgetTypeOK
    ClaimIsBacked
    NeverOvercommitted
    UsageIsExact
PROPERTIES
    ClaimIsKept
CHECK_DEADLOCK FALSE
