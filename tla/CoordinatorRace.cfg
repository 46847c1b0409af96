SPECIFICATION CoordSpec
CONSTANTS
    Tasks = {1, 2}
    FixtureTasks = {1}
    h1 = h1
    h2 = h2
    Coordinators = {h1, h2}
    Messages = {}
    Usages = {}
    MaxConcurrent = 1
    MaxTasks = 2
    MaxRetries = 1
    MaxUnits <- NoLimits
    PerTask <- NoLimits
    NoOne = NoOne
    Goals = {"g1"}
    GoalOf <- OneGoal
    Deps <- NoDeps
    Policies <- FullPolicy
    Watched = {}
    ByHand = {1, 2}
    MaxFaults = 0
SYMMETRY Hosts
INVARIANTS
    CoordTypeOK
    WipPerHost
    IdleHoldsNothing
    ExecutionsArePaid
PROPERTIES
    BudgetSpec
CHECK_DEADLOCK FALSE
