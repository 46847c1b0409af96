SPECIFICATION FairCoordSpec
CONSTANTS
    Tasks = {1, 2, 3}
    FixtureTasks = {1}
    Coordinators = {"h1"}
    Messages = {}
    Usages = {}
    MaxConcurrent = 2
    MaxTasks = 2
    MaxRetries = 1
    MaxUnits <- NoLimits
    PerTask <- NoLimits
    NoOne = "none"
    Goals = {"g1", "g2"}
    GoalOf <- TwoGoals
    Deps <- Chain
    Policies <- BothPolicies
    Watched = {"g1"}
    ByHand = {1}
    MaxFaults = 1
PROPERTIES
    StopEndsThread
    QueueDrains
CHECK_DEADLOCK FALSE
