SPECIFICATION FairGoalSpec
CONSTANTS
    c1 = c1
    Callers = {c1}
    Windows = {"w"}
    NoWindow = NoWindow
    Plans <- ForkedPlans
    MaxRevision = 1
    MaxConcurrent = 2
    MaxTasks = 3
    MaxRetries = 1
    Metered = TRUE
    Policies <- BothPolicies
PROPERTIES
    EventuallyDriven
CHECK_DEADLOCK FALSE
