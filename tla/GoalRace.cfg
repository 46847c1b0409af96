SPECIFICATION GoalSpec
CONSTANTS
    c1 = c1
    c2 = c2
    Callers = {c1, c2}
    Windows = {"w"}
    NoWindow = NoWindow
    Plans <- MixedPlans
    MaxRevision = 2
    MaxConcurrent = 1
    MaxTasks = 1
    MaxRetries = 1
    Metered = FALSE
    Policies <- FullPolicy
SYMMETRY Alike
INVARIANTS
    GoalTypeOK
    ClaimedAfterDependencies
    LinksFollowPlan
PROPERTIES
    ApprovedPlanIsFinal
CHECK_DEADLOCK FALSE
