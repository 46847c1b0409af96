SPECIFICATION SingleSpec
CONSTANTS
    Workers = {"w1"}
    Owners = {"task-api-resume"}
    OwnerOf <- SharedNames
    NoOwner = ""
    Artifacts = {"none", "result", "error"}
    Reconcilers = {"r1"}
    MaxEpoch = 2
    Kind = "opencode"
    MaxCrashes = 1
    MaxStalls = 0
    IOFaults = FALSE
INVARIANTS
    DispatchedOnce
CHECK_DEADLOCK FALSE
