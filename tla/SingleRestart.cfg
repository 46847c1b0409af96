SPECIFICATION FairSingleSpec
CONSTANTS
    Workers = {"w1"}
    Owners = {"task-api-resume"}
    OwnerOf <- SharedNames
    NoOwner = ""
    Artifacts = {"none", "result", "error"}
    Reconcilers = {"r1"}
    MaxEpoch = 5
    Kind = "opencode"
    MaxCrashes = 2
    MaxStalls = 1
    IOFaults = FALSE
PROPERTIES
    EventuallySettled
CHECK_DEADLOCK FALSE
