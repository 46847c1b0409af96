SPECIFICATION SingleSpec
CONSTANTS
    Workers = {"w1", "w2"}
    Owners = {"task-api-resume"}
    OwnerOf <- SharedNames
    NoOwner = ""
    Artifacts = {"none", "result", "error"}
    Reconcilers = {"r1"}
    MaxEpoch = 3
    Kind = "deterministic_fixture"
    MaxCrashes = 1
    MaxStalls = 0
    IOFaults = TRUE
INVARIANTS
    ReadyIsValidated
    SuccessIsDurable
CHECK_DEADLOCK FALSE
