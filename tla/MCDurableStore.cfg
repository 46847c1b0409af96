SPECIFICATION StoreSpec
CONSTANTS
    api1 = api1
    api2 = api2
    Workers = {api1, api2}
    Owners = {"task-api-resume"}
    OwnerOf <- SharedNames
    NoOwner = ""
    Artifacts = {"a"}
    Reconcilers = {"r1", "r2"}
    MaxEpoch = 3
INVARIANTS
    TypeOK
    CheckpointLog
    InterruptedIsResumable
    CancelledNeverRan
PROPERTIES
    TerminalIsFinal
    LiveLeaseIsKept
    FencedLogSpec
CHECK_DEADLOCK FALSE
