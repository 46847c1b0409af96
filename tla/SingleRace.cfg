SPECIFICATION SingleSpec
CONSTANTS
    Workers = {"w1", "w2"}
    Owners = {"task-api-resume"}
    OwnerOf <- SharedNames
    NoOwner = ""
    Artifacts = {"none", "result", "error"}
    Reconcilers = {"r1"}
    MaxEpoch = 3
    Kind = "opencode"
    MaxCrashes = 1
    MaxStalls = 1
    IOFaults = FALSE
INVARIANTS
    SingleTypeOK
    ReadyIsValidated
    JournalledDispatch
    JournalBacksLog
PROPERTIES
    StoreSpec
CHECK_DEADLOCK FALSE
