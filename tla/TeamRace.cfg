SPECIFICATION FairTeamSpec
CONSTANTS
    Workers = {"w1", "w2"}
    Owners = {"task-api-resume"}
    OwnerOf <- SharedNames
    NoOwner = ""
    Artifacts <- TeamArtifacts
    Reconcilers = {"r1"}
    MaxEpoch = 3
    Products = {0, 1}
    Handoffs = {"h1"}
    NoHandoff = ""
    MaxCrashes = 1
    MaxStalls = 0
INVARIANTS
    TeamTypeOK
    ReviewedIsCoded
PROPERTIES
    StoreSpec
    EventuallyTeamSettled
CHECK_DEADLOCK FALSE
