SPECIFICATION FairPublicationSpec
CONSTANTS
    Callers = {"c1", "c2", "c3"}
    Digests = {"d1", "d2"}
    RequestOf <- Requests
    NoDigest = ""
    MaxFaults = 1
INVARIANTS
    PublicationTypeOK
    PublishedIsPushed
PROPERTIES
    CommittedOnce
    RecordedCommitCompletes
CHECK_DEADLOCK FALSE
