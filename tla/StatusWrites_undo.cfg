SPECIFICATION FairSpec
CONSTANTS
    Ids <- TwoIds
    Colors <- TwoColors
    BatchLimit <- Limits
    RequireConfirm <- NoConfirm
    InitMail <- Mixed
    UserSets <- SomeSets
    Requests <- AllRequests
    Faults = {"fail", "timeout", "unresolved", "locked", "restart"}
    MaxCalls = 3
    MaxUser = 1
    MaxFaults = 1
    None = None
INVARIANTS
    TypeOK
PROPERTIES
    UndoneMeansRestored
    PriorColorIsPrior
    ReadFlagSettles
CHECK_DEADLOCK FALSE
