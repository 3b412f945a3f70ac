SPECIFICATION Spec
CONSTANTS
    Requests <- AllRequests
    Subjects <- TwoSubjects
    Names <- TwoNames
    None = None
    InitDrafts <- SomeDrafts
    InitRules <- SomeRules
    Matches <- SubjectsWith
    EmlMaxAge = 1
    Faults = {"fail", "timeout", "restart"}
    MaxCalls = 2
    MaxUser = 1
    MaxFaults = 2
    MaxClock = 2
INVARIANTS
    TypeOK
    OneEffectPerCall
    OnlyAdmittedCallsAct
    SuccessMeansDone
PROPERTIES
    FreshEmlSurvives
CHECK_DEADLOCK FALSE
