SPECIFICATION FairSpec
CONSTANTS
    apple_nl = apple_nl
    minilm = minilm
    minilm_other = minilm_other
    Backends <- Models
    Record <- NameAndDimension
    None = None
    MaxId = 2
    BATCH_SIZE = 2
    MAX_BATCHES = 2
    Reverts = FALSE
    MaxChanges = 3
    MaxRestarts = 2
    MaxFails = 1
INVARIANTS
    TypeOK
    DoneMeansCurrent
PROPERTIES
    BackfillDrains
CHECK_DEADLOCK FALSE
