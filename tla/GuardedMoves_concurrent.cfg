SPECIFICATION FairSpec
CONSTANTS
  Accounts <- MCAccounts
  Names <- PairNames
  Boxes <- PairBoxes
  Nested = {}
  Copies <- Duplicated
  Ids <- MCIds
  IdOf <- MCIdOf
  SenderOf <- MCSenderOf
  None = None
  Gone = Gone
  BatchLimit <- MCBatchLimit
  RequireConfirm <- MCRequireConfirm
  Workers = {w1, w2}
  Requests <- PairRequests
  Trash = "trash"
  MaxBatches = 1
  InitAt <- PairInitAt
  Faults = {}
  MaxCalls = 3
  MaxUser = 0
  MaxFaults = 0
INVARIANTS
  
  JournalTellsOrigin
PROPERTIES
  CallsEnd
CHECK_DEADLOCK FALSE
