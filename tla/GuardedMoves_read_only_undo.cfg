SPECIFICATION Spec
CONSTANTS
  Accounts <- MCAccounts
  Names <- MCNames
  Boxes <- MCBoxes
  Nested = {}
  Copies = {"c1"}
  Ids <- OneId
  IdOf <- MCIdOf
  SenderOf <- MCSenderOf
  None = None
  Gone = Gone
  BatchLimit <- MCBatchLimit
  RequireConfirm <- MCRequireConfirm
  Workers = {w1}
  Requests <- MoveAndUndo
  Trash = "trash"
  MaxBatches = 1
  InitAt <- MCInitAt
  Faults = {"restart"}
  MaxCalls = 2
  MaxUser = 0
  MaxFaults = 1
PROPERTY
  ReadOnlyLeavesMailAlone
CHECK_DEADLOCK FALSE
