SPECIFICATION Spec
CONSTANTS
  Accounts <- MCAccounts
  Names <- MCNames
  Boxes <- MCBoxes
  Nested = {}
  Copies <- Single
  Ids <- MCIds
  IdOf <- MCIdOf
  SenderOf <- MCSenderOf
  None = None
  Gone = Gone
  BatchLimit <- MCBatchLimit
  RequireConfirm <- MCRequireConfirm
  Workers = {w1}
  Requests <- QuietRequests
  Trash = "trash"
  MaxBatches = 3
  InitAt <- MCInitAt
  Faults = {"locked", "restart"}
  MaxCalls = 4
  MaxUser = 0
  MaxFaults = 2
INVARIANTS
  UndoAllRestores
  UndisturbedUndoSucceeds
PROPERTIES
  UndoneMeansRestored
CHECK_DEADLOCK FALSE
