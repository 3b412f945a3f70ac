SPECIFICATION Spec
CONSTANTS
  Accounts <- MCAccounts
  Names <- MCNames
  Boxes <- MCBoxes
  Nested = {}
  Copies <- Duplicated
  Ids <- MCIds
  IdOf <- MCIdOf
  SenderOf <- MCSenderOf
  None = None
  Gone = Gone
  BatchLimit <- MCBatchLimit
  RequireConfirm <- MCRequireConfirm
  Workers = {w1}
  Requests <- AllRequests
  Trash = "trash"
  MaxBatches = 1
  InitAt <- MCInitAt
  Faults = {"timeout", "locked", "restart"}
  MaxCalls = 2
  MaxUser = 1
  MaxFaults = 1
INVARIANTS
  TypeOK
  BatchLimitBoundsDamage
  OneCopyPerRequest
  SuccessIsUndoable
  JournalTellsOrigin
  OnlyAdmittedCallsTouchMail
  EveryIdAccounted
CHECK_DEADLOCK FALSE
