SPECIFICATION FairSpec
CONSTANTS
    Watchers = {"watcher"}
    Tools = {"tool1", "tool2"}
    Commands = {}
    Requests <- ToolRequests
    Connections = {"watch", "server", "cli"}
    ConnOf <- ServerAndCommand
    Backfills = {"embed", "extract"}
    Polling = TRUE
    MaxTimeouts = 2
    MaxRaises = 1
    None = None
INVARIANTS
    TypeOK
PROPERTIES
    LockComesFree
    WatchGoesOn
