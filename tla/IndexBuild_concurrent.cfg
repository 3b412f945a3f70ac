SPECIFICATION Spec
CONSTANTS
    Paths <- TwoPlaces
    Boxes = {"inbox", "archive"}
    BoxOf <- InBox
    RowidOf <- Rowid
    MessageOf <- Rowid
    Excluded = {}
    Disks <- OneFile
    Ticking = {"watch"}
    Commanded = {"cli"}
    Full = {TRUE, FALSE}
    Polling = {FALSE}
    Changes = {"write", "tear", "move"}
    BATCH_SIZE = 1
    MaxClock = 3
    MaxFaults = 1
    MaxCommands = 1
INVARIANTS
    TextIsCurrent
CHECK_DEADLOCK FALSE
