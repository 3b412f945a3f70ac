SPECIFICATION FairSpec
CONSTANTS
    Paths <- TwoPlaces
    Boxes = {"inbox", "archive"}
    BoxOf <- InBox
    RowidOf <- Rowid
    MessageOf <- Rowid
    Excluded = {}
    Disks <- OneFile
    Ticking = {"watch"}
    Commanded = {}
    Full = {TRUE, FALSE}
    Polling = {TRUE}
    Changes = {"write", "move"}
    BATCH_SIZE = 2
    MaxClock = 4
    MaxFaults = 0
    MaxCommands = 0
PROPERTIES
    TextCatchesUp
CHECK_DEADLOCK FALSE
