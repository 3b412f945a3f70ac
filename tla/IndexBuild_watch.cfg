SPECIFICATION FairSpec
CONSTANTS
    Paths <- ThreePlaces
    Boxes = {"inbox", "archive", "drafts"}
    BoxOf <- InThree
    RowidOf <- RowidThree
    MessageOf <- RowidThree
    Excluded = {"drafts"}
    Disks <- OneOfThree
    Ticking = {"watch"}
    Commanded = {}
    Full = {TRUE, FALSE}
    Polling = {TRUE, FALSE}
    Changes = {"write", "tear", "move", "remove"}
    BATCH_SIZE = 2
    MaxClock = 4
    MaxFaults = 1
    MaxCommands = 0
INVARIANTS
    TypeOK
    SearchFollowsRows
PROPERTIES
    IndexCatchesUp
    DeadLettersClear
    StatusCatchesUp
CHECK_DEADLOCK FALSE
