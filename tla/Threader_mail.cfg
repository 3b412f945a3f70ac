SPECIFICATION Spec
CONSTANTS
    A1 = A1
    A2 = A2
    A3 = A3
    B1 = B1
    B2 = B2
    None = None
    Mids <- FiveMids
    Subjects = {"s", "t"}
    Mail <- Letters
    AnswerTo <- Answers
    MaxRows = 3
    MaxRemovals = 1
INVARIANTS
    TypeOK
    Forest
    EachMessageNumberedOnce
    ConversationsComeTogether
    ReadBackWhole
PROPERTIES
    ImplementsConversations
CHECK_DEADLOCK FALSE
