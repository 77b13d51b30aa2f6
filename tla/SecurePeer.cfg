SPECIFICATION FairSpec
CONSTANTS
    MaxUser = 4
    MaxNetwork = 4
INVARIANTS
    Inv
    EraseJustified
    NoStalledRecord
PROPERTIES
    ReadLeaves
    AnswerTaken
CHECK_DEADLOCK FALSE
