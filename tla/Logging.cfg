SPECIFICATION Spec
CONSTANTS
    Other = other
    Texts = {hello}
    Page = 1
    Limit = 3
    Stores = {"sqlite", "plaintext"}
    PurgeOverlaps = FALSE
    Burst = 2
    MaxLog = 3
    Mishaps = 2
CHECK_DEADLOCK FALSE
INVARIANTS OnlyWanted DueIsTakenDown
PROPERTIES IsJournal Written
