SPECIFICATION HistorySpec
CONSTANTS
    Other = other
    Texts = {hello, bye}
    Repeats = FALSE
    Page = 2
    Limit = 4
    Retries = TRUE
    Refuses = TRUE
    Earlier = 2
    Sends = 2
    MaxLog = 3
    Connections = 2
CHECK_DEADLOCK FALSE
INVARIANTS ShownIsWhole Confirmed InFlight
