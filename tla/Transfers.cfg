SPECIFICATION Spec
CONSTANTS
    Packs = {p}
    Names = {f}
    Size = 2
    Attempts = {a1, a2}
    File = f
    Passive = {FALSE, TRUE}
    Private = {FALSE, TRUE}
    Asks = 2
    Acts = 2
CHECK_DEADLOCK FALSE
INVARIANTS RowsTell FetchesAsAsked
PROPERTIES EndsWell
