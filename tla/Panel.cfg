SPECIFICATION Spec
CONSTANTS
    Channels = {a, b}
    Unselected = none
    Past = {a}
    ModesPerCommand = 2
    MaxSteps = 6
    MaxChanges = 1
CHECK_DEADLOCK FALSE
INVARIANTS AgreesWithServer PendingIsTouched
