SPECIFICATION Spec
CONSTANTS
    Networks = {m, n}
    MaxChanges = 6
    MaxMoves = 3
CHECK_DEADLOCK FALSE
INVARIANTS NoticeTrue StaysHeld
PROPERTIES HeldInFront
