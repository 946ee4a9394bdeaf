SPECIFICATION Spec
CONSTANTS
    Nicks = {x}
    Conns = {1, 2}
    Mechanisms = {"monitor", "watch", "poll"}
    Limit = 1
    Window = 1
    MaxLine = 2
    Acts = 3
CHECK_DEADLOCK FALSE
INVARIANTS ListsAgree
PROPERTIES BecomesKnown LetGo
