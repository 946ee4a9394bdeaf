SPECIFICATION ChannelSpec
CONSTANTS
    Nicks = {anna, ben, cleo}
    Modes = {op}
    Amid = {"JOIN", "MODE"}
    Connections = 2
    MaxLines = 3
    MaxPending = 2
SYMMETRY Symmetry
INVARIANTS MembersAgree MarksHold
