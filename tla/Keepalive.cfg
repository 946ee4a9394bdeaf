SPECIFICATION KeepaliveSpec
CONSTANTS
    Idle = 5
    Timeout = 3
    TickEvery = 2
    Jump = 4
    Answer = 2
INVARIANTS WatchHolds FoundOutOnWaking AnsweringServerKept
