SPECIFICATION FairSpec
CONSTANTS
    Transport = {t1, t2}
    None = None
    Servers = {0, 1, 3}
    AttemptCap = 3
    Limits = {1, 3}
    TimerCap = 2
    Flavours = {"plain", "tauri", "websocket"}
CHECK_DEADLOCK FALSE
INVARIANTS NothingLoose
PROPERTIES BackoffKept EveryServerTried IsConnector StoppedForGood Recovers
