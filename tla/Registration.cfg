SPECIFICATION FairSpec
CONSTANTS
    Caps = {sasl, echo}
    Sasl = sasl
    Auth = "password"
    Scram = FALSE
    AltNicks = 1
    Room = 2
    MaxTaken = 3
    Connections = 1
    Changes = 2
    SlowAwaits = TRUE
    SteadyOffer = FALSE
CHECK_DEADLOCK FALSE
INVARIANTS Agrees AsksInOrder
PROPERTIES Registers
