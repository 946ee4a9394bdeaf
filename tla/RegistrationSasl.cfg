SPECIFICATION FairSpec
CONSTANTS
    Caps = {sasl, echo}
    Sasl = sasl
    Auth = "sasl"
    Scram = TRUE
    AltNicks = 1
    Room = 1
    MaxTaken = 1
    Connections = 2
    Changes = 1
    SlowAwaits = FALSE
    SteadyOffer = TRUE
CHECK_DEADLOCK FALSE
INVARIANTS RegisteredIsWelcomed ExchangeKept
PROPERTIES RegistersUnauthenticated
