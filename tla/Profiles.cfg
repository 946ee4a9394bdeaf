SPECIFICATION Spec
CONSTANTS
    Networks = {m, n}
    Refs = {r, s}
    Passwords = {p, q}
    Acts = 3
CHECK_DEADLOCK FALSE
INVARIANTS FileIsHeld SessionsAsAsked SecretsServe
PROPERTIES NothingNeededGoes
