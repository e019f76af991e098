\* Three tokens, so that three contexts can wait in a cycle: some minutes long.
CONSTANTS
    Contexts = {c1, c2, c3}
    Apps = {a1}
    None = None
    MaxDraws = 3
    MaxWaits = 3
SPECIFICATION FairSpec
CHECK_DEADLOCK FALSE
INVARIANT TypeOK
PROPERTIES WaitsSound WaitsEnd
