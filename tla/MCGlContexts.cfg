\* Two tokens: two contexts wait for each other, a third and a thread without a
\* context for one of them.
CONSTANTS
    Contexts = {c1, c2, c3}
    Apps = {a1}
    None = None
    MaxDraws = 2
    MaxWaits = 3
SPECIFICATION FairSpec
CHECK_DEADLOCK FALSE
INVARIANT TypeOK
PROPERTIES WaitsSound WaitsEnd
