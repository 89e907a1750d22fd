\* Two requests at a time, two isolates, a change at any time.
CONSTANTS
    r1 = r1
    r2 = r2
    i1 = i1
    i2 = i2
    Requests = {r1, r2}
    Isolates = {i1, i2}
    Setups <- MCSetups
    None = None
    MaxChanges = 1
SPECIFICATION FairSpec
INVARIANTS
    TypeOK
    QuietPurge
PROPERTIES
    FreshInTheEnd
\* A page need not ask again.
CHECK_DEADLOCK FALSE
