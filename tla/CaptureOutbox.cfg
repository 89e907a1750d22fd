\* Two events, two overlapping flushes.
CONSTANTS
    e1 = e1
    e2 = e2
    f1 = f1
    f2 = f2
    None = None
    Events = {e1, e2}
    Flushes = {f1, f2}
    Providers <- MCProviders
    FlushThreshold = 2
    Limits <- MCLimits
    MaxMessages = 2
    MaxStops = 1
SPECIFICATION FairSpec
INVARIANTS
    TypeOK
    SectionsAreSerial
    NothingLost
    GivenUpAfterRetries
    OneItemPerEvent
    QueueBounded
    NeverStranded
PROPERTIES
    QueueDrains
    DeliverySpec
\* With every event delivered there is nothing left to do.
CHECK_DEADLOCK FALSE
