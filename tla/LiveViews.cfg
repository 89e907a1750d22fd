\* One component that shows data, and one that only subscribes.
CONSTANTS
    viewer = viewer
    alerts = alerts
    s1 = s1
    s2 = s2
    k1 = k1
    k2 = k2
    None = None
    Subscribers = {viewer, alerts}
    Viewer = viewer
    Sockets = {s1, s2}
    Fetches = {k1, k2}
    Kinds = {"badge", "panel"}
    MaxProcesses = 2
    MaxChanges = 1
    MaxMounts = 2
    MaxTurns = 1
    MaxFaults = 1
SPECIFICATION FairSpec
INVARIANTS
    TypeOK
    OneLiveSocket
    NeverDeaf
    ReleasedWhenIdle
    HeardOnce
PROPERTIES
    OnlyCachesTurnBack
    SocketFollowsSubscribers
    ViewCatchesUp
\* With everything shown there may be nothing left to do.
CHECK_DEADLOCK FALSE
