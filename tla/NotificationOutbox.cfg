\* One administrator's notification; two batches, in one server process or in
\* two; a queue for one notification.
CONSTANTS
    a1 = a1
    b1 = b1
    b2 = b2
    p1 = p1
    p2 = p2
    Admins = {a1}
    Processes = {p1, p2}
    Request = request
    Batches = {b1, b2}
    QueueSize = 1
    MaxAttempts = 3
    MaxLate = 1
    MaxFaults = 2
SPECIFICATION FairSpec
INVARIANTS
    TypeOK
    NothingForgotten
    GivenUpAfterAllAttempts
PROPERTIES
    NeverReopened
    RowsAreSettled
\* With every row settled there is nothing left to do.
CHECK_DEADLOCK FALSE
