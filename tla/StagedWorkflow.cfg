\* Three stages, a creator, a head of department and two workers, of whom the
\* first is also the spoc of the only department.
CONSTANTS
    c = c
    h = h
    w1 = w1
    w2 = w2
    d1 = d1
    Users = {c, h, w1, w2}
    Creator = c
    SuperAdmins = {}
    Hods = {h}
    Spocs = {w1}
    Departments = {d1}
    DeptOf <- MCDeptOf
    NumStages = 3
    Plans <- MCPlans
    Requests <- MCRequests
    MaxVersions = 2
SPECIFICATION Spec
INVARIANTS
    TypeOK
    StageFrontier
    FinalPendingAtEnd
    SummaryAgrees
    SubmissionsSound
    ReviewShowsCurrentWork
    StuckOnlyIfForwardedInReview
PROPERTIES
    HeldWorkStops
    CompletedIsFinal
    HandoffSpec
\* A task that was revoked while held, or finished, may have nothing left to do.
CHECK_DEADLOCK FALSE
