\* Two stages, a creator, a head of department and two workers, of whom the
\* first is also the spoc of the only department.
CONSTANTS
    c = c
    h = h
    w1 = w1
    w2 = w2
    d1 = d1
    Users = {c, h, w1, w2}
    Creator = c
    SuperAdmins = {}
    Hods = {h}
    Spocs = {w1}
    Departments = {d1}
    DeptOf <- MCDeptOf
    NumStages = 2
    Plans <- MCPlans
    Requests <- MCRequests
    MaxVersions = 2
SPECIFICATION Spec
PROPERTY CancelledIsFinal
CHECK_DEADLOCK FALSE
