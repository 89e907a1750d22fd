\* Two stages and two server processes; a request meets at most one commit of
\* the other process.
CONSTANTS
    c = c
    h = h
    w1 = w1
    w2 = w2
    d1 = d1
    p1 = p1
    p2 = p2
    Procs = {p1, p2}
    MaxMissed = 1
    Users = {c, h, w1, w2}
    Creator = c
    SuperAdmins = {}
    Hods = {h}
    Spocs = {}
    Departments = {d1}
    DeptOf <- MCDeptOf
    NumStages = 2
    Plans <- MCPlans
    Requests = {}
    MaxVersions = 2
SPECIFICATION Spec
PROPERTY HoldKept
