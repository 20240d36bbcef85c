SPECIFICATION ManagerSpec
CONSTANTS
    Users = {u1, u2}
    Base = base
    Single = {s}
    Multi = {m}
    Clients = {c1}
    Null = null
    MaxEvents = 5
    MaxRequests = 2
    Keys = {k1, k2}
    Callbacks = {cb1, cb2}
    Abilities = {a1, a2}
    Softbus = softbus
    Names = {n1, n2}
    Kept = {n2}
    NoName = NoName
    NoTask = NoTask
    Listeners = {l1, l2}
    Procs = {p1, p2}
SYMMETRY Symmetry
\* The users may all be gone, and the requests used up.
CHECK_DEADLOCK FALSE
INVARIANTS
    UsersApart
    RequestsReachManagers
    RemoteLoadsServed
    DBinderInStep
    TasksWithinReach
    ProcessListenersInStep
