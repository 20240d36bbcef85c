SPECIFICATION ListenersSpec
CONSTANTS
    SAs = {s1}
    Objects = {o1, o2}
    SAOf <- MCSAOf
    Listeners = {l1}
    Pids = {p1}
    PidOf <- MCPidOf
    Threads = {h1, h2}
    MaxSubscribe = 1
    MaxTasks = 2
    MaxDeaths = 2
    PerUser = FALSE
    None = None
    Others = {l2, l3}
SYMMETRY Symmetry
\* The hosts and the clients may all have died.
CHECK_DEADLOCK FALSE
INVARIANTS
    ToldIsTrue
    SubscribesCounted
    DeadIsReported
