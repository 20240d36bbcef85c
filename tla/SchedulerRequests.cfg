CONSTANTS
    SAs = {s1}
    Procs = {p1}
    ProcOf <- MCProcOf
    Callbacks = {cb1, cb2}
    Pids = {pid1}
    CallerOf <- MCCallerOf
    AutoRestart = {s1}
    IndependentUnload = {}
    ImmediateRecycle = {p1}
    MaxPendingLoad = 1
    RestartLimit = 1
    MaxTasks = 2
    MaxTimers = 2
    MaxRecover = 1
    None = None
SPECIFICATION FairSpec
INVARIANTS
    TypeOK
    PendingLoadsNotStranded
    StoppingIsWatched
PROPERTIES
    StoppingEnds
    PendingLoadsEnd
