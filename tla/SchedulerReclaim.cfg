CONSTANTS
    SAs = {s1, s2}
    Procs = {p1}
    ProcOf <- MCProcOf
    Callbacks = {cb1}
    Pids = {pid1}
    CallerOf <- MCCallerOf
    AutoRestart = {s1}
    IndependentUnload = {s2}
    ImmediateRecycle = {p1}
    MaxPendingLoad = 1
    RestartLimit = 0
    MaxTasks = 1
    MaxTimers = 1
    MaxRecover = 0
    None = None
SPECIFICATION Spec
INVARIANTS
    StateCountsMatch
    HostStatesFit
    ReclaimIsQueued
    IdledMeansNoneLoaded
PROPERTIES
    ImplementsLifecycle
    StopsOnlyUnused
