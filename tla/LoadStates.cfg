CONSTANTS
    SAs = {s1}
    Procs = {p1}
    ProcOf <- MCProcOf
    Callbacks = {c1}
    Pids = {q1}
    CallerOf <- MCCallerOf
    MaxCallbacks = 2
    MaxTasks = 1
    MaxTimers = 1
    MaxOutstanding = 1
    MaxSent = 1
    None = None
SPECIFICATION StatesSpec
INVARIANTS
    LoadingIsWatched
PROPERTIES
    LoadingEnds
