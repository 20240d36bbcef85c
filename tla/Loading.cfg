CONSTANTS
    SAs = {s1}
    Procs = {p1}
    ProcOf <- MCProcOf
    Callbacks = {c1, c2}
    Pids = {q1}
    CallerOf <- MCCallerOf
    MaxCallbacks = 2
    MaxTasks = 1
    MaxTimers = 1
    MaxOutstanding = 1
    None = None
SPECIFICATION Spec
INVARIANTS
    RequestsAccounted
PROPERTIES
    RequestsEnd
