\* A process that registers and removes the ability it also asks for, with a third call to
\* meet the other two.  The calls and objects are bounded, so the system may stop.
SPECIFICATION ClientsSpec
CONSTANTS
    SAs = {device, album}
    OnDemandSAs = {album}
    LocalSAs = {device}
    Threads = {t1, t2}
    Null = Null
    Other = Other
    Default = Default
    MaxObjects = 2
    MaxDeaths = 1
    MaxTick = 1
    MaxCalls = 2
    RETRY_TIME_OUT_NUMBER = 0
    MaxList = 2
    Rooms = {0, 1, 3, 30}
SYMMETRY Symmetry
CHECK_DEADLOCK FALSE
INVARIANTS
    ServedIsRegistered
    ArgumentsArrive
    SuccessIsTrue
