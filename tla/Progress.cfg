SPECIFICATION Spec
CONSTANTS
    Null = Null
    Fds = {f1, f2}
    Tasks = {t1, t2}
    Threads = {h1, h2}
    a = a
    b = b
    Devices = {d1}
    Users = {u1, u2}
    Listeners = {l1}
    Arrived = obj
    device = device
    album = album
    Other = Other
    Default = Default
\* The alarms, events, calls and answers are used up and have all been handled.
CHECK_DEADLOCK FALSE
PROPERTIES
    AcceptedIsCalled
    PluginsGoOn
    TriggerIsServed
    StopEnds
    ClientCallsReturn
