\* Three alarms on two descriptors, so that one is reused.  A thread is
\* started at most once per alarm.
SPECIFICATION ThreadsSpec
CONSTANTS
    Clients = {c1, c2}
    Threads = {t1, t2}
    MaxEnables = 4
    MaxServed = 3
    Fds = {f1, f2}
    Tasks = {a1, a2, a3}
    TimerThreads = {h1, h2, h3}
    None = None
SYMMETRY Symmetry
\* The clients stop asking; every alarm has been called and every thread of
\* theirs has ended or waits in read.
CHECK_DEADLOCK FALSE
INVARIANTS
    PriorityInStep
    AlarmsAreServed
