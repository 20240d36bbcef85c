SPECIFICATION Spec
CONSTANTS
    Checks = 1
    Threads = {t1}
    Width = 8
    SHIFT = 2
    Cores = 2
    Loads = {4, 9, 12, 16}
    Ticks = {1, 10}
    Null = Null
    MaxEvents = 1
    MaxSamples = 2
\* After the last event the countdown has ended and the monitor sleeps.
CHECK_DEADLOCK FALSE
INVARIANTS
    IdleDeviceReclaims
