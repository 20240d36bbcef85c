SPECIFICATION CollectSpec
CONSTANTS
    Null = Null
    NoId = NoId
    x = x
    y = y
    a = a
    b = b
    SAs = {x, y}
    Profile <- MCProfile
    Policies <- MCPolicies
    Builtin = {"screen_on"}
    Conditions = {"c"}
    MaxUpdates = 2
    MaxCrashes = 1
    Devices = {d1, d2}
\* Updates, events, changes and crashes are bounded: when they are used up and
\* handled, the parts stop.
CHECK_DEADLOCK FALSE
INVARIANTS
    PolicyIsCollected
    EventsInStep
    TimedEventsKept
    OnlineIsTrue
