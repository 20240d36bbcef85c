SPECIFICATION Spec
CONSTANTS
    Users = {u1, u2}
    Listeners = {l1}
    Null = Null
    MaxEvents = 4
    MaxOps = 3
\* All events are handled and all subscriptions made.
CHECK_DEADLOCK FALSE
INVARIANTS
    ManagersInOrder
    SubscriptionsInOrder
