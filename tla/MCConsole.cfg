SPECIFICATION Spec
CONSTANTS
    MaxLogins = 2
    MaxSockets = 2
    MaxCalls = 1
    MaxUpdates = 2
    MaxBreaks = 1
    Users = {u}
    Requests = {r1, r2}
    Alerts = {1, 2}
    MaxRequests = 3
    MaxChanges = 1
INVARIANT FeedbackOnce
PROPERTIES
    LifecycleKept
    ViewForward
    Reconnects
CHECK_DEADLOCK FALSE
