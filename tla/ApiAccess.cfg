\* Two calls of which each holds one of two connections and needs another.
SPECIFICATION FairSpec
CONSTANTS
    Keys = {admin, user}
    Admins = {admin}
    Requests = {r1, r2}
    Connections = 2
    Costs = {0, 1}
    MaxCredits = 1
    MaxSpent = 1
    None = None
INVARIANTS TypeOK WithinGranted UsedIsBacked
PROPERTIES EveryCallEnds
\* No call is possible any more when the last administrator's key is gone.
CHECK_DEADLOCK FALSE
