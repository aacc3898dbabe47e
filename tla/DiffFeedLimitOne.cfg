\* The smallest page the schema accepts.
SPECIFICATION FairSpec
CONSTANTS
    Rows = 2
    Statuses = {s1, s2}
    Shown = {s1, s2}
    Writers = {w1}
    Limit = 1
    Restamps = FALSE
    MaxClock = 2
PROPERTIES EveryStatusArrives
