\* The sources cannot be read under the mutex: no further pass.
SPECIFICATION FairSpec
CONSTANTS
    scheduler = scheduler
    query = query
    Callers = {scheduler, query}
    Scheduler = scheduler
    Sources = {s1}
    Assets = {a1}
    Parsable = {a1}
    PageSize = 2
    MaxChain = 2
    Faults = {"reread"}
    ChainMovesDuringPass = FALSE
PROPERTIES
    KeepsUpdating
