\* A page fills up between two fetches.
SPECIFICATION Spec
CONSTANTS
    scheduler = scheduler
    query = query
    Callers = {scheduler, query}
    Scheduler = scheduler
    Sources = {s1}
    Assets = {a1}
    Parsable = {a1}
    PageSize = 2
    MaxChain = 4
    Faults = {}
    ChainMovesDuringPass = TRUE
INVARIANTS
    RegistryFollowsCursor
