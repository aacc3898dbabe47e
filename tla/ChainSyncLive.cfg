\* Two sources, a scheduler and a query, failures and crashes: convergence.
SPECIFICATION FairSpec
CONSTANTS
    scheduler = scheduler
    query = query
    Callers = {scheduler, query}
    Scheduler = scheduler
    Sources = {s1, s2}
    Assets = {a1}
    Parsable = {a1}
    PageSize = 1
    MaxChain = 2
    Faults = {"error", "crash"}
    ChainMovesDuringPass = FALSE
PROPERTIES
    Converges
