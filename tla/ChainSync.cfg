\* One source, two overlapping calls, failures and crashes at every step;
\* and transactions of two inputs and two outputs.
SPECIFICATION MCSpec
CONSTANTS
    scheduler = scheduler
    query = query
    Callers = {scheduler, query}
    Scheduler = scheduler
    Sources = {s1}
    Assets = {a1, a2, a3}
    Parsable = {a1, a2}
    PageSize = 2
    MaxChain = 4
    Faults = {"error", "crash"}
    ChainMovesDuringPass = FALSE
    Tokens = {t1, t2}
    Quantities = {1, 2}
    MaxUtxos = 2
SYMMETRY SafetySymmetry
INVARIANTS
    TypeOK
    RegistryFollowsCursor
    RemovedLeavesNothing
    SyncInv
    DoneMeansCaughtUp
    LockHeldByPass
    ErrsTowardsMints
    SingletonsAreExact
PROPERTIES
    FollowsLedger
