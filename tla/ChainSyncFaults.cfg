\* Every fault, and a chain that moves while a pass reads it.
SPECIFICATION Spec
CONSTANTS
    scheduler = scheduler
    query = query
    Callers = {scheduler, query}
    Scheduler = scheduler
    Sources = {s1}
    Assets = {a1, a2}
    Parsable = {a1}
    PageSize = 2
    MaxChain = 4
    Faults = {"error", "lookup", "reread", "crash"}
    ChainMovesDuringPass = TRUE
SYMMETRY SafetySymmetry
INVARIANTS
    SinglePass
    EntriesHaveCause
PROPERTIES
    CursorNeverMovesBack
