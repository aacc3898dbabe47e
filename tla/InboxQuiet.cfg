SPECIFICATION MCSpec
CONSTANTS
    Assets = {a1, a2}
    Contents = {c1, c2}
    None = None
    Overlap = FALSE
    Faults = {"error", "crash"}
    Reserved <- SomeReserved
    SlugLength = 3
    TypedLength = 4
SYMMETRY SafetySymmetry
INVARIANTS KeysFollowStatus FoundByItsWords SlugsAreCanonical ReservedNamesAreFree
PROPERTY FollowsInboxLedger
