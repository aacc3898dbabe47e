SPECIFICATION HistorySpec
CONSTANTS
    Assets = {a1}
    Contents = {c1, c2}
    None = None
    Overlap = TRUE
    Faults = {"error", "crash"}
INVARIANTS DeregisteredHasNoKeys OnlyPublishedVerified
PROPERTIES RevivedByMintOrPass Converges
