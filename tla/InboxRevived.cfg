SPECIFICATION Spec
CONSTANTS
    Assets = {a1}
    Contents = {c1, c2}
    None = None
    Overlap = TRUE
    Faults = {}
PROPERTY OnlyMintRevives
