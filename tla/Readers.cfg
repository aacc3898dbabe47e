\* The feed: three rows, of which all can change at once, in pages of two.
\* The lists: seven rows, answers of two, and pages of two or four.
SPECIFICATION MCSpec
CONSTANTS
    Rows = 3
    Statuses = {s1, s2, s3}
    Shown = {s1, s2}
    Writers = {w1}
    Limit = 2
    Restamps = TRUE
    MaxClock = 2
    ListRows = 7
    SourceRows <- OneSource
    AnswerLimit = 2
INVARIANTS TypeOK PassedIsCopied FullPagesMoveOn WalkIsComplete
PROPERTIES EveryStatusArrives AnswersMoveOn WalkEnds
