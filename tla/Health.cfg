\* One entry, two URLs, a query beside sync and health pass, every fault.
SPECIFICATION MCSpec
CONSTANTS
    Assets = {a1}
    AgentIds = {a1, other}
    Answers <- SomeAnswers
    Urls = {u1, u2}
    None = None
    Queries = {q1}
    CheckLimit = 1
    CountTo = 2
    Faults = {"error", "crash"}
    Entries = {e1, e2, e3}
    PageLength = 2
    BatchLength = 1
    GiveUpAfter = 1
INVARIANTS UptimeAddsUp
PROPERTIES RevivedByLoadOnly Converges QueuesMoveUp GivenUpIsLeft LiveStaysWatched InvalidIsRetried
