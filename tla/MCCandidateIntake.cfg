SPECIFICATION Spec
CONSTANTS
    first = first
    again = again
    chat = chat
    word = word
    Actors = {a1, a2}
    Ids = {i1, i2}
    Events = {first, again, chat}
    Content <- MCContent
    Texts = {word}
    Stored = {}
    Sessions = {s1}
    AgeThreshold = 1
    MinAcks = 1
    MinSessions = 1
    MaxTime = 1
    MaxAcks = 1
    MaxCalls = 4
    MaxWrites = 1
    None = None
SYMMETRY MCSymmetry
INVARIANTS
    TypeOK
    AuditTellsPlace
    MaterializedOnce
PROPERTIES
    RecordsMove
CHECK_DEADLOCK FALSE
