SPECIFICATION Spec
CONSTANTS
    Memories = {1, 2}
    Claims = {1, 2}
    Items = {1, 2, 3}
    Facts = {1, 2}
    FirstText <- MCFirstText
    Starts <- MCStarts
    Texts = {{1}}
    Settings <- MCSettings
    Similar <- MCSimilar
    TopicOf <- MCTopicOf
    ValidFrom <- MCValidFrom
    Lapsed = {1}
    Later = {2}
    Decisions = {"active"}
    MaxWrites = 1
    MaxCalls = 3
    None = None
INVARIANTS
    TypeOK
    NoDuplicatePending
PROPERTIES
    QueueImplemented
    NoFactLost
    NoClaimLeftBehind
    ExecutionsEnd
CHECK_DEADLOCK FALSE
