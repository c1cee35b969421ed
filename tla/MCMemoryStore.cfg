SPECIFICATION Spec
CONSTANTS
    id1 = id1
    id2 = id2
    id3 = id3
    c1 = c1
    c2 = c2
    task = task
    note = note
    plan = plan
    draft = draft
    word = word
    other = other
    not = not
    password = password
    Ids <- MCIds
    Callers <- MCCallers
    Buckets <- MCBuckets
    TaskBuckets <- MCTaskBuckets
    Titles <- MCTitles
    Atoms <- MCAtoms
    Secrets <- MCSecrets
    Negated <- MCNegated
    Requests <- MCRequests
    MaxCalls = 4
    NoId = NoId
    NoMemory = NoMemory
SYMMETRY Symmetry
INVARIANTS
    TypeOK
    AcknowledgedTextSurvives
    FtsAgrees
    SecretsRedacted
    
PROPERTIES
    RowsAreVersioned
    CapturedEvidenceOutlivesRow
CHECK_DEADLOCK FALSE
