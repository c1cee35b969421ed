SPECIFICATION Spec
CONSTANTS
    Window = 1
    Cooldown = 1
    MinAckRate = 60
    MaxFollowupRate = 30
    MinCheckpoints = 2
    MinAcks = 2
    HealthyClose = 1
    NoTime = NoTime
    MaxTime = 2
    id1 = id1
    id2 = id2
    id3 = id3
    host = host
    query = query
    Ids <- MCIds
    Sessions <- MCSessions
    Requests <- MCRequests
    SessionOf <- MCSessionOf
    d1 = d1
    d2 = d2
    Digests <- MCDigests
    Served = {d1}
    HostTiers = {"T1"}
    Claims = {"sufficient", "needs_followup"}
    CheckpointTtl = 2
    CacheTtl = 1
    FollowupCooldown = 1
    MaxFollowups = 1
    LoopGuardWindow = 1
    None = None
SYMMETRY Symmetry
INVARIANTS
    TypeOK
    LineageSound
    OneSamplePerCheckpoint
    LoopGuardHolds
PROPERTIES
    RetryConsistent
