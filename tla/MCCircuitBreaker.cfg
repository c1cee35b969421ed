SPECIFICATION Spec
CONSTANTS
    Window = 2
    Cooldown = 1
    MinAckRate = 50
    MaxFollowupRate = 30
    MinCheckpoints = 2
    MinAcks = 2
    HealthyClose = 2
    NoTime = NoTime
    MaxTime = 4
    MaxEvents = 5
INVARIANTS
    TypeOK
    CountersMatchWindow
PROPERTIES
    CallsFollowPolicy
