SPECIFICATION Spec
CONSTANTS
    p1 = p1
    p2 = p2
    m1 = m1
    Procs <- OneProc
    Ids = {m1}
    Contents = {1, 2}
    ConflictWindow = 1
    MaxOps = 2
    MaxTime = 2
    None = None
    Gone = Gone
INVARIANTS
    TypeOK
    QueuedReachServer
    OfflineStoreReadable
PROPERTIES
    ReplayInOrder
    CallsAreDelivered
