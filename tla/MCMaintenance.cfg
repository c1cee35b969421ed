SPECIFICATION Spec
CONSTANTS
    r1 = r1
    r2 = r2
    Rows = {r1, r2}
    KindsOf <- MCKindsOf
    NoticeAfter = 1
    DeleteAfter = 2
    Extension = 1
    MaxExtensions = 1
    None = None
INVARIANTS
    TypeOK
PROPERTIES
    NoticeIsNotCleared
    DeletesOnlyAcknowledged
    NoticeDelivered
    ExportedRowsGo
