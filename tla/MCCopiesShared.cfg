SPECIFICATION Spec
CONSTANTS
    s1 = s1
    s2 = s2
    d1 = d1
    p1 = p1
    p2 = p2
    NoDevice = NoDevice
    Nobody = Nobody
    NoId = NoId
    Ids <- MCIds
    Devices <- MCDevices
    Procs <- MCProcs
    Batch = 1
    MaxSnapshots = 2
SYMMETRY MCSymmetry
CHECK_DEADLOCK FALSE
INVARIANTS
    TypeOK
    DeleteMeansGone
    VerifyVouches
PROPERTIES
    PersistentOutlivesSessions
