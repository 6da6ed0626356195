SPECIFICATION FairSpec
CONSTANTS
    v1 = v1
    v2 = v2
    w1 = w1
    w2 = w2
    g1 = g1
    g2 = g2
    Nobody = Nobody
    Volumes <- MCVolumes
    Writers <- MCWriters
    Closers <- MCClosers
    MaxSlices = 2
CHECK_DEADLOCK FALSE
INVARIANTS
    TypeOK
    NothingLeftBehind
    AllOrNothing
    ComUsedWhileAlive
    CloseMeansTornDown
    FailedWriterListed
PROPERTIES
    ImplementsSession
    CallsReturn
