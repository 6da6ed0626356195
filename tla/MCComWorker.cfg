SPECIFICATION FairSpec
CONSTANTS
    a = a
    b = b
    c = c
    Workers <- MCWorkers
    MaxCalls = 2
CHECK_DEADLOCK FALSE
INVARIANTS
    TypeOK
    CallsRunInsideCom
    ThreadsLeaveNothing
PROPERTIES
    ImplementsExecutor
    CallersReturn
    ThreadsEnd
