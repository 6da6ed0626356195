SPECIFICATION FairSpec
CONSTANTS
    Upper <- MCUpper
    Cases <- MCCases
CHECK_DEADLOCK FALSE
INVARIANTS
    TypeOK
    CollectIsHonest
    RootStaysInside
    DecisionIsRight
PROPERTIES
    Decides
