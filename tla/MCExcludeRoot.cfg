SPECIFICATION Spec
CONSTANTS
    Upper <- MCUpper
    Cases <- MCCases
CHECK_DEADLOCK FALSE
INVARIANTS
    MatchesOriginalPath
