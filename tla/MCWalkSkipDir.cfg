SPECIFICATION Spec
CONSTANTS
    N = 3
    RuleSets <- OneRule
CHECK_DEADLOCK FALSE
INVARIANTS
    SkipDirSkipsTheDirectory
