SPECIFICATION DemoSpec
CONSTANTS
    f1 = f1
    c1 = c1
    Absent = Absent
    Files <- MCFiles
    Contents <- MCContents
    MaxUsn = 40
    MaxJournals = 1
    ShadowPage = 32
    MaxChanges = 1
INVARIANTS
    PrintedCursorLosesNothing
