SPECIFICATION Spec
CONSTANTS
    f1 = f1
    f2 = f2
    c1 = c1
    Absent = Absent
    Files <- MCFiles
    Contents <- MCContents
    MaxUsn = 24
    MaxJournals = 2
    ShadowPage = 32
    MaxChanges = 2
SYMMETRY MCSymmetry
INVARIANTS
    TypeOK
    NoChangeLost
    ReadIsComplete
PROPERTIES
    ImplementsContract
    ReadAdvances
