SPECIFICATION FairSpec
CONSTANTS
    f1 = f1
    f2 = f2
    c1 = c1
    Absent = Absent
    Files <- MCFiles
    Contents <- MCContents
    MaxUsn = 16
    MaxJournals = 1
    ShadowPage = 32
    MaxChanges = 1
PROPERTIES
    BackupEnds
    Converges
