SPECIFICATION Spec
CONSTANTS
    drive = drive
    mount = mount
    dir = dir
    v1 = v1
    v2 = v2
    s1 = s1
    s2 = s2
    s3 = s3
    NoVolume = NoVolume
    Paths <- MCPaths
    Volumes <- MCVolumes
    VolumeAt <- MCVolumeAt
    Ids <- MCIds
    MaxVolumes = 3
    MaxUsn = 2
SYMMETRY MCSymmetry
CHECK_DEADLOCK FALSE
INVARIANTS
    SnapshotsMatch
