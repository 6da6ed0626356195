SPECIFICATION FairSpec
CONSTANTS
    Copies = {c1, c2}
    Device = dev
    Live = live
    Sizes = {1, 2}
    Layouts <- MCLayouts
    PageSize = 1
    MaxExtents = 3
    FirstRoom = 1
    MaxDisks = 3
    maxVolumes = 2
    Listed <- MCListed
CHECK_DEADLOCK FALSE
INVARIANTS
    TypeOK
    ExactExtents
    EnumeratesAll
PROPERTIES
    ExtentsOfTheMoment
    CallsEnd
