SPECIFICATION ListFairSpec
CONSTANTS
    NSessions = 4
    MaxIds = 3
    PerPage = 2
    Room = 1
INVARIANTS
    ListTypeOK
    PagesCover
PROPERTIES
    WalkEnds
