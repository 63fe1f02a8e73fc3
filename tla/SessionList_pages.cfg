SPECIFICATION ListFairSpec
CONSTANTS
    NSessions = 3
    MaxIds = 3
    PerPage = 2
    Room = 1
INVARIANTS
    PagesCover
PROPERTIES
    WalkEnds
