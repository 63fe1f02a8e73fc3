SPECIFICATION FairSpec
CONSTANTS
    NSessions = 2
    NOld = 1
    NFiles = 2
    MaxMarks = 2
    Faults = {"json", "mark", "create", "power"}
INVARIANTS
    TypeOK
    RecordingsListed
    NoLostUpdate
    DeletedStaysDeleted
    BookmarksReturned
PROPERTIES
    SessionCloses
