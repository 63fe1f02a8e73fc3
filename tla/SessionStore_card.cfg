SPECIFICATION FairSpec
CONSTANTS
    NSessions = 1
    NOld = 0
    NFiles = 2
    MaxMarks = 2
    Faults = {"json", "mark", "create", "unlink", "power"}
INVARIANTS
    RecordingsListed
    NoLostUpdate
    DeletedStaysDeleted
    BookmarksReturned
PROPERTIES
    SessionCloses
