SPECIFICATION ListSpec
CONSTANTS
    NSessions = 3
    MaxIds = 3
    PerPage = 2
    Room = 2
INVARIANTS
    ResponsesParse
