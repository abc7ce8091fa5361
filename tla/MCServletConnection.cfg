SPECIFICATION Spec
CONSTANTS
    AppHeaders <- MCAppHeaders
    Statuses <- MCStatuses
    Lengths <- MCLengths
    Chunks <- MCChunks
    RequestLengths <- MCRequestLengths
    MAX_HEADERS_COUNT = 5
    MAX_HEADER_SIZE = 6
    MaxBody = 4
INVARIANTS
    TypeOK
    HeadSound
    AnnouncedIsEnforced
    BodyAccounted
    ReuseIsClean
PROPERTIES
    HeadFrozen
    ImplementsExchange
CHECK_DEADLOCK FALSE
