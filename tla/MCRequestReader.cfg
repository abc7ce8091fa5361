SPECIFICATION Spec
CONSTANTS
    Streams <- MCStreams
    Junk <- MCJunk
    BufferSize = 12
    MAX_HEADERS_COUNT = 2
    Requests <- MCRequests
    ReadTimeout = FALSE
INVARIANTS
    TypeOK
    BufferSafe
    LinesFaithful
    HeadersComplete
    BodyExact
    NeverOverdrawn
    ReuseInStep
CHECK_DEADLOCK FALSE
