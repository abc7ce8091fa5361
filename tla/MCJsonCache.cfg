SPECIFICATION Spec
CONSTANTS
    w1 = w1
    w2 = w2
    large = large
    small = small
    huge = huge
    Absent = Absent
    Empty = Empty
    Torn = Torn
    Workers <- MCWorkers
    Uris <- MCUris
    Plain = {"a"}
    Documents <- MCDocuments
    Short = {small}
    Big = {huge}
    MaxOpen = 2
INVARIANTS
    ViewIsBacked
    ServedWasStored
    Durable
    OneFileOpen
PROPERTIES
    PutKeepsViews
