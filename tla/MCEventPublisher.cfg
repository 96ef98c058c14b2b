SPECIFICATION Spec
CONSTANTS
    Stream = {s1, s2}
    QueueSize = 2
    MaxEvents = 4
    s1 = s1
    s2 = s2
INVARIANTS
    StopIsPending
    NothingSlipsBy
PROPERTIES
    StreamsEnd
    ImplementsFanout
