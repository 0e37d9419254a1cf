\* Six connections: cut anywhere (twice), an endless line, whole lines (three times).
SPECIFICATION RecvFairSpec
CONSTANTS
    Connections <- AllConnections
    Capacity = 16
    TruncateTo = 13
INVARIANTS CompleteLinesDelivered ZeroOnlyAtClose ReceivedBounded
PROPERTIES ImplementsLineStream
CHECK_DEADLOCK FALSE
