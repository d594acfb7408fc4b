\* Two pollers of one cursor key on a durable store, run under fairness.
SPECIFICATION Spec
CONSTANTS
    p1 = p1
    p2 = p2
    Poller <- MCPoller
    Limit = 2
    Durable = TRUE
    MaxLog = 4
INVARIANT NothingLost InOrder OnePageRepeated
PROPERTY CursorAdvances Delivery StopEnds
CHECK_DEADLOCK FALSE
