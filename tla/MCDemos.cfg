\* Demos: two programs at a time on one localnet, one call fails by itself.
SPECIFICATION DemosSpec
CONSTANTS
    p1 = p1
    p2 = p2
    Process <- MCProcess
    Mix <- MCMix
    MaxFaults = 1
INVARIANT RowsTrue FailureIsDue ExitTold
PROPERTY RunsEnd
CHECK_DEADLOCK FALSE
