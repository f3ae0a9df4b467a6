SPECIFICATION FairSessionSpec
CONSTANTS
    Conn = {c1, c2}
    Watcher = {w}
    Creator = {f}
    MAX_CONNECTIONS = 2
INVARIANTS NothingCreatedAfterStop
PROPERTIES AwaitsReturn StopReturns
CHECK_DEADLOCK FALSE
