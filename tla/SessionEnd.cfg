SPECIFICATION FairSessionSpec
CONSTANTS
    Conn = {c1}
    Watcher = {w}
    Creator = {f}
    MAX_CONNECTIONS = 1
PROPERTY SessionEnds
CHECK_DEADLOCK FALSE
