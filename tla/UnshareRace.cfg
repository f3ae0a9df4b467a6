SPECIFICATION TopologySpec
CONSTANTS
    Namespace = {n1, n2, n3}
    Existing = {n1, n2}
    Worker = {u, v}
    Reader = {r}
INVARIANT UnshareSerialized
CHECK_DEADLOCK FALSE
