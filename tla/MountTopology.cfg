SPECIFICATION TopologySpec
CONSTANTS
    Namespace = {n1, n2, n3}
    Existing = {n1, n2}
    Worker = {u, v}
    Reader = {r, q}
SYMMETRY Symmetry
INVARIANTS EvenIsWhole SnapshotOfEpoch
PROPERTY NothingLost
CHECK_DEADLOCK FALSE
