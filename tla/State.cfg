SPECIFICATION StateSpec
CONSTANTS
    Peer = {p1, p2, p3}
    RequestKey = {k1}
    Module = {m1}
    Schema = {v1, v2}
    Name = {n1, n2}
    Value = {x, y}
    Launch = {}
    Status = {0}
    SINGLE_ROOT = FALSE
    MAX_CLIENTS = 3
    MAX_PROCESSES = 2
    MAX_MODULES = 1
    MAX_STATES_PER_PROCESS = 2
    MAX_REQUEST_KEYS = 1
    MAX_TRANSACTIONS = 1
    MAX_OBJECTS = 3
    MAX_EXIT_RECORDS = 0
    LAST_CLIENT = 4
    LAST_PID = 2
    LAST_TRANSACTION = 2
SYMMETRY Symmetry
INVARIANTS ObjectsExact PrivateObjects
PROPERTIES FrozenUntilCommit
CHECK_DEADLOCK FALSE
