SPECIFICATION Spec
CONSTANTS
    Peer = {p1, p2, p3}
    RequestKey = {k1}
    Module = {}
    Schema = {}
    Name = {}
    Value = {}
    Launch = {l1}
    Status = {0}
    SINGLE_ROOT = FALSE
    MAX_CLIENTS = 3
    MAX_PROCESSES = 2
    MAX_MODULES = 0
    MAX_STATES_PER_PROCESS = 0
    MAX_REQUEST_KEYS = 1
    MAX_TRANSACTIONS = 1
    MAX_OBJECTS = 0
    MAX_EXIT_RECORDS = 0
    LAST_CLIENT = 5
    LAST_PID = 2
    LAST_TRANSACTION = 2
SYMMETRY Symmetry
INVARIANT RolesSeparate
PROPERTIES PoolHandout
CHECK_DEADLOCK FALSE
