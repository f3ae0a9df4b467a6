SPECIFICATION LifecycleSpec
CONSTANTS
    Peer = {p1, p2, p3}
    RequestKey = {k1}
    Module = {}
    Schema = {}
    Name = {}
    Value = {}
    Launch = {}
    Status = {s1, s2}
    SINGLE_ROOT = TRUE
    MAX_CLIENTS = 4
    MAX_PROCESSES = 3
    MAX_MODULES = 0
    MAX_STATES_PER_PROCESS = 0
    MAX_REQUEST_KEYS = 2
    MAX_TRANSACTIONS = 2
    MAX_OBJECTS = 0
    MAX_EXIT_RECORDS = 1
    LAST_CLIENT = 5
    LAST_PID = 3
    LAST_TRANSACTION = 4
PROPERTY RecordsKeptUntilParentExits
CHECK_DEADLOCK FALSE
