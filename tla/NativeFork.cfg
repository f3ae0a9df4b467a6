SPECIFICATION ForkSpec
CONSTANTS
    Peer = {p, a, b}
    Pooled = {a, b}
    ModuleSpec = {s, t}
    STOCK = 1
    MAX_FAILURES = 1
    MAX_LEASES = 2
    RequestKey = {k1}
    Module = {}
    Schema = {}
    Name = {}
    Value = {}
    Launch = {}
    Status = {0}
    SINGLE_ROOT = TRUE
    MAX_CLIENTS = 3
    MAX_PROCESSES = 2
    MAX_MODULES = 0
    MAX_STATES_PER_PROCESS = 0
    MAX_REQUEST_KEYS = 1
    MAX_TRANSACTIONS = 1
    MAX_OBJECTS = 0
    MAX_EXIT_RECORDS = 0
    LAST_CLIENT = 4
    LAST_PID = 2
    LAST_TRANSACTION = 2
SYMMETRY Symmetry
INVARIANTS Custody StockMatchesTemplate
PROPERTY PublishedSurvives
CHECK_DEADLOCK FALSE
