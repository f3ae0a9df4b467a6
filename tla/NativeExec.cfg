SPECIFICATION LiveExecSpec
CONSTANTS
    Peer = {p, a, b}
    Pooled = {a, b}
    STOCK = 1
    MAX_FAILURES = 1
    MAX_LEASES = 2
    RequestKey = {k1}
    Module = {}
    Schema = {}
    Name = {}
    Value = {}
    Launch = {}
    Status = {0}
    SINGLE_ROOT = TRUE
    MAX_CLIENTS = 3
    MAX_PROCESSES = 1
    MAX_MODULES = 0
    MAX_STATES_PER_PROCESS = 0
    MAX_REQUEST_KEYS = 1
    MAX_TRANSACTIONS = 2
    MAX_OBJECTS = 0
    MAX_EXIT_RECORDS = 0
    LAST_CLIENT = 3
    LAST_PID = 1
    LAST_TRANSACTION = 2
PROPERTIES PublishedSurvives ReservationStopsDeadline RevokedDies
CHECK_DEADLOCK FALSE
