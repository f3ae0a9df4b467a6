SPECIFICATION FairKernelSpec
CONSTANTS
    root = root
    a = a
    b = b
    Key = {root, a, b}
    Root = {root}
    Ipc = {b}
    Edge <- Cycle
    Token = {t}
    MAX_OBJECTS = 2
INVARIANT ReferencesRetained
PROPERTIES NeededStays GarbageGoes
CHECK_DEADLOCK FALSE
