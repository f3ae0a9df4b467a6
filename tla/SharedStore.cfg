SPECIFICATION FairStoreSpec
CONSTANTS
    Thread = {t1, t2, t3}
    Word = {1, 2}
    WORDS = 2
    Value <- Records
    MAX_REVISION = 3
INVARIANTS PublishedIntact SnapshotExact
PROPERTY ReadersReturn
CHECK_DEADLOCK FALSE
