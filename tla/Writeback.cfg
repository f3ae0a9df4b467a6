SPECIFICATION FairSpec
CONSTANTS
 Key = {k1,k2}
 Client = {c1,c2}
 Worker = {w1,w2}
 Errors = {5}
 CAPACITY = 2
 MaxHints = 3
INVARIANTS Accounting FailurePinsFile Drained
PROPERTIES FailureReachesAWaiter WaitCoversEarlierHints ShutdownReturns
CHECK_DEADLOCK FALSE
