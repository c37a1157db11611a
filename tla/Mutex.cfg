\* Three threads, time limits, killed waiters and Suspend scopes: everything the model
\* lets threads do to each other.  Thread 0 gets a free mutex, or gives up in time.
CONSTANTS
    MAX_THREADS = 3
    DEFAULT_TICKS = 1
    TIMEOUTS = {0, 1}
    KILLS = TRUE
    SCOPES = TRUE
SPECIFICATION MainFairSpec
INVARIANTS
    TypeOK
    MutualExclusion
    WaiterIsWaiting
    OutOfLockRuns
PROPERTIES
    ImplementsLock
    MainTakesFreeMutex
    MainTimedLockReturns
