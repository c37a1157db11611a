\* readme.md: "lock" suspends the blocking thread until "unlock"; here of three threads.
CONSTANTS
    MAX_THREADS = 3
    DEFAULT_TICKS = 0
    TIMEOUTS = {0}
    KILLS = FALSE
    SCOPES = FALSE
SPECIFICATION FairSpec
PROPERTY
    SuspendedUntilUnlock
