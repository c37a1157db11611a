\* Three slots, so that two threads besides thread 0 compete for them; slices of
\* one tick; scopes nested twice; waits with a time limit.
CONSTANTS
    MAX_THREADS = 3
    DEFAULT_TICKS = 0
    MAX_NEST = 2
    MAX_COUNT = 2
    TIMEOUTS = {1}
SPECIFICATION FairSpec
INVARIANTS
    TypeOK
    ScopeIsExclusive
PROPERTIES
    StartedForGood
    StoppedStandsStill
    EveryThreadRuns
    TimedWaitReturns
