\* Two tasks of different periods on a clock that wraps within a few runs.
CONSTANTS
    CLOCK = 8
    PERIODS <- MCPeriods
    LOOP_BOUND = 3
SPECIFICATION FairSpec
INVARIANTS
    TypeOK
    Punctual
PROPERTIES
    PeriodKept
    EveryTaskRuns
