\* The same two tasks, asked for their first run.
CONSTANTS
    CLOCK = 8
    PERIODS <- MCPeriods
    LOOP_BOUND = 3
SPECIFICATION Spec
PROPERTIES
    InstantExecution
