\* The three threads of the firmware, preempted at every step; two fans and two
\* addresses, so that the loops move on and wrap; a speed below the limits and
\* one inside.
SPECIFICATION FairSpec
CONSTANTS
    MAX_THREADS = 3
    DEFAULT_TICKS = 0
    FAN_COUNT = 2
    LAST_ADDRESS = 2
    SPEEDS = {3799, 4100}
    Threads = {0, 1, 2}
    BLINKS = 2
INVARIANTS
    TypeOK
    WireIsExclusive
    TasksAreSettled
PROPERTIES
    EveryFanIsScanned
    LedBlinks
    FanIsControlled
