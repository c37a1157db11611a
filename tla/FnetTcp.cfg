SPECIFICATION Spec
CONSTANTS
    SEQ = 64
    HALF = 16
    ISS = 61
    IRS = 62
    SNDMSS = 2
    RCVMSS = 2
    RCVMAX = 4
    LOADS <- MCLoads
    CWNDS = {2, 4}
INVARIANTS
    TypeOK
    ReceivesStream
    SendsStream
    NeverStalls
CHECK_DEADLOCK FALSE
