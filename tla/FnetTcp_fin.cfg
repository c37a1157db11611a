\* fnet_socket.h: what is in the output buffer can be sent in the background after
\* close.  A few bytes to a peer that closes its window.
SPECIFICATION Spec
CONSTANTS
    SEQ = 64
    HALF = 16
    ISS = 61
    IRS = 62
    SNDMSS = 2
    RCVMSS = 2
    RCVMAX = 4
    LOADS <- MCLoads
    CWNDS = {2, 4}
INVARIANTS
    NothingLost
CHECK_DEADLOCK FALSE
