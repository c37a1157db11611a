\* A client that may reset or close its half at any point, and one that connects again
\* and again; a slot for each and one to listen; a list of two services, which runs
\* full; requests of two segments.
SPECIFICATION ReturningSpec
CONSTANTS
    SOCKETS = 4
    SLOTS = 3
    ENTRIES = 2
    CLIENTS = {"a", "b"}
    Regulars = {"b"}
    PIECES = 2
    FAULTS <- MCFaults
    Asks <- MCAsks
    Pages = {"index"}
    Registered = {"api"}
INVARIANTS
    TypeOK
    OneOwner
    SlotsLostToResets
PROPERTIES
    OneAnswer
    NothingLostInPeace
    KeepsListening
    EveryRequestEnds
