\* Every fault of the bus, and a thread that may be switched away anywhere.
SPECIFICATION FairSpec
CONSTANTS
    Registers = {1, 2}
    FAULTS = {"nak", "stick", "arbitration"}
INVARIANT TypeOK
PROPERTIES ResultHonest ReadHonest Recovers
