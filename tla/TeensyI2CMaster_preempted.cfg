\* i2c_driver.h: "'ok' means there were no errors since the last transaction
\* started".
SPECIFICATION Spec
CONSTANTS
    Registers = {1, 2}
    FAULTS = {"nak"}
PROPERTY OkMeansNoErrors
