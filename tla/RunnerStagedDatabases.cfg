CONSTANTS
    Processes = {p1}
    i1 = i1
    i2 = i2
    Installations = {i1}
    AppOf <- MCAppOf
    Manifest <- MCEverything
    MaxOperations = 1
    MaxFaults = 1
    StartupRecovery = TRUE
    NoOperation = NoOperation
    Times = {0}
SPECIFICATION FairSpec
CHECK_DEADLOCK FALSE
PROPERTIES
    CompensationEnds
