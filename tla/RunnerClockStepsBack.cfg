CONSTANTS
    Processes = {p1}
    i1 = i1
    i2 = i2
    Installations = {i1}
    AppOf <- MCAppOf
    Manifest <- MCEverything
    MaxOperations = 2
    MaxFaults = 0
    StartupRecovery = TRUE
    NoOperation = NoOperation
    Times = {0, 1}
SPECIFICATION FairSpec
CHECK_DEADLOCK FALSE
PROPERTIES
    ApplyingEnds
