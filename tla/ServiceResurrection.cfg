CONSTANTS
    Processes = {p1, p2}
    i1 = i1
    i2 = i2
    i3 = i3
    i4 = i4
    i5 = i5
    p1 = p1
    Paces = {"any"}
    MaxTogether = 0
    Installations = {i1, i2, i3}
    AppOf <- MCAppOf
    Manifest <- MCPlainWeb
    MaxOperations = 3
    MaxFaults = 0
    StartupRecovery = FALSE
    NoOperation = NoOperation
    Times = {0}
SPECIFICATION PacedSpec
CHECK_DEADLOCK FALSE
INVARIANT UninstalledStaysUninstalled
