CONSTANTS
    p1 = p1
    Processes = {p1, p2}
    i1 = i1
    i2 = i2
    i3 = i3
    i4 = i4
    i5 = i5
    Installations = {i1, i2, i3, i4, i5}
    AppOf <- MCAppOf
    Manifest <- MCMixed
    Paces = {"alone", "together"}
    MaxOperations = 3
    MaxTogether = 2
    MaxFaults = 1
    StartupRecovery = FALSE
    NoOperation = NoOperation
    Times = {0}
SPECIFICATION FairPacedSpec
CHECK_DEADLOCK FALSE
INVARIANTS
    InstalledAloneIsComplete
    AdvertisedWasApplied
    OneInstallationPerApp
PROPERTY RequestsEnd
