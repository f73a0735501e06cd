CONSTANTS
    Processes = {p1}
    i1 = i1
    i2 = i2
    Installations = {i1, i2}
    AppOf <- MCAppOf
    Manifest <- MCEverything
    MaxOperations = 2
    MaxFaults = 2
    StartupRecovery = TRUE
    NoOperation = NoOperation
    Times = {0}
SPECIFICATION FairSpec
CHECK_DEADLOCK FALSE
INVARIANTS
    SecretBeforeActivation
    AdvertisedIsProvisioned
    EndedOperationsStand
PROPERTIES
    EffectsAreRecorded
    ApplyingEnds
    CompensationEndsOrIsBlocked
