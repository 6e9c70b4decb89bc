SPECIFICATION Spec
CONSTANTS
    Devices = {1, 2, 3}
    Revocable = 2
    Cutoffs <- SomeCutoffs
    Mutations = {m1}
    MaxWrites = 4
    MaxFaults = 1
    Scenarios <- AllScenarios
    None = None
INVARIANTS
    CausallyClosed
    ClientsAreToldTheTruth
    ConflictsAreShownTruly
PROPERTIES
    AckedIsTheHead
    ReadsNeverGoBack
    RevokedDeviceIsSilent
CHECK_DEADLOCK FALSE
