CONSTANTS
    Me = "me"
    Records <- MCRecords
    Addressed <- MCAddressed
    Now = 1
    Enrolments <- MCEnrolments
    Enrollers = {e1, e2}
    Tasks = {t1}
    MaxChain = 4
    MaxObjects = 2
    MaxFaults = 1
SPECIFICATION Spec
SYMMETRY TaskSymmetry
INVARIANTS OwnObjectsStayReadable RevokedDevicesAreLeftOut
PROPERTY AvailableIsTrue
CHECK_DEADLOCK FALSE
