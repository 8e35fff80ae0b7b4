SPECIFICATION Spec
CONSTANTS
    Kinds <- AllKinds
    MaxWrites = 3
    MaxId = 5
    ImportIds <- PeerIds
    Faults = {"crash_in_append"}
    MaxFaults = 1
    Unloaded = Unloaded
    Torn = Torn
CHECK_DEADLOCK FALSE
INVARIANT AcknowledgedSurvivesRestart
