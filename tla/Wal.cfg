SPECIFICATION Spec
CONSTANTS
    Kinds <- AllKinds
    MaxWrites = 4
    MaxId = 5
    ImportIds <- PeerIds
    Faults = {"append_error", "rewrite_error", "sync_error", "short_write", "crash", "crash_in_append", "crash_in_rewrite"}
    MaxFaults = 1
    Unloaded = Unloaded
    Torn = Torn
INVARIANTS
  AcknowledgedSurvivesErrors
  RestartChangesNothing
  IdsAscend
  HighWaterAnswersLikeScan
CHECK_DEADLOCK FALSE
