SPECIFICATION Spec
CONSTANTS
    WorkerProcesses = 1
    MaxProcesses = 3
    Signals <- AllSignals
    MaxEdits = 2
    MaxSent = 2
    MaxAccidents = 2
INVARIANTS TypeOK OldAreTold FullStrength LeavesNobody
PROPERTIES ImplementsService OldFade ReloadTakes StopEnds
CHECK_DEADLOCK FALSE
