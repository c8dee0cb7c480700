SPECIFICATION Spec
CONSTANTS
    SaveSteps = 1
    Batches = 2
    Limit = 2
    MaxStep = 4
    MaxEpochs = 2
    MaxSaves = 4
INVARIANTS
    TypeOK
    LoadIsOneSave
    LastSaveKept
CHECK_DEADLOCK FALSE
