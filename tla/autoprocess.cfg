SPECIFICATION FairSpec
CONSTANTS
    NumTasks = 3
    Parallel = 2
    Futures = {f1, f2, f3}
    NoFuture = NoFuture
    MaxProcessed = 4
    FailedProcessing = FALSE
    Hazards = {"timeout", "error", "remove", "raise"}
INVARIANTS
    TypeOK
    OneWorkerPerTask
    MapsAgree
    PoolNotOverrun
PROPERTIES
    EveryTaskProcessed
