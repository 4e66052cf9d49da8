SPECIFICATION Spec
CONSTANTS
    m1 = m1
    m2 = m2
    m3 = m3
    NoMachine = NoMachine
    Machines = {m1, m2}
    Managers = {w1, w2}
    Arch <- SameArch
    MaxTasks = 3
    Jobs <- PlainJobs
    Env = {"submit","report","crash","sighup","interrupt"}
    MaxVMStartup = 2
    MaxMachines = 0
    MaxCount = 0
    Reschedule = TRUE
    Faults = {"start", "network"}
SYMMETRY HostSymmetry
INVARIANTS
    LockReturned
    RunningIsAttended
    CompletedMeansDone
PROPERTIES
    ReportNotUndone
    TasksLiveAsPromised
