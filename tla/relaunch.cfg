SPECIFICATION Spec
CONSTANTS
    m1 = m1
    m2 = m2
    m3 = m3
    NoMachine = NoMachine
    Machines = {m1}
    Managers = {w1, w2}
    Arch <- SameArch
    MaxTasks = 1
    Jobs <- PlainJobs
    Env = {"submit"}
    MaxVMStartup = 2
    MaxMachines = 0
    MaxCount = 0
    Reschedule = FALSE
    Faults = {}
INVARIANTS
    LaunchedOnce
