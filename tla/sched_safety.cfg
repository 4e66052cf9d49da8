SPECIFICATION Spec
CONSTANTS
    m1 = m1
    m2 = m2
    m3 = m3
    NoMachine = NoMachine
    Machines = {m1, m2}
    Managers = {w1, w2}
    Arch <- SameArch
    MaxTasks = 2
    Jobs <- PinnedJobs
    Env = {"submit", "remove", "ban"}
    MaxVMStartup = 2
    MaxMachines = 0
    MaxCount = 0
    Reschedule = FALSE
    Faults = {"disk", "file", "target", "start", "network", "rooter", "http", "stop"}
SYMMETRY ManagerSymmetry
INVARIANTS
    TypeOK
    MachineExclusive
    FreshGuest
    ResultsAttributed
    StartupBounded
    ResultsNotMixed
