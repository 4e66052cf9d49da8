SPECIFICATION Spec
CONSTANTS
    m1 = m1
    m2 = m2
    m3 = m3
    NoMachine = NoMachine
    Machines = {m1, m2}
    Managers = {w1}
    Arch <- SameArch
    MaxTasks = 1
    Jobs <- PlainJobs
    Env = {"submit", "sighup"}
    MaxVMStartup = 2
    MaxMachines = 0
    MaxCount = 0
    Reschedule = FALSE
    Faults = {}
INVARIANTS
    GracefulStop
