SPECIFICATION FairSpec
CONSTANTS
    m1 = m1
    m2 = m2
    m3 = m3
    NoMachine = NoMachine
    Machines = {m1, m2}
    Managers = {w1, w2}
    Arch <- SameArch
    MaxTasks = 2
    Jobs <- PinnedJobs
    Env = {"submit"}
    MaxVMStartup = 1
    MaxMachines = 0
    MaxCount = 0
    Reschedule = FALSE
    Faults = {"file", "http"}
INVARIANTS
    MachineNotLeaked
PROPERTIES
    EveryTaskCompletes
