SPECIFICATION Spec
CONSTANTS
    m1 = m1
    m2 = m2
    m3 = m3
    NoMachine = NoMachine
    Machines = {m1, m2}
    Managers = {w1, w2}
    Arch <- MixedArch
    MaxTasks = 2
    Jobs <- MixedJobs
    Env = {"submit", "delete", "remove", "mongodb", "reschedule"}
    MaxVMStartup = 2
    MaxMachines = 1
    MaxCount = 2
    Reschedule = FALSE
    Faults = {"add_task"}
SYMMETRY ManagerSymmetry
INVARIANTS
    ArchServed
