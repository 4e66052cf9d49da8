CONSTANTS
    t1 = t1
    t2 = t2
    n1 = n1
    n2 = n2
    Tasks = {t1, t2}
    NoTask = NoTask
    Nodes = {n1, n2}
    AnyNode = AnyNode
    Want <- MCWant
    Slots <- MCSlots
    Threads = {h1}
    HasFile = {t2}
    DeadCount = 1
    Callback = FALSE
    Nfs = TRUE
    Faults = {"unreachable", "refused", "lost", "get", "store", "file", "delete", "restart", "disable", "remove"}
    MaxFaults = 1
    MaxIds = 2
    MaxDup = 1
SPECIFICATION Spec
INVARIANTS TypeOK DistributedIsThere NeededKept ReportAttributed RetrievedIsThere
