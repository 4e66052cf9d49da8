CONSTANTS
    t1 = t1
    t2 = t2
    n1 = n1
    n2 = n2
    Tasks = {t2}
    NoTask = NoTask
    Nodes = {n1}
    AnyNode = AnyNode
    Want <- MCWant
    Slots <- MCSlots
    Threads = {h1, h2}
    HasFile = {t2}
    DeadCount = 1
    Callback = TRUE
    Nfs = FALSE
    Faults = {"unreachable", "refused", "lost", "get", "bad", "zip", "unpack", "store", "file", "delete", "restart", "disable", "remove", "failed", "callback"}
    MaxFaults = 1
    MaxIds = 2
    MaxDup = 2
SPECIFICATION FairSpec
INVARIANTS NeededKept RetrievedIsThere
PROPERTY EveryTaskEnds
