CONSTANTS
    Machines = {m1}
    TaskIds = {t1, t2}
    Conns = {c1}
    NoTask = NoTask
    NoMachine = NoMachine
    Faults = {"http", "net", "hang", "reboot", "stop", "delete"}
    MaxFaults = 1
SPECIFICATION FairSpec
INVARIANTS TypeOK StoredRight AbandonedShut HandlersLive
PROPERTIES CompleteIsReported ServerAsSpecified EveryAnalysisEnds NoLingeringSockets
CHECK_DEADLOCK FALSE
