--------------------------- MODULE SchedulerProofs ---------------------------
(***************************************************************************)
(* Theorems about Scheduler, for every set of machines, managers and tasks,  *)
(* every configuration and every combination of faults.                     *)
(***************************************************************************)
EXTENDS Scheduler, FiniteSetTheorems, TLAPS

-----------------------------------------------------------------------------
(* The parts of the state that are plain data: every conjunct of TypeOK but   *)
(* the two counters, whose range follows from what they count.              *)
DataOK ==
    /\ DatabaseTypeOK
    /\ vm \in [Machines -> TaskIds \cup {NoTask}]
    /\ rs \in [Machines -> TaskIds \cup {NoTask}]
    /\ total \in 0..MaxCount
    /\ running \in BOOLEAN
    /\ errors \in BOOLEAN
    /\ spc \in SchedulerPC
    /\ stask \in TaskIds \cup {NoTask}
    /\ smach \in Machines \cup {NoMachine}
    /\ avail \in SUBSET Machines
    /\ recovering \in SUBSET TaskIds
    /\ readding \in TaskIds \cup {NoTask}
    /\ pc \in [Managers -> ManagerPC]
    /\ job \in [Managers -> TaskIds \cup {NoTask}]
    /\ mach \in [Managers -> Machines \cup {NoMachine}]
    /\ outcome \in [Managers -> Outcome]
    /\ glog \in [Managers -> BOOLEAN]

(* Blank is a job, so an unused row is a row. *)
LEMMA BlankType == [status |-> "none", job |-> Blank] \in RowType
BY DEF RowType, Status, JobType, Blank

(* Changing the status of a row gives a row. *)
LEMMA StatusType ==
    ASSUME tasks \in [TaskIds -> RowType], NEW t \in TaskIds, NEW s \in Status
    PROVE  [tasks EXCEPT ![t].status = s] \in [TaskIds -> RowType]
BY DEF RowType

(* set_status keeps the table well-formed. *)
LEMMA SetStatusType ==
    ASSUME tasks \in [TaskIds -> RowType], NEW t, NEW s \in Status, SetStatus(t, s)
    PROVE  tasks' \in [TaskIds -> RowType]
BY StatusType DEF SetStatus, Exists

(* So does the machine column of set_task_vm. *)
LEMMA TaskVmType ==
    ASSUME tasks \in [TaskIds -> RowType], NEW t \in TaskIds, NEW m \in Machines
    PROVE  [tasks EXCEPT ![t].job.machine = m] \in [TaskIds -> RowType]
<1>1. tasks[t] \in RowType
  OBVIOUS
<1>2. [tasks[t].job EXCEPT !.machine = m] \in JobType
  BY <1>1 DEF RowType, JobType
<1>3. [tasks[t] EXCEPT !.job = [tasks[t].job EXCEPT !.machine = m]] \in RowType
  BY <1>1, <1>2 DEF RowType
<1>4. [tasks EXCEPT ![t].job.machine = m]
        = [tasks EXCEPT ![t] = [tasks[t] EXCEPT !.job = [tasks[t].job EXCEPT !.machine = m]]]
  OBVIOUS
<1> QED
  BY <1>3, <1>4

(* And the row that add appends. *)
LEMMA AddedType ==
    ASSUME NEW rows \in [TaskIds -> RowType], NEW n \in TaskIds, NEW j \in JobType
    PROVE  Added(rows, n, j) \in [TaskIds -> RowType]
BY DEF Added, RowType, Status

(* Copy keeps the type of a submission. *)
LEMMA CopyType == ASSUME NEW j \in JobType PROVE Copy(j) \in JobType
BY DEF Copy, JobType

-----------------------------------------------------------------------------
(* The steps of the other processes keep the database well-formed. *)
LEMMA OtherProcessesType ==
    ASSUME DatabaseTypeOK, OtherProcesses
    PROVE  DatabaseTypeOK'
<1> USE DEF DatabaseTypeOK
<1>1. ASSUME NEW j \in Jobs, Submit(j) PROVE DatabaseTypeOK'
  BY <1>1, AddedType, DatabaseAssumption DEF Submit
<1>2. ASSUME NEW t \in TaskIds, Remove(t) PROVE DatabaseTypeOK'
  BY <1>2, StatusType DEF Remove, Status
<1>3. ASSUME NEW t \in TaskIds, TasksDelete(t) PROVE DatabaseTypeOK'
  BY <1>3, StatusType DEF TasksDelete, Status
<1>4. ASSUME NEW u \in Users, BanUserTasks(u) PROVE DatabaseTypeOK'
  BY <1>4 DEF BanUserTasks, Status, RowType
<1>5. ASSUME NEW t \in TaskIds, TasksReschedule(t) PROVE DatabaseTypeOK'
  <2> DEFINE marked == [tasks EXCEPT ![t].status = "recovered"]
  <2>1. marked \in [TaskIds -> RowType]
    BY StatusType DEF Status
  <2>2. Copy(tasks[t].job) \in JobType
    BY CopyType DEF RowType
  <2>3. \A n \in TaskIds : Added(marked, n, Copy(tasks[t].job)) \in [TaskIds -> RowType]
    BY <2>1, <2>2, AddedType
  <2> HIDE DEF marked
  <2>4. tasks' \in [TaskIds -> RowType]
    BY <1>5, <2>1, <2>3 DEF TasksReschedule, marked
  <2> QED
    BY <1>5, <2>4 DEF TasksReschedule
<1>6. ASSUME NEW t \in TaskIds, Report(t) PROVE DatabaseTypeOK'
  BY <1>6, SetStatusType DEF Report, Status
<1> QED
  BY <1>1, <1>2, <1>3, <1>4, <1>5, <1>6 DEF OtherProcesses

-----------------------------------------------------------------------------
(* Every step keeps the data well-formed. *)
LEMMA DataStep ==
    ASSUME DataOK, Handed, [Next]_vars
    PROVE  DataOK'
<1> USE SchedulerAssumption, DatabaseAssumption
    DEF DataOK, DatabaseTypeOK, dbVars, hostVars, procVars, loopVars, bootVars, mgrVars
<1>lost. ASSUME ProcessMemoryLost PROVE
           /\ rs' \in [Machines -> TaskIds \cup {NoTask}]
           /\ total' \in 0..MaxCount /\ errors' \in BOOLEAN
           /\ spc' \in SchedulerPC /\ stask' \in TaskIds \cup {NoTask}
           /\ smach' \in Machines \cup {NoMachine} /\ avail' \in SUBSET Machines
           /\ recovering' \in SUBSET TaskIds /\ readding' \in TaskIds \cup {NoTask}
           /\ pc' \in [Managers -> ManagerPC]
           /\ job' \in [Managers -> TaskIds \cup {NoTask}]
           /\ mach' \in [Managers -> Machines \cup {NoMachine}]
           /\ outcome' \in [Managers -> Outcome] /\ glog' \in [Managers -> BOOLEAN]
  <2>1. /\ pc' \in [Managers -> ManagerPC]
        /\ outcome' \in [Managers -> Outcome]
        /\ spc' \in SchedulerPC
    BY <1>lost DEF ProcessMemoryLost, SchedulerPC, ManagerPC, Outcome
  <2>2. /\ rs' \in [Machines -> TaskIds \cup {NoTask}]
        /\ job' \in [Managers -> TaskIds \cup {NoTask}]
        /\ mach' \in [Managers -> Machines \cup {NoMachine}]
        /\ glog' \in [Managers -> BOOLEAN]
    BY <1>lost DEF ProcessMemoryLost
  <2>3. total' \in 0..MaxCount
    BY <1>lost DEF ProcessMemoryLost
  <2> QED
    BY <1>lost, <2>1, <2>2, <2>3 DEF ProcessMemoryLost
<1>shut. ASSUME MachineryShutdown PROVE vm' \in [Machines -> TaskIds \cup {NoTask}]
  BY <1>shut DEF MachineryShutdown
<1>stay. CASE UNCHANGED vars
  BY <1>stay DEF vars
<1>env. CASE OtherProcess
  BY <1>env, OtherProcessesType DEF OtherProcess
<1>1. CASE Probe
  BY <1>1 DEF Probe, SchedulerPC
<1>2. CASE Limits
  BY <1>2 DEF Limits, SchedulerPC
<1>3. CASE Availables
  BY <1>3, <1>shut DEF Availables, SchedulerPC
<1>4. CASE GetAvailableMachines
  BY <1>4 DEF GetAvailableMachines, SchedulerPC
<1>5. ASSUME NEW m \in Machines, FetchSelect(m) PROVE DataOK'
  BY <1>5 DEF FetchSelect, FetchNone, SchedulerPC
<1>6. CASE FetchMark
  <2>1. CASE Exists(stask)
    <3>1. stask \in TaskIds /\ smach \in Machines
      BY <2>1 DEF Exists, Handed, NoTask, TaskIds
    <3>2. [tasks EXCEPT ![stask].status = "running", ![stask].job.machine = smach]
            \in [TaskIds -> RowType]
      <4> DEFINE marked == [tasks EXCEPT ![stask].status = "running"]
      <4>1. marked \in [TaskIds -> RowType]
        BY <3>1, StatusType DEF Status
      <4>2. [marked EXCEPT ![stask].job.machine = smach] \in [TaskIds -> RowType]
        <5>1. marked[stask] \in RowType
          BY <3>1, <4>1
        <5>2. [marked[stask].job EXCEPT !.machine = smach] \in JobType
          BY <3>1, <5>1 DEF RowType, JobType
        <5>3. [marked[stask] EXCEPT !.job = [marked[stask].job EXCEPT !.machine = smach]]
                \in RowType
          BY <5>1, <5>2 DEF RowType
        <5> QED
          BY <4>1, <5>3
      <4> QED
        BY <4>2
    <3> QED
      BY <1>6, <2>1, <3>2 DEF FetchMark, SchedulerPC
  <2>2. CASE ~Exists(stask)
    BY <1>6, <2>2 DEF FetchMark, FetchNone, SchedulerPC
  <2> QED
    BY <2>1, <2>2
<1>7. ASSUME NEW w \in Managers, Spawn(w) PROVE DataOK'
  BY <1>7 DEF Spawn, SchedulerPC, ManagerPC
<1>8. CASE NothingToSpawn
  BY <1>8 DEF NothingToSpawn, SchedulerPC
<1>9. CASE DealWithErrors
  BY <1>9, <1>lost DEF DealWithErrors, SchedulerPC
<1>10. CASE LoopExit
  BY <1>10, <1>lost DEF LoopExit
<1>11. CASE SetStopAnalyzing
  BY <1>11 DEF SetStopAnalyzing
<1>12. CASE KeyboardInterrupt
  BY <1>12, <1>lost, <1>shut DEF KeyboardInterrupt
<1>13. CASE Crash
  BY <1>13, <1>lost DEF Crash
<1>14. CASE InitTasks
  BY <1>14 DEF InitTasks, ToRecover, InStatus, SchedulerPC
<1>15. ASSUME NEW t \in TaskIds, RecoverTask(t) PROVE DataOK'
  BY <1>15, SetStatusType DEF RecoverTask, Status
<1>16. CASE Readd
  <2>1. readding \in TaskIds
    BY <1>16 DEF Readd
  <2>2. Copy(tasks[readding].job) \in JobType
    BY <2>1, CopyType DEF RowType
  <2>3. tasks' \in [TaskIds -> RowType]
    BY <1>16, <2>2, AddedType DEF Readd
  <2> QED
    BY <1>16, <2>3 DEF Readd
<1>17. CASE Initialize
  BY <1>17 DEF Initialize, SchedulerPC
<1>18. ASSUME NEW w \in Managers, CountUp(w) PROVE DataOK'
  BY <1>18 DEF CountUp, Goto, ManagerPC
<1>19. ASSUME NEW w \in Managers, InitStorage(w) PROVE DataOK'
  BY <1>19 DEF InitStorage, Goto, ManagerPC, Handed, Live
<1>20. ASSUME NEW w \in Managers, CategoryChecks(w) PROVE DataOK'
  BY <1>20 DEF CategoryChecks, Goto, ManagerPC
<1>21. ASSUME NEW w \in Managers, AcquireLock(w) PROVE DataOK'
  BY <1>21 DEF AcquireLock, Goto, ManagerPC
<1>22. ASSUME NEW w \in Managers, AcquireMachine(w) PROVE DataOK'
  <2>1. job[w] \in TaskIds /\ mach[w] \in Machines
    BY <1>22 DEF AcquireMachine, Handed, Live
  <2>2. tasks' \in [TaskIds -> RowType]
    BY <1>22, <2>1, TaskVmType DEF AcquireMachine
  <2> QED
    BY <1>22, <2>1, <2>2 DEF AcquireMachine, LockMachine, LockAgain, Goto, ManagerPC
<1>23. ASSUME NEW w \in Managers, BuildOptions(w) PROVE DataOK'
  BY <1>23 DEF BuildOptions, Goto, ManagerPC
<1>24. ASSUME NEW w \in Managers, AddTask(w) PROVE DataOK'
  BY <1>24 DEF AddTask, Goto, ManagerPC, UnlockMachine
<1>25. ASSUME NEW w \in Managers, GuestStart(w) PROVE DataOK'
  BY <1>25 DEF GuestStart, Goto, ManagerPC, Leave, Outcome, Handed, Live
<1>26. ASSUME NEW w \in Managers, MachineryStart(w) PROVE DataOK'
  BY <1>26 DEF MachineryStart, Goto, ManagerPC, Leave, Outcome
<1>27. ASSUME NEW w \in Managers, RouteNetwork(w) PROVE DataOK'
  BY <1>27 DEF RouteNetwork, Goto, ManagerPC, Leave, Outcome
<1>28. ASSUME NEW w \in Managers, GuestAnalysis(w) PROVE DataOK'
  BY <1>28 DEF GuestAnalysis, Goto, ManagerPC, Leave, Outcome
<1>29. ASSUME NEW w \in Managers, MachineryStop(w) PROVE DataOK'
  BY <1>29 DEF MachineryStop, Goto, ManagerPC
<1>30. ASSUME NEW w \in Managers, GuestStop(w) PROVE DataOK'
  BY <1>30 DEF GuestStop, Goto, ManagerPC
<1>31. ASSUME NEW w \in Managers, DelTask(w) PROVE DataOK'
  BY <1>31 DEF DelTask, Goto, ManagerPC, Forget
<1>32. ASSUME NEW w \in Managers, DeadMachine(w) PROVE DataOK'
  BY <1>32 DEF DeadMachine, Goto, ManagerPC, Outcome
<1>33. ASSUME NEW w \in Managers, MachineryRelease(w) PROVE DataOK'
  BY <1>33 DEF MachineryRelease, Goto, ManagerPC, UnlockMachine
<1>34. ASSUME NEW w \in Managers, Complete(w) PROVE DataOK'
  BY <1>34, SetStatusType DEF Complete, Goto, ManagerPC, ThreadEnds, Outcome, Status
<1>35. ASSUME NEW w \in Managers, Escape(w) PROVE DataOK'
  BY <1>35 DEF Escape, Goto, ManagerPC, ThreadEnds, Outcome
<1>mgr. ASSUME NEW w \in Managers, Manager(w) PROVE DataOK'
  BY <1>mgr, <1>18, <1>19, <1>20, <1>21, <1>22, <1>23, <1>24, <1>25, <1>26, <1>27, <1>28, <1>29, <1>30, <1>31, <1>32, <1>33, <1>34, <1>35 DEF Manager
<1> QED
  BY <1>stay, <1>env, <1>mgr, <1>1, <1>2, <1>3, <1>4, <1>5, <1>6, <1>7, <1>8, <1>9, <1>10, <1>11, <1>12, <1>13, <1>14, <1>15, <1>16, <1>17
  DEF Next, MainThread, StartUp, Signals

-----------------------------------------------------------------------------
(* What a step of manager w may do to the rest, in terms of where it goes. *)
Move(w) ==
    LET l == pc'[w] IN
    /\ pc[w] # "idle"
    /\ l \in ManagerPC \ {"count"}
    /\ pc' = [pc EXCEPT ![w] = l]
    /\ UNCHANGED <<spc, stask, smach>>
    /\ IF l = "idle" THEN /\ job' = [job EXCEPT ![w] = NoTask]
                          /\ mach' = [mach EXCEPT ![w] = NoMachine]
                     ELSE UNCHANGED <<job, mach>>
    /\ \/ pc[w] = "count" /\ l # "idle" /\ active' = active + 1
       \/ pc[w] # "count" /\ l = "idle" /\ active' = active - 1
       \/ pc[w] # "count" /\ l # "idle" /\ active' = active
    /\ \/ pc[w] \notin Holding /\ l \in Holding /\ permits > 0 /\ permits' = permits - 1
       \/ pc[w] \in Holding /\ l \notin Holding /\ permits' \in {permits, permits + 1}
       \/ (pc[w] \in Holding <=> l \in Holding) /\ permits' = permits

(* Every step of a manager is such a move. *)
LEMMA ManagerMoves ==
    ASSUME NEW w \in Managers, DataOK, Manager(w)
    PROVE  Move(w)
<1> USE DEF DataOK, ManagerPC, Move, Goto, Holding, procVars, loopVars
<1>1. CASE CountUp(w)
  BY <1>1 DEF CountUp
<1>2. CASE InitStorage(w)
  BY <1>2 DEF InitStorage
<1>3. CASE CategoryChecks(w)
  BY <1>3 DEF CategoryChecks
<1>4. CASE AcquireLock(w)
  BY <1>4 DEF AcquireLock
<1>5. CASE AcquireMachine(w)
  BY <1>5 DEF AcquireMachine, LockAgain
<1>6. CASE BuildOptions(w)
  BY <1>6 DEF BuildOptions
<1>7. CASE AddTask(w)
  BY <1>7 DEF AddTask
<1>8. CASE GuestStart(w)
  BY <1>8 DEF GuestStart, Leave
<1>9. CASE MachineryStart(w)
  BY <1>9 DEF MachineryStart, Leave
<1>10. CASE RouteNetwork(w)
  BY <1>10 DEF RouteNetwork, Leave
<1>11. CASE GuestAnalysis(w)
  BY <1>11 DEF GuestAnalysis, Leave
<1>12. CASE MachineryStop(w)
  BY <1>12 DEF MachineryStop
<1>13. CASE GuestStop(w)
  BY <1>13 DEF GuestStop
<1>14. CASE DelTask(w)
  BY <1>14 DEF DelTask
<1>15. CASE DeadMachine(w)
  BY <1>15 DEF DeadMachine
<1>16. CASE MachineryRelease(w)
  BY <1>16 DEF MachineryRelease
<1>17. CASE Complete(w)
  BY <1>17 DEF Complete, ThreadEnds
<1>18. CASE Escape(w)
  BY <1>18 DEF Escape, ThreadEnds
<1> QED
  BY <1>1, <1>2, <1>3, <1>4, <1>5, <1>6, <1>7, <1>8, <1>9, <1>10, <1>11, <1>12, <1>13, <1>14, <1>15, <1>16, <1>17, <1>18 DEF Manager

(* The steps that leave the managers alone. *)
Quiet ==
    /\ UNCHANGED <<permits, active, pc, job, mach>>
    /\ \/ UNCHANGED <<stask, smach>> /\ (spc' = "mark" => spc = "mark")
       \/ stask' = NoTask /\ smach' = NoMachine /\ spc' # "mark"
       \/ stask' \in TaskIds /\ smach' \in Machines
    /\ ~ProcessUp' => ~ProcessUp

(* A step of the system ends the process, starts a manager, is a step of a    *)
(* manager, or leaves the managers alone.                                   *)
LEMMA StepShape ==
    ASSUME DataOK, [Next]_vars
    PROVE  \/ ProcessMemoryLost
           \/ \E w \in Managers : Spawn(w)
           \/ \E w \in Managers : Manager(w)
           \/ Quiet
<1> USE DEF DataOK, dbVars, hostVars, procVars, loopVars, bootVars, mgrVars, ProcessUp
<1>1. CASE UNCHANGED vars
  BY <1>1 DEF vars, Quiet
<1>2. CASE OtherProcess
  BY <1>2 DEF OtherProcess, Quiet
<1>3. CASE StartUp
  <2>1. CASE InitTasks
    BY <2>1 DEF InitTasks, Quiet
  <2>2. ASSUME NEW t \in TaskIds, RecoverTask(t) PROVE Quiet
    BY <2>2 DEF RecoverTask, Quiet
  <2>3. CASE Readd
    BY <2>3 DEF Readd, Quiet
  <2>4. CASE Initialize
    BY <2>4 DEF Initialize, Quiet
  <2> QED
    BY <1>3, <2>1, <2>2, <2>3, <2>4 DEF StartUp
<1>4. CASE Signals
  BY <1>4 DEF Signals, SetStopAnalyzing, KeyboardInterrupt, Crash, Quiet
<1>5. CASE MainThread
  <2>1. CASE Probe \/ Limits \/ NothingToSpawn \/ GetAvailableMachines
    BY <2>1 DEF Probe, Limits, NothingToSpawn, GetAvailableMachines, Quiet
  <2>2. CASE Availables
    BY <2>2 DEF Availables, Quiet
  <2>3. ASSUME NEW m \in Machines, FetchSelect(m) PROVE Quiet
    BY <2>3 DEF FetchSelect, FetchNone, Quiet
  <2>4. CASE FetchMark
    BY <2>4 DEF FetchMark, FetchNone, Quiet
  <2>5. CASE DealWithErrors
    BY <2>5 DEF DealWithErrors, Quiet
  <2>6. CASE LoopExit
    BY <2>6 DEF LoopExit
  <2> QED
    BY <1>5, <2>1, <2>2, <2>3, <2>4, <2>5, <2>6 DEF MainThread
<1> QED
  BY <1>1, <1>2, <1>3, <1>4, <1>5 DEF Next

-----------------------------------------------------------------------------
(* A task that is handed on names a machine. *)
LEMMA HandedStep ==
    ASSUME DataOK, Handed, [Next]_vars
    PROVE  Handed'
<1> USE DEF Handed, Live
<1>1. CASE ProcessMemoryLost
  BY <1>1 DEF ProcessMemoryLost
<1>2. ASSUME NEW w \in Managers, Spawn(w) PROVE Handed'
  BY <1>2 DEF Spawn, DataOK
<1>3. ASSUME NEW w \in Managers, Manager(w) PROVE Handed'
  <2>1. Move(w)
    BY <1>3, ManagerMoves
  <2> QED
    BY <2>1 DEF Move, DataOK
<1>4. CASE Quiet
  BY <1>4, DatabaseAssumption DEF Quiet, NoTask, TaskIds
<1> QED
  BY <1>1, <1>2, <1>3, <1>4, StepShape

(* No manager is alive while the process is not. *)
LEMMA IdleStep ==
    ASSUME DataOK, DownMeansIdle, [Next]_vars
    PROVE  DownMeansIdle'
<1> USE DEF DownMeansIdle
<1>1. CASE ProcessMemoryLost
  BY <1>1 DEF ProcessMemoryLost
<1>2. ASSUME NEW w \in Managers, Spawn(w) PROVE DownMeansIdle'
  BY <1>2 DEF Spawn, ProcessUp
<1>3. ASSUME NEW w \in Managers, Manager(w) PROVE DownMeansIdle'
  <2>1. Move(w)
    BY <1>3, ManagerMoves
  <2> QED
    BY <2>1 DEF Move, ProcessUp
<1>4. CASE Quiet
  BY <1>4 DEF Quiet
<1> QED
  BY <1>1, <1>2, <1>3, <1>4, StepShape

(* The two sets of managers that are counted are finite. *)
LEMMA FiniteParts ==
    /\ IsFiniteSet(Begun) /\ Cardinality(Begun) \in Nat
    /\ IsFiniteSet(Holders) /\ Cardinality(Holders) \in Nat
<1>1. Begun \subseteq Managers /\ Holders \subseteq Managers
  BY DEF Begun, Holders
<1>2. IsFiniteSet(Begun) /\ IsFiniteSet(Holders)
  BY <1>1, SchedulerAssumption, FS_Subset
<1> QED
  BY <1>2, FS_CardinalityType

(* active_analysis_count counts the managers that have begun. *)
LEMMA CountedStep ==
    ASSUME DataOK, Counted, [Next]_vars
    PROVE  Counted'
<1> USE DEF Counted
<1>1. CASE ProcessMemoryLost
  <2>1. Begun' = {}
    BY <1>1 DEF ProcessMemoryLost, Begun
  <2> QED
    BY <1>1, <2>1, FS_EmptySet DEF ProcessMemoryLost
<1>2. ASSUME NEW w \in Managers, Spawn(w) PROVE Counted'
  <2>1. Begun' = Begun
    BY <1>2 DEF Spawn, Begun, DataOK
  <2> QED
    BY <1>2, <2>1 DEF Spawn
<1>3. ASSUME NEW w \in Managers, Manager(w) PROVE Counted'
  <2>1. Move(w)
    BY <1>3, ManagerMoves
  <2>2. CASE pc[w] = "count" /\ pc'[w] # "idle" /\ active' = active + 1
    <3>1. w \notin Begun /\ Begun' = Begun \cup {w}
      BY <2>1, <2>2 DEF Move, Begun, DataOK
    <3> QED
      BY <2>2, <3>1, FiniteParts, FS_AddElement
  <2>3. CASE pc[w] # "count" /\ pc'[w] = "idle" /\ active' = active - 1
    <3>1. w \in Begun /\ Begun' = Begun \ {w}
      BY <2>1, <2>3 DEF Move, Begun, DataOK
    <3> QED
      BY <2>3, <3>1, FiniteParts, FS_RemoveElement
  <2>4. CASE pc[w] # "count" /\ pc'[w] # "idle" /\ active' = active
    <3>1. Begun' = Begun
      BY <2>1, <2>4 DEF Move, Begun, DataOK
    <3> QED
      BY <2>4, <3>1
  <2> QED
    BY <2>1, <2>2, <2>3, <2>4 DEF Move
<1>4. CASE Quiet
  <2>1. Begun' = Begun
    BY <1>4 DEF Quiet, Begun
  <2> QED
    BY <1>4, <2>1 DEF Quiet
<1> QED
  BY <1>1, <1>2, <1>3, <1>4, StepShape

(* machine_lock is never released more often than it was acquired. *)
LEMMA BoundedStep ==
    ASSUME DataOK, permits \in Nat, StartupBounded, [Next]_vars
    PROVE  permits' \in Nat /\ StartupBounded'
<1> USE SchedulerAssumption DEF StartupBounded
<1>1. CASE ProcessMemoryLost
  <2>1. Holders' = {}
    BY <1>1 DEF ProcessMemoryLost, Holders, Holding
  <2> QED
    BY <1>1, <2>1, FS_EmptySet DEF ProcessMemoryLost
<1>2. ASSUME NEW w \in Managers, Spawn(w) PROVE permits' \in Nat /\ StartupBounded'
  <2>1. Holders' = Holders
    BY <1>2 DEF Spawn, Holders, Holding, DataOK
  <2> QED
    BY <1>2, <2>1 DEF Spawn
<1>3. ASSUME NEW w \in Managers, Manager(w) PROVE permits' \in Nat /\ StartupBounded'
  <2>1. Move(w)
    BY <1>3, ManagerMoves
  <2>2. CASE pc[w] \notin Holding /\ pc'[w] \in Holding /\ permits > 0 /\ permits' = permits - 1
    <3>1. w \notin Holders /\ Holders' = Holders \cup {w}
      BY <2>1, <2>2 DEF Move, Holders, DataOK
    <3>2. Cardinality(Holders') = Cardinality(Holders) + 1
      BY <3>1, FiniteParts, FS_AddElement
    <3> QED
      BY <2>2, <3>2, FiniteParts
  <2>3. CASE pc[w] \in Holding /\ pc'[w] \notin Holding /\ permits' \in {permits, permits + 1}
    <3>1. w \in Holders /\ Holders' = Holders \ {w}
      BY <2>1, <2>3 DEF Move, Holders, DataOK
    <3>2. Cardinality(Holders') = Cardinality(Holders) - 1
      BY <3>1, FiniteParts, FS_RemoveElement
    <3> QED
      BY <2>3, <3>2, FiniteParts
  <2>4. CASE (pc[w] \in Holding <=> pc'[w] \in Holding) /\ permits' = permits
    <3>1. Holders' = Holders
      BY <2>1, <2>4 DEF Move, Holders, DataOK
    <3> QED
      BY <2>4, <3>1
  <2> QED
    BY <2>1, <2>2, <2>3, <2>4 DEF Move
<1>4. CASE Quiet
  <2>1. Holders' = Holders
    BY <1>4 DEF Quiet, Holders
  <2> QED
    BY <1>4, <2>1 DEF Quiet
<1> QED
  BY <1>1, <1>2, <1>3, <1>4, StepShape

-----------------------------------------------------------------------------
(* What holds whatever fails. *)
BaseInv ==
    /\ DataOK
    /\ permits \in Nat
    /\ Handed
    /\ DownMeansIdle
    /\ Counted
    /\ StartupBounded

(* The counters stay in their range because of what they count. *)
LEMMA BaseGivesType == BaseInv => TypeOK
<1> SUFFICES ASSUME BaseInv PROVE TypeOK
  OBVIOUS
<1>1. active \in Nat
  BY FiniteParts DEF BaseInv, Counted
<1>2. permits \in 0..MaxVMStartup
  BY FiniteParts, SchedulerAssumption DEF BaseInv, StartupBounded
<1> QED
  BY <1>1, <1>2 DEF BaseInv, DataOK, TypeOK

(* The inductive invariant holds at the start ... *)
LEMMA BaseInit == Init => BaseInv
<1> SUFFICES ASSUME Init PROVE BaseInv
  OBVIOUS
<1> USE SchedulerAssumption, DatabaseAssumption DEF Init, DatabaseInit
<1>1. tasks \in [TaskIds -> RowType]
  BY BlankType
<1>2. pc \in [Managers -> ManagerPC] /\ outcome \in [Managers -> Outcome] /\ spc \in SchedulerPC
  BY DEF ManagerPC, Outcome, SchedulerPC
<1>3. total \in 0..MaxCount
  OBVIOUS
<1>4. DataOK
  BY <1>1, <1>2, <1>3 DEF DataOK, DatabaseTypeOK
<1>5. Handed /\ DownMeansIdle
  BY DEF Handed, Live, DownMeansIdle
<1>6. Begun = {} /\ Holders = {}
  BY DEF Begun, Holders, Holding
<1>7. Cardinality(Begun) = 0 /\ Cardinality(Holders) = 0
  BY <1>6, FS_EmptySet
<1> QED
  BY <1>4, <1>5, <1>7 DEF BaseInv, Counted, StartupBounded

(* ... and every step keeps it. *)
LEMMA BaseStep == BaseInv /\ [Next]_vars => BaseInv'
BY DataStep, HandedStep, IdleStep, CountedStep, BoundedStep DEF BaseInv

(* Type correctness: in particular machine_lock, a BoundedSemaphore, is never  *)
(* released beyond its limit, and active_analysis_count never negative.     *)
THEOREM TypeCorrect == Spec => []TypeOK
<1>1. Spec => []BaseInv
  BY BaseInit, BaseStep, PTL DEF Spec
<1> QED
  BY <1>1, BaseGivesType, PTL

(* For every configuration and all faults: no path through launch_analysis     *)
(* gives more permits back than it took.                                    *)
THEOREM StartupIsBounded == Spec => []StartupBounded
<1>1. Spec => []BaseInv
  BY BaseInit, BaseStep, PTL DEF Spec
<1>2. BaseInv => StartupBounded
  BY DEF BaseInv
<1> QED
  BY <1>1, <1>2, PTL

-----------------------------------------------------------------------------
(* Machines and their owners, when add_task does not raise. *)

Registered == Owning \ {"options", "register", "dead", "release"}

(* What a step of manager w may do to the machines: it touches its own only,  *)
(* and only as an owner.                                                    *)
Touch(w) ==
    /\ \/ locked' = locked /\ (pc'[w] \in Owning => pc[w] \in Owning)
       \/ mach[w] \notin locked /\ locked' = locked \cup {mach[w]}
       \/ locked' = locked \ {mach[w]} /\ pc[w] \in Owning /\ pc'[w] \notin Owning
    /\ \/ vm' = vm
       \/ pc[w] \in Owning /\ \A m \in Machines : m # mach[w] => vm'[m] = vm[m]
    /\ pc'[w] = "route" => vm'[mach[w]] = job[w]
    /\ pc'[w] = "guest" => pc[w] = "route" /\ vm' = vm
    /\ \/ rs' = rs
       \/ pc[w] \in Owning /\ \A m \in Machines : m # mach[w] => rs'[m] = rs[m]
    /\ pc'[w] \in Registered =>
         \/ pc[w] \in Registered /\ rs' = rs
         \/ rs'[mach[w]] = job[w]

(* Every step of a manager has the effect on machines that Touch allows. *)
LEMMA ManagerTouches ==
    ASSUME NEW w \in Managers, DataOK, Handed, "add_task" \notin Faults, Manager(w)
    PROVE  Touch(w)
<1> USE DEF DataOK, DatabaseTypeOK, Touch, Handed, Live, Goto, Owning, Registered, dbVars, hostVars
<1>1. CASE CountUp(w)
  BY <1>1 DEF CountUp
<1>2. CASE InitStorage(w)
  BY <1>2 DEF InitStorage
<1>3. CASE CategoryChecks(w)
  BY <1>3 DEF CategoryChecks
<1>4. CASE AcquireLock(w)
  BY <1>4 DEF AcquireLock
<1>5. CASE AcquireMachine(w)
  BY <1>5 DEF AcquireMachine, LockAgain, LockMachine
<1>6. CASE BuildOptions(w)
  BY <1>6 DEF BuildOptions
<1>7. CASE AddTask(w)
  BY <1>7 DEF AddTask, UnlockMachine
<1>8. CASE GuestStart(w)
  BY <1>8 DEF GuestStart, Leave
<1>9. CASE MachineryStart(w)
  BY <1>9 DEF MachineryStart, Leave
<1>10. CASE RouteNetwork(w)
  BY <1>10 DEF RouteNetwork, Leave
<1>11. CASE GuestAnalysis(w)
  BY <1>11 DEF GuestAnalysis, Leave
<1>12. CASE MachineryStop(w)
  BY <1>12 DEF MachineryStop
<1>13. CASE GuestStop(w)
  BY <1>13 DEF GuestStop
<1>14. CASE DelTask(w)
  BY <1>14 DEF DelTask, Forget
<1>15. CASE DeadMachine(w)
  BY <1>15 DEF DeadMachine
<1>16. CASE MachineryRelease(w)
  BY <1>16 DEF MachineryRelease, UnlockMachine
<1>17. CASE Complete(w)
  BY <1>17 DEF Complete, ThreadEnds
<1>18. CASE Escape(w)
  BY <1>18 DEF Escape, ThreadEnds
<1> QED
  BY <1>1, <1>2, <1>3, <1>4, <1>5, <1>6, <1>7, <1>8, <1>9, <1>10, <1>11, <1>12, <1>13, <1>14, <1>15, <1>16, <1>17, <1>18 DEF Manager

(* The main thread, start-up, the signals and the other processes leave the     *)
(* machines alone, or no manager has begun.                                 *)
LEMMA OthersTouch ==
    ASSUME BaseInv, [Next]_vars, ~ProcessMemoryLost, ~\E w \in Managers : Manager(w)
    PROVE  /\ rs' = rs
           /\ locked' = locked \/ Begun = {}
           /\ vm' = vm \/ Begun = {}
           /\ \A w \in Managers : pc'[w] \in Owning \cup {"guest"} =>
                 pc'[w] = pc[w] /\ job'[w] = job[w] /\ mach'[w] = mach[w]
<1> USE DEF BaseInv, DataOK, dbVars, hostVars, procVars, loopVars, bootVars, mgrVars, Owning
<1>1. CASE UNCHANGED vars
  BY <1>1 DEF vars
<1>2. CASE OtherProcess
  BY <1>2 DEF OtherProcess, OtherProcesses, Submit, Remove, TasksDelete, BanUserTasks,
              TasksReschedule, Report
<1>3. CASE InitTasks \/ Readd \/ \E t \in TaskIds : RecoverTask(t)
  BY <1>3 DEF InitTasks, Readd, RecoverTask
<1>4. CASE Initialize
  <2>1. Begun = {}
    BY <1>4 DEF Initialize, DownMeansIdle, ProcessUp, Begun
  <2> QED
    BY <1>4, <2>1 DEF Initialize
<1>5. CASE Signals
  BY <1>5 DEF Signals, SetStopAnalyzing, KeyboardInterrupt, Crash
<1>6. CASE Availables
  <2>1. active = 0 => Begun = {}
    BY FiniteParts, FS_EmptySet DEF Counted
  <2> QED
    BY <1>6, <2>1 DEF Availables
<1>7. CASE Probe \/ Limits \/ GetAvailableMachines \/ NothingToSpawn \/ FetchMark
  BY <1>7 DEF Probe, Limits, GetAvailableMachines, NothingToSpawn, FetchMark
<1>8. CASE DealWithErrors \/ LoopExit
  BY <1>8 DEF DealWithErrors, LoopExit
<1>9. ASSUME NEW m \in Machines, FetchSelect(m)
      PROVE  UNCHANGED <<rs, locked, vm, pc, job, mach>>
  BY <1>9 DEF FetchSelect
<1>10. CASE \E w \in Managers : Spawn(w)
  BY <1>10 DEF Spawn
<1> QED
  BY <1>1, <1>2, <1>3, <1>4, <1>5, <1>6, <1>7, <1>8, <1>9, <1>10
  DEF Next, MainThread, StartUp

(* The inductive invariant behind the exclusive use of machines. *)
MachineInv ==
    /\ BaseInv
    /\ OwnersLocked
    /\ MachineExclusive
    /\ BootedOn
    /\ ResultsAttributed

(* Every step keeps MachineInv, as long as add_task does not raise. *)
LEMMA MachineStep ==
    ASSUME "add_task" \notin Faults, MachineInv, [Next]_vars
    PROVE  MachineInv'
<1> USE DEF MachineInv
<1>1. BaseInv'
  BY BaseStep
<1>2. CASE ProcessMemoryLost
  BY <1>1, <1>2 DEF ProcessMemoryLost, OwnersLocked, MachineExclusive, BootedOn,
                    ResultsAttributed, Owning
<1>3. ASSUME NEW w \in Managers, Manager(w) PROVE MachineInv'
  <2>1. Move(w) /\ Touch(w)
    BY <1>3, ManagerMoves, ManagerTouches DEF BaseInv
  <2>2. \A v \in Managers \ {w} : pc'[v] = pc[v] /\ job'[v] = job[v] /\ mach'[v] = mach[v]
    BY <2>1 DEF Move, BaseInv, DataOK
  <2>3. pc'[w] # "idle" => job'[w] = job[w] /\ mach'[w] = mach[w]
    BY <2>1 DEF Move
  <2>4. \A v \in Managers : pc[v] \in Owning => mach[v] \in Machines
    BY DEF BaseInv, Handed, Live, Owning
  <2>5. pc[w] \in Owning => \A v \in Managers \ {w} : pc[v] \in Owning => mach[v] # mach[w]
    BY DEF MachineExclusive
  <2>6. OwnersLocked'
    BY <2>1, <2>2, <2>3, <2>5 DEF Touch, OwnersLocked, Owning
  <2>7. MachineExclusive'
    BY <2>1, <2>2, <2>3, <2>5 DEF Touch, OwnersLocked, MachineExclusive, Owning
  <2>8. BootedOn'
    BY <2>1, <2>2, <2>3, <2>4, <2>5 DEF Touch, BootedOn, Owning
  <2>9. ResultsAttributed'
    BY <2>1, <2>2, <2>3, <2>4, <2>5 DEF Touch, ResultsAttributed, Owning, Registered
  <2> QED
    BY <1>1, <2>6, <2>7, <2>8, <2>9
<1>4. CASE ~ProcessMemoryLost /\ ~\E w \in Managers : Manager(w)
  <2>1. /\ rs' = rs
        /\ locked' = locked \/ Begun = {}
        /\ vm' = vm \/ Begun = {}
        /\ \A w \in Managers : pc'[w] \in Owning \cup {"guest"} =>
              pc'[w] = pc[w] /\ job'[w] = job[w] /\ mach'[w] = mach[w]
    BY <1>4, OthersTouch
  <2>2. Begun = {} => \A w \in Managers : pc'[w] \notin Owning
    BY <2>1 DEF Begun, Owning
  <2> QED
    BY <1>1, <2>1, <2>2 DEF OwnersLocked, MachineExclusive, BootedOn, ResultsAttributed, Owning
<1> QED
  BY <1>2, <1>3, <1>4

(* Nobody owns a machine at the start. *)
LEMMA MachineInit == Init => MachineInv
<1> SUFFICES ASSUME Init PROVE MachineInv
  OBVIOUS
<1>1. \A w \in Managers : pc[w] = "idle"
  BY DEF Init
<1> QED
  BY <1>1, BaseInit DEF MachineInv, OwnersLocked, MachineExclusive, BootedOn,
                       ResultsAttributed, Owning

(* MachineInv holds throughout, unless add_task raises. *)
LEMMA MachineAlways ==
    ASSUME "add_task" \notin Faults
    PROVE  Spec => []MachineInv
<1>1. MachineInv /\ [Next]_vars => MachineInv'
  BY MachineStep
<1> QED
  BY <1>1, MachineInit, PTL DEF Spec

(* Unless add_task raises, no two managers ever own one machine: the lock of   *)
(* acquire_machine is kept until release, whatever else fails.              *)
THEOREM MachinesAreExclusive ==
    ASSUME "add_task" \notin Faults
    PROVE  Spec => []MachineExclusive
<1>1. MachineInv => MachineExclusive
  BY DEF MachineInv
<1> QED
  BY <1>1, MachineAlways, PTL

(* ... so the machine an analysis runs in is the one its manager has booted:    *)
(* neither another launch nor machinery.shutdown has touched it since.      *)
THEOREM GuestsAreFresh ==
    ASSUME "add_task" \notin Faults
    PROVE  Spec => []FreshGuest
<1>1. MachineInv => FreshGuest
  BY DEF MachineInv, BootedOn, FreshGuest
<1> QED
  BY <1>1, MachineAlways, PTL

(* ... and the ResultServer has the task of the analysis under the address of   *)
(* its machine from add_task to del_task, however other analyses end.       *)
THEOREM ResultsAreAttributed ==
    ASSUME "add_task" \notin Faults
    PROVE  Spec => []ResultsAttributed
<1>1. MachineInv => ResultsAttributed
  BY DEF MachineInv
<1> QED
  BY <1>1, MachineAlways, PTL

-----------------------------------------------------------------------------
(* Analysis folders and the managers that write into them, when nobody         *)
(* deletes folders from outside.                                            *)

WritersHaveFolder == \A w \in Managers : pc[w] \in Writing => job[w] \in storage

(* What a step of manager w may do to the folders. *)
Store(w) ==
    \/ storage' = storage /\ (pc'[w] \in Writing => pc[w] \in Writing)
    \/ job[w] \notin storage /\ storage' = storage \cup {job[w]}
    \/ storage' = storage \ {job[w]} /\ pc[w] \in Writing /\ pc'[w] \notin Writing

(* Every step of a manager has the effect on folders that Store allows. *)
LEMMA ManagerStores ==
    ASSUME NEW w \in Managers, DataOK, Manager(w)
    PROVE  Store(w)
<1> USE DEF DataOK, Store, Goto, Owning, Writing, dbVars
<1>1. CASE CountUp(w)
  BY <1>1 DEF CountUp
<1>2. CASE InitStorage(w)
  BY <1>2 DEF InitStorage
<1>3. CASE CategoryChecks(w)
  BY <1>3 DEF CategoryChecks
<1>4. CASE AcquireLock(w)
  BY <1>4 DEF AcquireLock
<1>5. CASE AcquireMachine(w)
  BY <1>5 DEF AcquireMachine, LockAgain
<1>6. CASE BuildOptions(w)
  BY <1>6 DEF BuildOptions
<1>7. CASE AddTask(w)
  BY <1>7 DEF AddTask
<1>8. CASE GuestStart(w)
  BY <1>8 DEF GuestStart, Leave
<1>9. CASE MachineryStart(w)
  BY <1>9 DEF MachineryStart, Leave
<1>10. CASE RouteNetwork(w)
  BY <1>10 DEF RouteNetwork, Leave
<1>11. CASE GuestAnalysis(w)
  BY <1>11 DEF GuestAnalysis, Leave
<1>12. CASE MachineryStop(w)
  BY <1>12 DEF MachineryStop
<1>13. CASE GuestStop(w)
  BY <1>13 DEF GuestStop
<1>14. CASE DelTask(w)
  BY <1>14 DEF DelTask
<1>15. CASE DeadMachine(w)
  BY <1>15 DEF DeadMachine
<1>16. CASE MachineryRelease(w)
  BY <1>16 DEF MachineryRelease
<1>17. CASE Complete(w)
  BY <1>17 DEF Complete, ThreadEnds
<1>18. CASE Escape(w)
  BY <1>18 DEF Escape, ThreadEnds
<1> QED
  BY <1>1, <1>2, <1>3, <1>4, <1>5, <1>6, <1>7, <1>8, <1>9, <1>10, <1>11, <1>12, <1>13, <1>14, <1>15, <1>16, <1>17, <1>18 DEF Manager

(* Neither the API nor the view analysis/remove deletes folders. *)
FoldersKept == "delete" \notin Env /\ ("remove" \in Env => "mongodb" \notin Env)

(* Nobody else touches a folder or a manager that writes. *)
LEMMA OthersStore ==
    ASSUME FoldersKept, DataOK, [Next]_vars, ~ProcessMemoryLost,
           ~\E w \in Managers : Manager(w)
    PROVE  /\ storage' = storage
           /\ \A w \in Managers : pc'[w] \in Writing => pc'[w] = pc[w] /\ job'[w] = job[w]
<1> USE DEF DataOK, dbVars, hostVars, procVars, loopVars, bootVars, mgrVars, Owning, Writing
<1>1. CASE UNCHANGED vars
  BY <1>1 DEF vars
<1>2. CASE OtherProcess
  BY <1>2 DEF OtherProcess, OtherProcesses, Submit, Remove, TasksDelete, BanUserTasks,
              TasksReschedule, Report, FoldersKept
<1>3. CASE InitTasks \/ Readd \/ Initialize \/ \E t \in TaskIds : RecoverTask(t)
  BY <1>3 DEF InitTasks, Readd, Initialize, RecoverTask
<1>4. CASE Signals
  BY <1>4 DEF Signals, SetStopAnalyzing, KeyboardInterrupt, Crash
<1>5. CASE Probe \/ Limits \/ Availables \/ GetAvailableMachines \/ NothingToSpawn \/ FetchMark
  BY <1>5 DEF Probe, Limits, Availables, GetAvailableMachines, NothingToSpawn, FetchMark
<1>6. CASE DealWithErrors \/ LoopExit
  BY <1>6 DEF DealWithErrors, LoopExit
<1>7. ASSUME NEW m \in Machines, FetchSelect(m) PROVE UNCHANGED <<storage, pc, job>>
  BY <1>7 DEF FetchSelect
<1>8. CASE \E w \in Managers : Spawn(w)
  BY <1>8 DEF Spawn
<1> QED
  BY <1>1, <1>2, <1>3, <1>4, <1>5, <1>6, <1>7, <1>8 DEF Next, MainThread, StartUp

FolderInv == BaseInv /\ WritersHaveFolder /\ ResultsNotMixed

(* Every step keeps FolderInv, as long as no folder is deleted from outside. *)
LEMMA FolderStep ==
    ASSUME FoldersKept, FolderInv, [Next]_vars
    PROVE  FolderInv'
<1> USE DEF FolderInv
<1>1. BaseInv'
  BY BaseStep
<1>2. CASE ProcessMemoryLost
  BY <1>1, <1>2 DEF ProcessMemoryLost, WritersHaveFolder, ResultsNotMixed, Writing, Owning
<1>3. ASSUME NEW w \in Managers, Manager(w) PROVE FolderInv'
  <2>1. Move(w) /\ Store(w)
    BY <1>3, ManagerMoves, ManagerStores DEF BaseInv
  <2>2. \A v \in Managers \ {w} : pc'[v] = pc[v] /\ job'[v] = job[v]
    BY <2>1 DEF Move, BaseInv, DataOK
  <2>3. pc'[w] \in Writing => job'[w] = job[w]
    BY <2>1 DEF Move, Writing, Owning
  <2>4. pc[w] \in Writing => \A v \in Managers \ {w} : pc[v] \in Writing => job[v] # job[w]
    BY DEF ResultsNotMixed
  <2>5. WritersHaveFolder'
    BY <2>1, <2>2, <2>3, <2>4 DEF Store, WritersHaveFolder
  <2>6. ResultsNotMixed'
    BY <2>1, <2>2, <2>3, <2>4 DEF Store, WritersHaveFolder, ResultsNotMixed
  <2> QED
    BY <1>1, <2>5, <2>6
<1>4. CASE ~ProcessMemoryLost /\ ~\E w \in Managers : Manager(w)
  <2>1. /\ storage' = storage
        /\ \A w \in Managers : pc'[w] \in Writing => pc'[w] = pc[w] /\ job'[w] = job[w]
    BY <1>4, OthersStore DEF BaseInv
  <2> QED
    BY <1>1, <2>1 DEF WritersHaveFolder, ResultsNotMixed
<1> QED
  BY <1>2, <1>3, <1>4

(* Unless the web deletes folders, no two launches of one task ever write into  *)
(* its folder at the same time, not even when the main loop launches a task   *)
(* twice.                                                                   *)
THEOREM ResultsAreNotMixed ==
    ASSUME FoldersKept
    PROVE  Spec => []ResultsNotMixed
<1>1. Init => FolderInv
  <2> SUFFICES ASSUME Init PROVE FolderInv
    OBVIOUS
  <2>1. \A w \in Managers : pc[w] = "idle"
    BY DEF Init
  <2> QED
    BY <2>1, BaseInit DEF FolderInv, WritersHaveFolder, ResultsNotMixed, Writing, Owning
<1>2. FolderInv /\ [Next]_vars => FolderInv'
  BY FolderStep
<1>3. FolderInv => ResultsNotMixed
  BY DEF FolderInv
<1> QED
  BY <1>1, <1>2, <1>3, PTL DEF Spec

=============================================================================
