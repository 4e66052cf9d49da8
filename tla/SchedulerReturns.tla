--------------------------- MODULE SchedulerReturns ---------------------------
(***************************************************************************)
(* More theorems about Scheduler: what a machine is given, and that permits   *)
(* and machines come back.  The second needs hypotheses: the failures and     *)
(* the requests of the web under which launch_analysis does lose one are      *)
(* excluded, each by name.                                                  *)
(***************************************************************************)
EXTENDS SchedulerProofs

-----------------------------------------------------------------------------
(* A row that was added stays added, and keeps the tags it was submitted with. *)
TagsKept ==
    \A t \in TaskIds : tasks[t].status # "none" =>
       tasks'[t].status # "none" /\ tasks'[t].job.tags = tasks[t].job.tags

(* Writing the status of a row. *)
LEMMA StatusKeepsTags ==
    ASSUME tasks \in [TaskIds -> RowType], NEW t \in TaskIds, NEW s \in Status \ {"none"},
           tasks' = [tasks EXCEPT ![t].status = s]
    PROVE  TagsKept
BY DEF RowType, TagsKept

(* set_status. *)
LEMMA SetStatusKeepsTags ==
    ASSUME tasks \in [TaskIds -> RowType], NEW t, NEW s \in Status \ {"none"}, SetStatus(t, s)
    PROVE  TagsKept
<1>1. CASE Exists(t)
  BY <1>1, StatusKeepsTags DEF SetStatus, Exists
<1>2. CASE ~Exists(t)
  BY <1>2 DEF SetStatus, TagsKept
<1> QED
  BY <1>1, <1>2

(* Writing the machine column of a row. *)
LEMMA MachineKeepsTags ==
    ASSUME tasks \in [TaskIds -> RowType], NEW t \in TaskIds, NEW m \in Machines,
           NEW rows, rows = [tasks EXCEPT ![t].job.machine = m]
    PROVE  \A u \in TaskIds : rows[u].status = tasks[u].status
                              /\ rows[u].job.tags = tasks[u].job.tags
<1>1. tasks[t] \in RowType
  OBVIOUS
<1>2. rows = [tasks EXCEPT ![t] = [tasks[t] EXCEPT !.job = [tasks[t].job EXCEPT !.machine = m]]]
  OBVIOUS
<1>3. \A u \in TaskIds \ {t} : rows[u] = tasks[u]
  BY <1>2
<1>4. rows[t] = [tasks[t] EXCEPT !.job = [tasks[t].job EXCEPT !.machine = m]]
  BY <1>2
<1>5. rows[t].status = tasks[t].status /\ rows[t].job = [tasks[t].job EXCEPT !.machine = m]
  BY <1>1, <1>4 DEF RowType
<1>6. rows[t].job.tags = tasks[t].job.tags
  BY <1>1, <1>5 DEF RowType, JobType
<1> QED
  BY <1>3, <1>5, <1>6

(* Adding a row: the rows that were added before stay as they are. *)
LEMMA AddedKeeps ==
    ASSUME NEW rows \in [TaskIds -> RowType], NEW n \in TaskIds, NEW j, NEW u \in TaskIds, u # n
    PROVE  Added(rows, n, j)[u] = rows[u]
BY DEF Added

(* The other processes. *)
LEMMA OthersKeepTags ==
    ASSUME DatabaseTypeOK, OtherProcesses
    PROVE  TagsKept
<1> USE DEF DatabaseTypeOK
<1>1. ASSUME NEW j \in Jobs, Submit(j) PROVE TagsKept
  BY <1>1 DEF Submit, CanAdd, Added, TagsKept, RowType
<1>2. ASSUME NEW t \in TaskIds, Remove(t) PROVE TagsKept
  BY <1>2, StatusKeepsTags DEF Remove, Status
<1>3. ASSUME NEW t \in TaskIds, TasksDelete(t) PROVE TagsKept
  BY <1>3, StatusKeepsTags DEF TasksDelete, Status
<1>4. ASSUME NEW u \in Users, BanUserTasks(u) PROVE TagsKept
  BY <1>4 DEF BanUserTasks, TagsKept, RowType
<1>5. ASSUME NEW t \in TaskIds, TasksReschedule(t) PROVE TagsKept
  <2> DEFINE marked == [tasks EXCEPT ![t].status = "recovered"]
  <2>1. marked \in [TaskIds -> RowType]
    BY StatusType DEF Status
  <2>2. \A u \in TaskIds : tasks[u].status # "none" =>
            marked[u].status # "none" /\ marked[u].job.tags = tasks[u].job.tags
    BY DEF RowType
  <2>3. CASE tasks' = marked
    BY <2>2, <2>3 DEF TagsKept
  <2>4. ASSUME NEW n \in TaskIds, CanAdd(n), tasks' = Added(marked, n, Copy(tasks[t].job))
        PROVE  TagsKept
    <3>1. \A u \in TaskIds : tasks[u].status # "none" => tasks'[u] = marked[u]
      <4> HIDE DEF marked
      <4> QED
        BY <2>1, <2>4, AddedKeeps DEF CanAdd
    <3> QED
      BY <2>2, <3>1 DEF TagsKept
  <2> QED
    BY <1>5, <2>3, <2>4 DEF TasksReschedule
<1>6. ASSUME NEW t \in TaskIds, Report(t) PROVE TagsKept
  BY <1>6, SetStatusKeepsTags DEF Report, Status
<1> QED
  BY <1>1, <1>2, <1>3, <1>4, <1>5, <1>6 DEF OtherProcesses

(* Every step of the system. *)
LEMMA StepKeepsTags ==
    ASSUME DataOK, Handed, [Next]_vars
    PROVE  TagsKept
<1> USE DEF DataOK, DatabaseTypeOK
<1>0. UNCHANGED tasks => TagsKept
  BY DEF TagsKept
<1>1. CASE UNCHANGED vars \/ Signals \/ Initialize \/ InitTasks
  BY <1>0, <1>1 DEF vars, dbVars, Signals, SetStopAnalyzing, KeyboardInterrupt, Crash,
                    Initialize, InitTasks
<1>2. CASE OtherProcess
  BY <1>2, OthersKeepTags DEF OtherProcess
<1>3. ASSUME NEW t \in TaskIds, RecoverTask(t) PROVE TagsKept
  BY <1>3, SetStatusKeepsTags DEF RecoverTask, Status
<1>4. CASE Readd
  <2>1. ASSUME NEW n \in TaskIds, CanAdd(n), tasks' = Added(tasks, n, Copy(tasks[readding].job))
        PROVE  TagsKept
    BY <2>1, AddedKeeps DEF CanAdd, TagsKept
  <2> QED
    BY <1>0, <1>4, <2>1 DEF Readd
<1>5. CASE FetchMark
  <2>1. ASSUME Exists(stask), tasks' = [tasks EXCEPT ![stask].status = "running",
                                                     ![stask].job.machine = smach]
        PROVE  TagsKept
    <3> DEFINE rows == [tasks EXCEPT ![stask].status = "running"]
    <3>1. stask \in TaskIds /\ tasks[stask] \in RowType
      BY <2>1 DEF Exists
    <3>2. tasks' = [tasks EXCEPT ![stask] = [tasks[stask] EXCEPT !.status = "running",
                        !.job = [tasks[stask].job EXCEPT !.machine = smach]]]
      BY <2>1, <3>1
    <3>3. \A u \in TaskIds \ {stask} : tasks'[u] = tasks[u]
      BY <3>2
    <3>4. tasks'[stask] = [tasks[stask] EXCEPT !.status = "running",
                              !.job = [tasks[stask].job EXCEPT !.machine = smach]]
      BY <3>1, <3>2
    <3>5. /\ tasks'[stask].status = "running"
          /\ tasks'[stask].job = [tasks[stask].job EXCEPT !.machine = smach]
      BY <3>1, <3>4 DEF RowType
    <3>6. tasks'[stask].job.tags = tasks[stask].job.tags
      BY <3>1, <3>5 DEF RowType, JobType
    <3> QED
      BY <3>3, <3>5, <3>6 DEF TagsKept
  <2> QED
    BY <1>0, <1>5, <2>1 DEF FetchMark
<1>6. CASE Probe \/ Limits \/ Availables \/ GetAvailableMachines \/ NothingToSpawn
           \/ DealWithErrors \/ LoopExit \/ (\E w \in Managers : Spawn(w))
           \/ (\E m \in Machines : FetchSelect(m))
  BY <1>0, <1>6 DEF Probe, Limits, Availables, GetAvailableMachines, NothingToSpawn,
                    DealWithErrors, LoopExit, Spawn, FetchSelect, dbVars
<1>7. ASSUME NEW w \in Managers, Manager(w) PROVE TagsKept
  <2>1. CASE AcquireMachine(w)
    <3>1. mach[w] \in Machines
      BY <2>1 DEF AcquireMachine, Handed, Live
    <3> QED
      BY <1>0, <2>1, <3>1, MachineKeepsTags DEF AcquireMachine, Exists, TagsKept
  <2>2. CASE Complete(w)
    BY <2>2, SetStatusKeepsTags DEF Complete, Status
  <2>3. CASE ~AcquireMachine(w) /\ ~Complete(w)
    BY <1>0, <1>7, <2>3
    DEF Manager, CountUp, InitStorage, CategoryChecks, AcquireLock, BuildOptions, AddTask,
        GuestStart, MachineryStart, RouteNetwork, GuestAnalysis, MachineryStop, GuestStop,
        DelTask, DeadMachine, MachineryRelease, Escape, dbVars
  <2> QED
    BY <2>1, <2>2, <2>3
<1> QED
  BY <1>1, <1>2, <1>3, <1>4, <1>5, <1>6, <1>7 DEF Next, MainThread, StartUp

-----------------------------------------------------------------------------
(* The task t may be analysed on m: it has a row, and a 32-bit machine gets it  *)
(* only with the tag x86.                                                   *)
Suits(m, t) == /\ t \in TaskIds
               /\ tasks[t].status # "none"
               /\ Arch[m] = "x86" => "x86" \in tasks[t].job.tags

(* The strengthening ArchServed needs: the main thread's task suits its machine *)
(* as well, also in the iterations in which that variable is stale.         *)
Suited ==
    /\ stask # NoTask => Suits(smach, stask)
    /\ \A w \in Managers : Live(w) => Suits(mach[w], job[w])

ArchInv == BaseInv /\ Suited

(* What suits a machine goes on doing so. *)
LEMMA SuitsStays ==
    ASSUME TagsKept, NEW m, NEW t, Suits(m, t)
    PROVE  Suits(m, t)'
BY DEF TagsKept, Suits

(* fetch selects what suits the machine it is called for. *)
LEMMA FetchedSuits ==
    ASSUME DataOK, NEW m \in Machines, NEW t \in TaskIds, FetchedBy(m, t)
    PROVE  Suits(m, t)
<1>1. Arch[m] \in {"x86", "x64"} /\ tasks[t].status = "pending" /\ Serves(m, tasks[t].job)
  BY DatabaseAssumption DEF FetchedBy, Fetchable, InStatus
<1> QED
  BY <1>1 DEF Serves, Suits

(* A step leaves the main thread's task, drops it, or fetches one. *)
LEMMA MainTask ==
    ASSUME DataOK, [Next]_vars
    PROVE  \/ UNCHANGED <<stask, smach>>
           \/ stask' = NoTask
           \/ Suits(smach', stask') /\ UNCHANGED tasks
<1> USE DEF DataOK, DatabaseTypeOK, dbVars, loopVars
<1>1. CASE UNCHANGED vars \/ OtherProcess \/ StartUp
  BY <1>1 DEF vars, OtherProcess, StartUp, InitTasks, RecoverTask, Readd, Initialize
<1>2. CASE Signals \/ DealWithErrors \/ LoopExit
  BY <1>2 DEF Signals, SetStopAnalyzing, KeyboardInterrupt, Crash, DealWithErrors, LoopExit,
              ProcessMemoryLost
<1>3. ASSUME NEW m \in Machines, FetchSelect(m)
      PROVE  stask' = NoTask \/ (Suits(smach', stask') /\ UNCHANGED tasks)
  BY <1>3, FetchedSuits DEF FetchSelect, FetchNone
<1>4. CASE Probe \/ Limits \/ Availables \/ GetAvailableMachines \/ NothingToSpawn
           \/ FetchMark \/ (\E w \in Managers : Spawn(w))
  BY <1>4 DEF Probe, Limits, Availables, GetAvailableMachines, NothingToSpawn, FetchMark,
              FetchNone, Spawn
<1>5. ASSUME NEW w \in Managers, Manager(w) PROVE UNCHANGED <<stask, smach>>
  BY <1>5, ManagerMoves DEF Move
<1> QED
  BY <1>1, <1>2, <1>3, <1>4, <1>5 DEF Next, MainThread

(* Every step keeps ArchInv. *)
LEMMA ArchStep == ArchInv /\ [Next]_vars => ArchInv'
<1> SUFFICES ASSUME ArchInv, [Next]_vars PROVE ArchInv'
  OBVIOUS
<1> USE DEF ArchInv, Suited, Live
<1>1. BaseInv'
  BY BaseStep
<1>2. TagsKept
  BY StepKeepsTags DEF BaseInv
<1>3. stask' # NoTask => Suits(smach, stask)' 
  <2>1. CASE UNCHANGED <<stask, smach>>
    BY <1>2, <2>1 DEF TagsKept, Suits
  <2>2. CASE Suits(smach', stask') /\ UNCHANGED tasks
    BY <2>2 DEF Suits
  <2> QED
    BY <2>1, <2>2, MainTask DEF BaseInv
<1>4. \A w \in Managers : pc'[w] # "idle" => Suits(mach[w], job[w])'
  <2>1. CASE ProcessMemoryLost
    BY <2>1 DEF ProcessMemoryLost
  <2>2. ASSUME NEW w \in Managers, Spawn(w)
        PROVE  \A v \in Managers : pc'[v] # "idle" => Suits(mach[v], job[v])'
    BY <1>2, <2>2 DEF Spawn, TagsKept, Suits, BaseInv, DataOK
  <2>3. ASSUME NEW w \in Managers, Manager(w)
        PROVE  \A v \in Managers : pc'[v] # "idle" => Suits(mach[v], job[v])'
    <3>1. Move(w)
      BY <2>3, ManagerMoves DEF BaseInv
    <3>2. \A v \in Managers : pc'[v] # "idle" => pc[v] # "idle" /\ job'[v] = job[v] /\ mach'[v] = mach[v]
      BY <3>1 DEF Move, BaseInv, DataOK
    <3> QED
      BY <1>2, <3>2 DEF TagsKept, Suits
  <2>4. CASE Quiet
    BY <1>2, <2>4 DEF Quiet, TagsKept, Suits
  <2> QED
    BY <2>1, <2>2, <2>3, <2>4, StepShape DEF BaseInv
<1> QED
  BY <1>1, <1>3, <1>4

(* A 32-bit machine never gets a task tagged x64 alone, on any way a task takes  *)
(* to a manager: the query of fetch is the only place that decides it.      *)
THEOREM ArchitectureIsServed == Spec => []ArchServed
<1>1. Init => ArchInv
  BY BaseInit DEF Init, ArchInv, Suited, Live
<1>2. ArchInv => ArchServed
  BY DEF ArchInv, Suited, Suits, ArchServed
<1> QED
  BY <1>1, <1>2, ArchStep, PTL DEF Spec

-----------------------------------------------------------------------------
(* Permits.  The web deletes no row, and neither the target nor the rooter      *)
(* raises where no except clause of launch_analysis expects it.             *)
RowsStay == "remove" \notin Env /\ "delete" \notin Env

PermitsReturn == RowsStay /\ "target" \notin Faults /\ "rooter" \notin Faults

NoneDeleted == \A t \in TaskIds : tasks[t].status # "deleted"

(* Rows do not vanish when nobody deletes them. *)
LEMMA RowsStep ==
    ASSUME RowsStay, DataOK, Handed, NoneDeleted, [Next]_vars
    PROVE  NoneDeleted'
<1> USE DEF DataOK, DatabaseTypeOK, NoneDeleted
<1>status. ASSUME NEW t, NEW s \in Status \ {"deleted"}, SetStatus(t, s) PROVE NoneDeleted'
  BY <1>status DEF SetStatus, Exists, RowType
<1>added. ASSUME NEW rows \in [TaskIds -> RowType], NEW n \in TaskIds, NEW j,
                 \A u \in TaskIds : rows[u].status # "deleted", tasks' = Added(rows, n, j)
          PROVE  NoneDeleted'
  BY <1>added DEF Added
<1>0. UNCHANGED tasks => NoneDeleted'
  OBVIOUS
<1>1. CASE UNCHANGED vars \/ Signals \/ Initialize \/ InitTasks
  BY <1>0, <1>1 DEF vars, dbVars, Signals, SetStopAnalyzing, KeyboardInterrupt, Crash,
                    Initialize, InitTasks
<1>2. CASE OtherProcess
  <2>1. ASSUME NEW j \in Jobs, Submit(j) PROVE NoneDeleted'
    BY <2>1, <1>added DEF Submit
  <2>2. ASSUME NEW u \in Users, BanUserTasks(u) PROVE NoneDeleted'
    BY <2>2 DEF BanUserTasks, RowType
  <2>3. ASSUME NEW t \in TaskIds, TasksReschedule(t) PROVE NoneDeleted'
    <3> DEFINE marked == [tasks EXCEPT ![t].status = "recovered"]
    <3>1. marked \in [TaskIds -> RowType]
      BY StatusType DEF Status
    <3>2. \A u \in TaskIds : marked[u].status # "deleted"
      BY DEF RowType
    <3>3. CASE tasks' = marked
      BY <3>2, <3>3
    <3>4. ASSUME NEW n \in TaskIds, tasks' = Added(marked, n, Copy(tasks[t].job)) PROVE NoneDeleted'
      <4> HIDE DEF marked
      <4> QED
        BY <3>1, <3>2, <3>4, <1>added
    <3> QED
      BY <2>3, <3>3, <3>4 DEF TasksReschedule
  <2>4. ASSUME NEW t \in TaskIds, Report(t) PROVE NoneDeleted'
    BY <2>4, <1>status DEF Report, Status
  <2> QED
    BY <1>2, <2>1, <2>2, <2>3, <2>4 DEF OtherProcess, OtherProcesses, RowsStay, Remove, TasksDelete
<1>3. ASSUME NEW t \in TaskIds, RecoverTask(t) PROVE NoneDeleted'
  BY <1>3, <1>status DEF RecoverTask, Status
<1>4. CASE Readd
  BY <1>0, <1>4, <1>added DEF Readd
<1>5. CASE FetchMark
  <2>1. ASSUME Exists(stask), tasks' = [tasks EXCEPT ![stask].status = "running",
                                                     ![stask].job.machine = smach]
        PROVE  NoneDeleted'
    <3>1. tasks' = [tasks EXCEPT ![stask] = [tasks[stask] EXCEPT !.status = "running",
                        !.job = [tasks[stask].job EXCEPT !.machine = smach]]]
      BY <2>1
    <3>2. \A u \in TaskIds \ {stask} : tasks'[u] = tasks[u]
      BY <3>1
    <3>3. tasks'[stask] = [tasks[stask] EXCEPT !.status = "running",
                              !.job = [tasks[stask].job EXCEPT !.machine = smach]]
      BY <2>1, <3>1 DEF Exists
    <3>4. tasks'[stask].status = "running"
      BY <2>1, <3>3 DEF RowType, Exists
    <3> QED
      BY <3>2, <3>4
  <2> QED
    BY <1>0, <1>5, <2>1 DEF FetchMark
<1>6. CASE Probe \/ Limits \/ Availables \/ GetAvailableMachines \/ NothingToSpawn
           \/ DealWithErrors \/ LoopExit \/ (\E w \in Managers : Spawn(w))
           \/ (\E m \in Machines : FetchSelect(m))
  BY <1>0, <1>6 DEF Probe, Limits, Availables, GetAvailableMachines, NothingToSpawn,
                    DealWithErrors, LoopExit, Spawn, FetchSelect, dbVars
<1>7. ASSUME NEW w \in Managers, Manager(w) PROVE NoneDeleted'
  <2>1. CASE AcquireMachine(w)
    <3>1. mach[w] \in Machines
      BY <2>1 DEF AcquireMachine, Handed, Live
    <3> QED
      BY <1>0, <2>1, <3>1, MachineKeepsTags DEF AcquireMachine, Exists
  <2>2. CASE Complete(w)
    BY <2>2, <1>status DEF Complete, Status
  <2>3. CASE ~AcquireMachine(w) /\ ~Complete(w)
    BY <1>0, <1>7, <2>3
    DEF Manager, CountUp, InitStorage, CategoryChecks, AcquireLock, BuildOptions, AddTask,
        GuestStart, MachineryStart, RouteNetwork, GuestAnalysis, MachineryStop, GuestStop,
        DelTask, DeadMachine, MachineryRelease, Escape, dbVars
  <2> QED
    BY <2>1, <2>2, <2>3
<1> QED
  BY <1>1, <1>2, <1>3, <1>4, <1>5, <1>6, <1>7 DEF Next, MainThread, StartUp

(* A manager that leaves the part between acquire and release gives its permit  *)
(* back.                                                                    *)
LEMMA ManagerReturns ==
    ASSUME PermitsReturn, NEW w \in Managers, DataOK, Exists(job[w]), Manager(w),
           pc[w] \in Holding, pc'[w] \notin Holding
    PROVE  permits' = permits + 1
<1> USE DEF DataOK, ManagerPC, Goto, Holding, Leave
<1>1. pc'[w] # pc[w]
  OBVIOUS
<1>2. CASE AcquireMachine(w) \/ BuildOptions(w) \/ AddTask(w)
  BY <1>2 DEF AcquireMachine, LockAgain, BuildOptions, AddTask, PermitsReturn
<1>3. CASE GuestStart(w) \/ MachineryStart(w) \/ RouteNetwork(w)
  BY <1>3 DEF GuestStart, MachineryStart, RouteNetwork, PermitsReturn
<1>4. CASE CountUp(w) \/ InitStorage(w) \/ CategoryChecks(w) \/ AcquireLock(w)
           \/ GuestAnalysis(w) \/ MachineryStop(w) \/ GuestStop(w) \/ DelTask(w)
           \/ DeadMachine(w) \/ MachineryRelease(w) \/ Complete(w) \/ Escape(w)
  BY <1>4 DEF CountUp, InitStorage, CategoryChecks, AcquireLock, GuestAnalysis, MachineryStop,
              GuestStop, DelTask, DeadMachine, MachineryRelease, Complete, Escape
<1> QED
  BY <1>2, <1>3, <1>4 DEF Manager

(* LockReturned with what keeps it: the rows of the managers' tasks are there. *)
PermitInv == ArchInv /\ NoneDeleted /\ LockReturned

(* Every step keeps PermitInv. *)
LEMMA PermitStep ==
    ASSUME PermitsReturn, PermitInv, [Next]_vars
    PROVE  PermitInv'
<1> USE SchedulerAssumption DEF PermitInv, LockReturned
<1>1. ArchInv'
  BY ArchStep
<1>2. NoneDeleted'
  BY RowsStep DEF PermitsReturn, ArchInv, BaseInv
<1>3. DataOK /\ permits \in Nat
  BY DEF ArchInv, BaseInv
<1>4. CASE ProcessMemoryLost
  <2>1. Holders' = {}
    BY <1>4 DEF ProcessMemoryLost, Holders, Holding
  <2> QED
    BY <1>1, <1>2, <1>4, <2>1, FS_EmptySet DEF ProcessMemoryLost
<1>5. ASSUME NEW w \in Managers, Spawn(w) PROVE PermitInv'
  <2>1. Holders' = Holders
    BY <1>3, <1>5 DEF Spawn, Holders, Holding, DataOK
  <2> QED
    BY <1>1, <1>2, <1>5, <2>1 DEF Spawn
<1>6. ASSUME NEW w \in Managers, Manager(w) PROVE PermitInv'
  <2>1. Move(w)
    BY <1>3, <1>6, ManagerMoves
  <2>2. CASE pc[w] \notin Holding /\ pc'[w] \in Holding /\ permits > 0 /\ permits' = permits - 1
    <3>1. w \notin Holders /\ Holders' = Holders \cup {w}
      BY <1>3, <2>1, <2>2 DEF Move, Holders, DataOK
    <3>2. Cardinality(Holders') = Cardinality(Holders) + 1
      BY <3>1, FiniteParts, FS_AddElement
    <3> QED
      BY <1>1, <1>2, <1>3, <2>2, <3>2, FiniteParts
  <2>3. CASE pc[w] \in Holding /\ pc'[w] \notin Holding
    <3>1. w \in Holders /\ Holders' = Holders \ {w}
      BY <1>3, <2>1, <2>3 DEF Move, Holders, DataOK
    <3>2. Cardinality(Holders') = Cardinality(Holders) - 1
      BY <3>1, FiniteParts, FS_RemoveElement
    <3>3. Exists(job[w])
      BY <2>3 DEF ArchInv, Suited, Suits, Live, Holding, NoneDeleted, Exists
    <3>4. permits' = permits + 1
      BY <1>3, <1>6, <2>3, <3>3, ManagerReturns
    <3> QED
      BY <1>1, <1>2, <1>3, <3>2, <3>4, FiniteParts
  <2>4. CASE (pc[w] \in Holding <=> pc'[w] \in Holding) /\ permits' = permits
    <3>1. Holders' = Holders
      BY <1>3, <2>1, <2>4 DEF Move, Holders, DataOK
    <3> QED
      BY <1>1, <1>2, <2>4, <3>1
  <2> QED
    BY <2>1, <2>2, <2>3, <2>4 DEF Move
<1>7. CASE Quiet
  <2>1. Holders' = Holders
    BY <1>7 DEF Quiet, Holders
  <2> QED
    BY <1>1, <1>2, <1>7, <2>1 DEF Quiet
<1> QED
  BY <1>3, <1>4, <1>5, <1>6, <1>7, StepShape

(* launch_analysis gives its permit of machine_lock back on every path but those   *)
(* PermitsReturn excludes, on which the code keeps it: the row deleted under its   *)
(* manager, a target that vanishes, the rooter failing under a manager.            *)
THEOREM LockIsReturned ==
    ASSUME PermitsReturn
    PROVE  Spec => []LockReturned
<1>1. Init => PermitInv
  <2> SUFFICES ASSUME Init PROVE PermitInv
    OBVIOUS
  <2>1. ArchInv
    BY BaseInit DEF Init, ArchInv, Suited, Live
  <2>2. NoneDeleted
    BY DEF Init, DatabaseInit, NoneDeleted
  <2>3. Holders = {}
    BY DEF Init, Holders, Holding
  <2> QED
    BY <2>1, <2>2, <2>3, FS_EmptySet, SchedulerAssumption DEF Init, PermitInv, LockReturned
<1>2. PermitInv /\ [Next]_vars => PermitInv'
  BY PermitStep
<1>3. PermitInv => LockReturned
  BY DEF PermitInv
<1> QED
  BY <1>1, <1>2, <1>3, PTL DEF Spec

-----------------------------------------------------------------------------
(* Machines.  A machine that does not start stays locked as a dead machine, so   *)
(* what makes a start fail is excluded too.                                 *)
MachinesReturn == RowsStay /\ Faults \subseteq {"disk", "file", "http"}

On == {"route", "guest", "halt"}

(* The guest row is there for guest_stop; no launch ends in a dead machine; and   *)
(* the machines that are on are those of the managers that have booted them. *)
GuestRows ==
    \A w \in Managers : pc[w] \in On \cup {"boot", "gstop"} => glog[w] /\ job[w] \in guests

NoDeadMachine ==
    \A w \in Managers : pc[w] # "dead" /\ outcome[w] \notin {"noboot", "dead"}

OnIsHeld ==
    ProcessUp => \A m \in Machines : vm[m] # NoTask =>
                    \E w \in Managers : pc[w] \in On /\ mach[w] = m

ReturnInv ==
    /\ MachineInv /\ ArchInv /\ NoneDeleted
    /\ GuestRows /\ NoDeadMachine /\ OnIsHeld
    /\ MachineNotLeaked

(* What a step of manager w does to its machine, in a state of ReturnInv. *)
Gives(w) ==
    /\ pc[w] \in Owning /\ pc'[w] \notin Owning => mach[w] \notin locked'
    /\ locked' \subseteq locked \cup (IF pc'[w] \in Owning THEN {mach[w]} ELSE {})
    /\ \A m \in Machines : vm'[m] # NoTask =>
          \/ m = mach[w] /\ pc'[w] \in On
          \/ vm[m] # NoTask /\ ~(m = mach[w] /\ pc[w] \in On)
    /\ guests \subseteq guests'
    /\ pc'[w] \in On \cup {"boot", "gstop"} => glog'[w] /\ job[w] \in guests'
    /\ pc'[w] # "dead" /\ outcome'[w] \notin {"noboot", "dead"}
    /\ \A v \in Managers \ {w} : outcome'[v] = outcome[v] /\ glog'[v] = glog[v]

(* Every step of a manager gives what Gives says. *)
LEMMA ManagerGives ==
    ASSUME MachinesReturn, ReturnInv, NEW w \in Managers, Manager(w)
    PROVE  Gives(w)
<1>1. /\ DataOK /\ Handed /\ NoDeadMachine /\ GuestRows
      /\ pc[w] # "idle" => mach[w] \in Machines /\ Exists(job[w])
  BY DEF ReturnInv, MachineInv, BaseInv, Handed, Live, ArchInv, Suited, Suits, NoneDeleted, Exists
<1>2. pc[w] = "boot" => vm[mach[w]] = NoTask
  <2> SUFFICES ASSUME pc[w] = "boot", vm[mach[w]] # NoTask PROVE FALSE
    OBVIOUS
  <2>1. ProcessUp
    BY DEF ReturnInv, MachineInv, BaseInv, DownMeansIdle
  <2>2. PICK v \in Managers : pc[v] \in On /\ mach[v] = mach[w]
    BY <1>1, <2>1 DEF ReturnInv, OnIsHeld
  <2> QED
    BY <2>2 DEF ReturnInv, MachineInv, MachineExclusive, On, Owning
<1> USE <1>1 DEF DataOK, DatabaseTypeOK, Gives, Goto, Leave, Owning, On, ManagerPC, Outcome,
                 NoDeadMachine, GuestRows, MachinesReturn, dbVars, hostVars
<1>3. CASE CountUp(w)
  BY <1>3 DEF CountUp
<1>4. CASE InitStorage(w)
  BY <1>4 DEF InitStorage
<1>5. CASE CategoryChecks(w)
  BY <1>5 DEF CategoryChecks
<1>6. CASE AcquireLock(w)
  BY <1>6 DEF AcquireLock
<1>7. CASE AcquireMachine(w)
  BY <1>7 DEF AcquireMachine, LockAgain, LockMachine
<1>8. CASE BuildOptions(w)
  BY <1>8 DEF BuildOptions
<1>9. CASE AddTask(w)
  BY <1>9 DEF AddTask
<1>10. CASE GuestStart(w)
  BY <1>10 DEF GuestStart
<1>11. CASE MachineryStart(w)
  BY <1>2, <1>11 DEF MachineryStart
<1>12. CASE RouteNetwork(w)
  BY <1>12 DEF RouteNetwork
<1>13. CASE GuestAnalysis(w)
  BY <1>13 DEF GuestAnalysis
<1>14. CASE MachineryStop(w)
  BY <1>14 DEF MachineryStop
<1>15. CASE GuestStop(w)
  BY <1>15 DEF GuestStop
<1>16. CASE DelTask(w)
  BY <1>16 DEF DelTask, UnrouteFails
<1>17. CASE DeadMachine(w)
  BY <1>17 DEF DeadMachine
<1>18. CASE MachineryRelease(w)
  BY <1>18 DEF MachineryRelease, UnlockMachine
<1>19. CASE Complete(w)
  BY <1>19 DEF Complete, ThreadEnds
<1>20. CASE Escape(w)
  BY <1>20 DEF Escape, ThreadEnds
<1> QED
  BY <1>3, <1>4, <1>5, <1>6, <1>7, <1>8, <1>9, <1>10, <1>11, <1>12, <1>13, <1>14, <1>15,
     <1>16, <1>17, <1>18, <1>19, <1>20 DEF Manager

(* The steps that are neither a manager's nor the end of the process. *)
LEMMA OthersGive ==
    ASSUME MachinesReturn, BaseInv, [Next]_vars, ~ProcessMemoryLost,
           ~\E w \in Managers : Manager(w)
    PROVE  /\ ProcessUp' /\ ~ProcessUp => locked' = {} /\ \A m \in Machines : vm'[m] = NoTask
           /\ locked' \subseteq locked
           /\ guests \subseteq guests'
           /\ \A m \in Machines : vm'[m] # NoTask => vm[m] # NoTask
           /\ \A w \in Managers : pc[w] # "idle" =>
                 pc'[w] = pc[w] /\ job'[w] = job[w] /\ mach'[w] = mach[w]
           /\ \A w \in Managers : pc[w] = "idle" => pc'[w] \in {"idle", "count"}
           /\ outcome' = outcome /\ glog' = glog
<1> USE DEF BaseInv, DataOK, DatabaseTypeOK, dbVars, hostVars, procVars, loopVars, bootVars,
            mgrVars, ProcessUp
<1>1. CASE UNCHANGED vars
  BY <1>1 DEF vars
<1>2. CASE OtherProcess
  BY <1>2 DEF OtherProcess, OtherProcesses, Submit, Remove, TasksDelete, BanUserTasks,
              TasksReschedule, Report, MachinesReturn, RowsStay
<1>3. CASE InitTasks \/ Readd \/ \E t \in TaskIds : RecoverTask(t)
  BY <1>3 DEF InitTasks, Readd, RecoverTask
<1>4. CASE Initialize
  BY <1>4 DEF Initialize
<1>5. CASE Signals
  BY <1>5 DEF Signals, SetStopAnalyzing, KeyboardInterrupt, Crash
<1>6. CASE Availables
  BY <1>6 DEF Availables, MachineryShutdown
<1>7. CASE Probe \/ Limits \/ GetAvailableMachines \/ NothingToSpawn \/ FetchMark
  BY <1>7 DEF Probe, Limits, GetAvailableMachines, NothingToSpawn, FetchMark
<1>8. CASE DealWithErrors \/ LoopExit
  BY <1>8 DEF DealWithErrors, LoopExit
<1>9. ASSUME NEW m \in Machines, FetchSelect(m)
      PROVE  UNCHANGED <<guests, locked, vm, pc, job, mach, outcome, glog>> /\ ProcessUp
  BY <1>9 DEF FetchSelect
<1>10. ASSUME NEW v \in Managers, Spawn(v)
       PROVE  /\ UNCHANGED <<guests, locked, vm, outcome, glog>> /\ ProcessUp
              /\ \A w \in Managers : pc[w] # "idle" =>
                    pc'[w] = pc[w] /\ job'[w] = job[w] /\ mach'[w] = mach[w]
              /\ \A w \in Managers : pc[w] = "idle" => pc'[w] \in {"idle", "count"}
  BY <1>10 DEF Spawn
<1> QED
  BY <1>1, <1>2, <1>3, <1>4, <1>5, <1>6, <1>7, <1>8, <1>9, <1>10
  DEF Next, MainThread, StartUp

(* Every step keeps ReturnInv. *)
LEMMA ReturnStep ==
    ASSUME MachinesReturn, ReturnInv, [Next]_vars
    PROVE  ReturnInv'
<1>1. MachineInv' /\ ArchInv'
  BY MachineStep, ArchStep DEF ReturnInv, MachinesReturn
<1>2. NoneDeleted'
  BY RowsStep DEF ReturnInv, MachinesReturn, ArchInv, BaseInv
<1>3. BaseInv /\ DataOK
  BY DEF ReturnInv, ArchInv, BaseInv
<1>4. CASE ProcessMemoryLost
  <2>1. ~ProcessUp' /\ \A w \in Managers : pc'[w] = "idle" /\ outcome'[w] = "none"
    BY <1>4 DEF ProcessMemoryLost, ProcessUp
  <2>2. GuestRows' /\ NoDeadMachine' /\ OnIsHeld' /\ MachineNotLeaked'
    BY <2>1 DEF GuestRows, NoDeadMachine, OnIsHeld, MachineNotLeaked, On
  <2> QED
    BY <1>1, <1>2, <2>2 DEF ReturnInv
<1>5. ASSUME NEW w \in Managers, Manager(w) PROVE ReturnInv'
  <2>1. Move(w) /\ Gives(w)
    BY <1>3, <1>5, ManagerMoves, ManagerGives
  <2>2. /\ \A v \in Managers \ {w} : pc'[v] = pc[v] /\ job'[v] = job[v] /\ mach'[v] = mach[v]
        /\ pc'[w] # "idle" => job'[w] = job[w] /\ mach'[w] = mach[w]
        /\ ProcessUp' <=> ProcessUp
    BY <1>3, <2>1 DEF Move, DataOK, ProcessUp
  <2>3. GuestRows'
    BY <2>1, <2>2 DEF Gives, GuestRows, ReturnInv, On
  <2>4. NoDeadMachine'
    BY <2>1, <2>2 DEF Gives, NoDeadMachine, ReturnInv
  <2>5. OnIsHeld'
    <3> SUFFICES ASSUME ProcessUp, NEW m \in Machines, vm'[m] # NoTask
                 PROVE  \E v \in Managers : pc'[v] \in On /\ mach'[v] = m
      BY <2>2 DEF OnIsHeld
    <3>1. CASE m = mach[w] /\ pc'[w] \in On
      BY <2>2, <3>1 DEF On
    <3>2. CASE vm[m] # NoTask /\ ~(m = mach[w] /\ pc[w] \in On)
      <4>1. PICK v \in Managers : pc[v] \in On /\ mach[v] = m
        BY <3>2 DEF ReturnInv, OnIsHeld
      <4>2. v # w
        BY <3>2, <4>1
      <4> QED
        BY <2>2, <4>1, <4>2
    <3> QED
      BY <2>1, <3>1, <3>2 DEF Gives
  <2>6. MachineNotLeaked'
    <3> SUFFICES ASSUME ProcessUp, NEW m \in locked'
                 PROVE  \E v \in Managers : pc'[v] \in Owning /\ mach'[v] = m
      BY <2>2 DEF MachineNotLeaked
    <3>1. CASE m = mach[w] /\ pc'[w] \in Owning
      BY <2>2, <3>1 DEF Owning
    <3>2. CASE m \in locked /\ ~(m = mach[w] /\ pc'[w] \in Owning)
      <4>1. PICK v \in Managers : pc[v] \in Owning /\ mach[v] = m
        BY <3>2 DEF ReturnInv, MachineNotLeaked
      <4>2. v # w
        BY <2>1, <3>2, <4>1 DEF Gives
      <4> QED
        BY <2>2, <4>1, <4>2
    <3> QED
      BY <2>1, <3>1, <3>2 DEF Gives
  <2> QED
    BY <1>1, <1>2, <2>3, <2>4, <2>5, <2>6 DEF ReturnInv
<1>6. CASE ~ProcessMemoryLost /\ ~\E w \in Managers : Manager(w)
  <2>1. /\ ProcessUp' /\ ~ProcessUp => locked' = {} /\ \A m \in Machines : vm'[m] = NoTask
        /\ locked' \subseteq locked
        /\ guests \subseteq guests'
        /\ \A m \in Machines : vm'[m] # NoTask => vm[m] # NoTask
        /\ \A w \in Managers : pc[w] # "idle" =>
              pc'[w] = pc[w] /\ job'[w] = job[w] /\ mach'[w] = mach[w]
        /\ \A w \in Managers : pc[w] = "idle" => pc'[w] \in {"idle", "count"}
        /\ outcome' = outcome /\ glog' = glog
    BY <1>3, <1>6, OthersGive
  <2>2. GuestRows'
    BY <2>1 DEF GuestRows, ReturnInv, On
  <2>3. NoDeadMachine'
    BY <2>1 DEF NoDeadMachine, ReturnInv
  <2>4. OnIsHeld'
    BY <2>1 DEF OnIsHeld, ReturnInv, On
  <2>5. MachineNotLeaked'
    BY <2>1 DEF MachineNotLeaked, ReturnInv, Owning
  <2> QED
    BY <1>1, <1>2, <2>2, <2>3, <2>4, <2>5 DEF ReturnInv
<1> QED
  BY <1>4, <1>5, <1>6

(* ReturnInv holds at the start. *)
LEMMA ReturnInit == Init => ReturnInv
<1> SUFFICES ASSUME Init PROVE ReturnInv
  OBVIOUS
<1>1. MachineInv /\ ArchInv
  BY MachineInit, BaseInit DEF Init, ArchInv, Suited, Live
<1>2. /\ locked = {} /\ NoneDeleted /\ \A m \in Machines : vm[m] = NoTask
      /\ \A w \in Managers : pc[w] = "idle" /\ outcome[w] = "none"
  BY DEF Init, DatabaseInit, NoneDeleted
<1> QED
  BY <1>1, <1>2 DEF ReturnInv, GuestRows, NoDeadMachine, OnIsHeld, MachineNotLeaked, On

(* Whatever the guests do, and wherever the process is killed and started again,   *)
(* every locked machine is in the hands of a manager that will release it, as   *)
(* long as machines and rooter do what they are told and no row is deleted. *)
THEOREM MachinesAreReturned ==
    ASSUME MachinesReturn
    PROVE  Spec => []MachineNotLeaked
<1>1. Init => ReturnInv
  BY ReturnInit
<1>2. ReturnInv /\ [Next]_vars => ReturnInv'
  BY ReturnStep
<1>3. ReturnInv => MachineNotLeaked
  BY DEF ReturnInv
<1> QED
  BY <1>1, <1>2, <1>3, PTL DEF Spec

=============================================================================
