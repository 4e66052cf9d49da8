-------------------------- MODULE SchedulerLifecycle --------------------------
(***************************************************************************)
(* Theorems about the life of a task in Scheduler: one manager at a time     *)
(* works on it, it is completed by that manager and by nobody else, start-up *)
(* leaves none in status running behind, and the whole implements            *)
(* TaskLifecycle.                                                           *)
(*                                                                          *)
(* Scheduler.start launches a stale task when get_available_machines returns *)
(* an empty list: the run relaunch shows it.  The theorems say that nothing   *)
(* else goes wrong: their hypothesis is that the list is never empty, and     *)
(* the last section shows installations in which it never is.               *)
(***************************************************************************)
EXTENDS SchedulerReturns

-----------------------------------------------------------------------------
(* What the steps do to the column status. *)

SameStatus == \A t \in TaskIds : tasks'[t].status = tasks[t].status

(* The status of t becomes s, and no other changes. *)
Becomes(t, s) ==
    /\ tasks'[t].status = s
    /\ \A u \in TaskIds \ {t} : tasks'[u].status = tasks[u].status

(* set_status on a row that is there, and on one that is not. *)
LEMMA SetStatusBecomes ==
    ASSUME tasks \in [TaskIds -> RowType], NEW t, NEW s, SetStatus(t, s)
    PROVE  /\ Exists(t) => Becomes(t, s)
           /\ ~Exists(t) => SameStatus
BY DEF SetStatus, Exists, Becomes, SameStatus, RowType

(* Database.add. *)
LEMMA AddedBecomes ==
    ASSUME tasks \in [TaskIds -> RowType], NEW n \in TaskIds, NEW j, tasks' = Added(tasks, n, j)
    PROVE  Becomes(n, "pending")
BY DEF Added, Becomes

(* set_status and set_task_vm of fetch. *)
LEMMA MarkBecomes ==
    ASSUME tasks \in [TaskIds -> RowType], Exists(stask),
           tasks' = [tasks EXCEPT ![stask].status = "running", ![stask].job.machine = smach]
    PROVE  Becomes(stask, "running")
<1>1. stask \in TaskIds /\ tasks[stask] \in RowType
  BY DEF Exists
<1>2. tasks' = [tasks EXCEPT ![stask] = [tasks[stask] EXCEPT !.status = "running",
                    !.job = [tasks[stask].job EXCEPT !.machine = smach]]]
  BY <1>1
<1>3. tasks'[stask] = [tasks[stask] EXCEPT !.status = "running",
                          !.job = [tasks[stask].job EXCEPT !.machine = smach]]
  BY <1>1, <1>2
<1>4. tasks'[stask].status = "running"
  BY <1>1, <1>3 DEF RowType
<1>5. \A u \in TaskIds \ {stask} : tasks'[u] = tasks[u]
  BY <1>2
<1> QED
  BY <1>4, <1>5 DEF Becomes

(* The only step of a manager that writes a status is its last. *)
Closes(w) ==
    /\ pc[w] = "complete"
    /\ pc'[w] = "idle"
    /\ DatabaseFree
    /\ Exists(job[w]) => Becomes(job[w], "completed")
    /\ ~Exists(job[w]) => SameStatus

(* Every step of a manager closes its task, gives it up, or leaves it be. *)
LEMMA ManagerCloses ==
    ASSUME DataOK, Handed, NEW w \in Managers, Manager(w)
    PROVE  /\ UNCHANGED <<loopVars, bootVars>>
           /\ \/ Closes(w)
              \/ SameStatus /\ (pc'[w] = "idle" => pc[w] = "escape")
<1> USE DEF DataOK, DatabaseTypeOK, dbVars
<1>0. UNCHANGED tasks => SameStatus
  BY DEF SameStatus
<1>1. CASE AcquireMachine(w)
  <2>1. mach[w] \in Machines /\ pc'[w] # "idle"
    BY <1>1 DEF AcquireMachine, LockAgain, Handed, Live, Goto
  <2>2. SameStatus
    BY <1>0, <1>1, <2>1, MachineKeepsTags DEF AcquireMachine, Exists, SameStatus
  <2> QED
    BY <1>1, <2>1, <2>2 DEF AcquireMachine
<1>2. CASE Complete(w)
  <2>1. Closes(w)
    BY <1>2, SetStatusBecomes DEF Complete, Closes, ThreadEnds, Goto
  <2> QED
    BY <1>2, <2>1 DEF Complete, ThreadEnds
<1>3. CASE ~AcquireMachine(w) /\ ~Complete(w)
  <2>1. UNCHANGED <<tasks, loopVars, bootVars>>
    BY <1>3
    DEF Manager, CountUp, InitStorage, CategoryChecks, AcquireLock, BuildOptions, AddTask,
        GuestStart, MachineryStart, RouteNetwork, GuestAnalysis, MachineryStop, GuestStop,
        DelTask, DeadMachine, MachineryRelease, Escape, ThreadEnds
  <2>2. pc'[w] = "idle" => pc[w] = "escape"
    BY <1>3
    DEF Manager, CountUp, InitStorage, CategoryChecks, AcquireLock, BuildOptions, AddTask,
        GuestStart, MachineryStart, RouteNetwork, GuestAnalysis, MachineryStop, GuestStop,
        DelTask, DeadMachine, MachineryRelease, Escape, ThreadEnds, Goto, Leave
  <2> QED
    BY <1>0, <2>1, <2>2
<1> QED
  BY <1>1, <1>2, <1>3

(* The web deletes rows. *)
Deletes == "remove" \in Env \/ "delete" \in Env

(* What the other processes may make of the status of a task. *)
ElsewhereFrom(p, q) ==
    \/ q = p
    \/ p = "none" /\ q = "pending"
    \/ p = "pending" /\ q = "banned" /\ "ban" \in Env
    \/ p # "none" /\ q = "deleted" /\ Deletes
    \/ p \notin {"none", "deleted"} /\ q = "recovered" /\ "reschedule" \in Env
    \/ p = "completed" /\ q \in {"reported", "failed_processing"}

(* They make nothing else of it. *)
LEMMA OthersChange ==
    ASSUME DatabaseTypeOK, OtherProcesses
    PROVE  \A t \in TaskIds : ElsewhereFrom(tasks[t].status, tasks'[t].status)
<1> DEFINE Goal == \A t \in TaskIds : ElsewhereFrom(tasks[t].status, tasks'[t].status)
<1> SUFFICES Goal
  OBVIOUS
<1> USE DEF DatabaseTypeOK, ElsewhereFrom
<1>1. ASSUME NEW j \in Jobs, Submit(j) PROVE Goal
  BY <1>1, AddedBecomes DEF Submit, CanAdd, Becomes
<1>2. ASSUME NEW t \in TaskIds, Remove(t) PROVE Goal
  <2>1. Becomes(t, "deleted") /\ tasks[t].status # "none"
    BY <1>2 DEF Remove, Becomes, Exists, RowType
  <2> QED
    BY <1>2, <2>1 DEF Becomes, Remove, Deletes
<1>3. ASSUME NEW t \in TaskIds, TasksDelete(t) PROVE Goal
  <2>1. Becomes(t, "deleted") /\ tasks[t].status # "none"
    BY <1>3 DEF TasksDelete, Becomes, Exists, RowType
  <2> QED
    BY <1>3, <2>1 DEF Becomes, TasksDelete, Deletes
<1>4. ASSUME NEW u \in Users, BanUserTasks(u) PROVE Goal
  BY <1>4 DEF BanUserTasks, RowType
<1>5. ASSUME NEW t \in TaskIds, TasksReschedule(t) PROVE Goal
  <2> DEFINE marked == [tasks EXCEPT ![t].status = "recovered"]
  <2>1. marked \in [TaskIds -> RowType]
    BY StatusType DEF Status
  <2>2. /\ marked[t].status = "recovered"
        /\ \A u \in TaskIds \ {t} : marked[u].status = tasks[u].status
        /\ tasks[t].status \notin {"none", "deleted"} /\ "reschedule" \in Env
    BY <1>5 DEF TasksReschedule, Exists, RowType
  <2>3. CASE tasks' = marked
    <3> HIDE DEF marked
    <3> QED
      BY <2>2, <2>3
  <2>4. ASSUME NEW n \in TaskIds, CanAdd(n), tasks' = Added(marked, n, Copy(tasks[t].job))
        PROVE  Goal
    <3> HIDE DEF marked
    <3>1. tasks'[n].status = "pending" /\ tasks[n].status = "none"
      BY <2>1, <2>4 DEF Added, CanAdd
    <3>2. \A u \in TaskIds \ {n} : tasks'[u] = marked[u]
      BY <2>1, <2>4, AddedKeeps
    <3> QED
      BY <2>2, <3>1, <3>2
  <2> QED
    BY <1>5, <2>3, <2>4 DEF TasksReschedule
<1>6. ASSUME NEW t \in TaskIds, Report(t) PROVE Goal
  <2>1. PICK s \in {"reported", "failed_processing"} : SetStatus(t, s)
    BY <1>6 DEF Report
  <2>2. tasks[t].status = "completed" /\ Becomes(t, s)
    BY <1>6, <2>1, SetStatusBecomes DEF Report, Exists
  <2> QED
    BY <2>2 DEF Becomes
<1> QED
  BY <1>1, <1>2, <1>3, <1>4, <1>5, <1>6 DEF OtherProcesses

-----------------------------------------------------------------------------
(* get_available_machines returns a machine whenever availables() has found one. *)
Listed == spc = "fetch" => ~(Machines \subseteq locked)

(* The steps that touch neither a row nor a manager nor the lists of start-up, *)
(* and hand no task over.                                                   *)
Walk ==
    /\ UNCHANGED <<tasks, stask, recovering, readding, pc, job, outcome, glog, guests, storage>>
    /\ spc' \in {"mark", "spawn"} => spc' = spc
    /\ spc = "spawn" => spc' = "spawn" \/ stask = NoTask
    /\ spc' = "recover" => spc = "recover"
    /\ spc' = "down" => spc = "down" \/ readding = NoTask
    /\ ProcessUp => ProcessUp'
    /\ ProcessUp' => ProcessUp \/ (recovering = {} /\ readding = NoTask /\ spc = "recover")

(* Every step of the system, as far as tasks are concerned. *)
LEMMA TaskShape ==
    ASSUME DataOK, Listed, [Next]_vars
    PROVE  \/ ProcessMemoryLost /\ UNCHANGED <<tasks, guests, storage>>
           \/ \E w \in Managers : Spawn(w)
           \/ \E w \in Managers : Manager(w)
           \/ OtherProcess
           \/ \E m \in Machines : FetchSelect(m)
           \/ FetchMark
           \/ InitTasks
           \/ \E t \in TaskIds : RecoverTask(t)
           \/ Readd
           \/ Walk
<1> USE DEF DataOK, dbVars, hostVars, procVars, loopVars, bootVars, mgrVars, ProcessUp, Walk
<1>1. CASE UNCHANGED vars
  BY <1>1 DEF vars
<1>2. CASE Initialize
  BY <1>2 DEF Initialize
<1>3. CASE Signals
  BY <1>3 DEF Signals, SetStopAnalyzing, KeyboardInterrupt, Crash
<1>4. CASE Probe \/ Limits \/ NothingToSpawn
  BY <1>4 DEF Probe, Limits, NothingToSpawn
<1>5. CASE GetAvailableMachines
  BY <1>5 DEF GetAvailableMachines, Listed
<1>6. CASE Availables
  BY <1>6 DEF Availables
<1>7. CASE DealWithErrors \/ LoopExit
  BY <1>7 DEF DealWithErrors, LoopExit
<1> QED
  BY <1>1, <1>2, <1>3, <1>4, <1>5, <1>6, <1>7 DEF Next, MainThread, StartUp

-----------------------------------------------------------------------------
(* The statuses of a task that a manager is at work on: set by fetch, or        *)
(* overwritten by the web meanwhile.                                        *)
Taken == {"running"} \cup (IF "reschedule" \in Env THEN {"recovered"} ELSE {})
                     \cup (IF Deletes THEN {"deleted"} ELSE {})

(* ... and of one that fetch has selected and not marked yet. *)
Selected == {"pending"} \cup (IF "ban" \in Env THEN {"banned"} ELSE {})
                        \cup (Taken \ {"running"})

(* No manager has the task. *)
Free(t) == \A w \in Managers : Live(w) => job[w] # t

AtWork == \A w \in Managers : Live(w) => tasks[job[w]].status \in Taken

(* The task the main thread is about to mark, or to start a manager for. *)
InHand ==
    stask # NoTask =>
       /\ spc = "mark"  => Free(stask) /\ tasks[stask].status \in Selected
       /\ spc = "spawn" => Free(stask) /\ tasks[stask].status \in Taken

(* The tasks start-up is still to close. *)
ToClose ==
    /\ \A t \in recovering : tasks[t].status \in Taken
    /\ ProcessUp => recovering = {} /\ readding = NoTask
    /\ spc = "down" => readding = NoTask

LaunchInv == BaseInv /\ LaunchedOnce /\ AtWork /\ InHand /\ ToClose

(* The statuses that are not among them, and what other processes do to one. *)
LEMMA TakenStays ==
    /\ Taken \cap {"none", "pending", "banned", "completed", "reported", "failed_processing"} = {}
    /\ "running" \in Taken /\ "none" \notin Selected
    /\ \A p, q : ElsewhereFrom(p, q) /\ p \in Taken => q \in Taken
    /\ \A p, q : ElsewhereFrom(p, q) /\ p \in Selected => q \in Selected
BY DEF Taken, Selected, ElsewhereFrom

(* No task is there that has the identifier NoTask. *)
LEMMA NoTaskIsNone == NoTask \notin TaskIds
BY DEF NoTask, TaskIds

(* Starting a manager for the task in hand. *)
LEMMA LaunchSpawn ==
    ASSUME LaunchInv, NEW w \in Managers, Spawn(w)
    PROVE  (LaunchedOnce /\ AtWork /\ InHand /\ ToClose)'
<1> USE DEF LaunchInv, Live
<1>1. /\ spc = "spawn" /\ spc' = "errors" /\ pc[w] = "idle" /\ stask # NoTask
      /\ UNCHANGED <<tasks, recovering, readding>>
      /\ job'[w] = stask
      /\ \A v \in Managers \ {w} : pc'[v] = pc[v] /\ job'[v] = job[v]
  BY DEF Spawn, BaseInv, DataOK, dbVars, bootVars
<1>2. LaunchedOnce'
  BY <1>1 DEF LaunchedOnce, InHand, Free
<1>3. AtWork'
  BY <1>1 DEF AtWork, InHand
<1>4. InHand' /\ ToClose'
  BY <1>1 DEF InHand, ToClose, ProcessUp
<1> QED
  BY <1>2, <1>3, <1>4

(* A step of a manager. *)
LEMMA LaunchManager ==
    ASSUME LaunchInv, NEW w \in Managers, Manager(w)
    PROVE  (LaunchedOnce /\ AtWork /\ InHand /\ ToClose)'
<1> USE DEF LaunchInv, Live
<1>1. Move(w) /\ DataOK /\ Handed
  BY ManagerMoves DEF BaseInv
<1>2. /\ UNCHANGED <<spc, stask, recovering, readding>>
      /\ Closes(w) \/ SameStatus
  BY <1>1, ManagerCloses DEF loopVars, bootVars
<1>3. /\ pc[w] # "idle" /\ job[w] \in TaskIds
      /\ \A v \in Managers : pc'[v] # "idle" => pc[v] # "idle" /\ job'[v] = job[v]
  BY <1>1 DEF Move, DataOK, Handed
<1>4. ProcessUp /\ recovering = {} /\ readding = NoTask
  BY <1>3 DEF BaseInv, DownMeansIdle, ToClose
<1>5. LaunchedOnce'
  BY <1>3 DEF LaunchedOnce
<1>6. ToClose'
  BY <1>2, <1>4 DEF ToClose, ProcessUp
<1>7. \A t \in TaskIds : Free(t) => Free(t)'
  BY <1>3 DEF Free
<1>8. \A v \in Managers : pc'[v] # "idle" => job[v] \in TaskIds /\ tasks'[job[v]].status = tasks[job[v]].status
  <2>1. CASE SameStatus
    BY <1>1, <1>3, <2>1 DEF SameStatus, Handed
  <2>2. CASE Closes(w)
    BY <1>1, <1>3, <2>2 DEF Closes, Becomes, LaunchedOnce, Handed, SameStatus
  <2> QED
    BY <1>2, <2>1, <2>2
<1>9. AtWork'
  BY <1>3, <1>8 DEF AtWork
<1>10. stask # NoTask /\ spc \in {"mark", "spawn"} => stask \in TaskIds /\ tasks'[stask].status = tasks[stask].status
  <2>1. CASE SameStatus
    BY <1>1, <2>1 DEF SameStatus, DataOK
  <2>2. CASE Closes(w)
    BY <1>1, <1>3, <2>2 DEF Closes, Becomes, DataOK, DatabaseFree, InHand, Free, SameStatus
  <2> QED
    BY <1>2, <2>1, <2>2
<1>11. InHand'
  BY <1>2, <1>7, <1>10 DEF InHand
<1> QED
  BY <1>5, <1>6, <1>9, <1>11

(* What the other processes do meanwhile. *)
LEMMA LaunchOther ==
    ASSUME LaunchInv, OtherProcess
    PROVE  (LaunchedOnce /\ AtWork /\ InHand /\ ToClose)'
<1> USE DEF LaunchInv, Live
<1>1. UNCHANGED <<spc, stask, recovering, readding, pc, job>>
  BY DEF OtherProcess, loopVars, bootVars, mgrVars
<1>2. \A t \in TaskIds : ElsewhereFrom(tasks[t].status, tasks'[t].status)
  BY OthersChange DEF OtherProcess, BaseInv, DataOK
<1>3. /\ \A t \in TaskIds : tasks[t].status \in Taken => tasks'[t].status \in Taken
      /\ \A t \in TaskIds : tasks[t].status \in Selected => tasks'[t].status \in Selected
  BY <1>2, TakenStays
<1>4. LaunchedOnce'
  BY <1>1 DEF LaunchedOnce
<1>5. AtWork'
  BY <1>1, <1>3 DEF AtWork, BaseInv, Handed
<1>6. InHand'
  BY <1>1, <1>3 DEF InHand, Free, BaseInv, DataOK
<1>7. ToClose'
  BY <1>1, <1>3 DEF ToClose, BaseInv, DataOK, ProcessUp
<1> QED
  BY <1>4, <1>5, <1>6, <1>7

(* fetch: its SELECT and its UPDATE. *)
LEMMA LaunchFetch ==
    ASSUME LaunchInv, FetchMark \/ \E m \in Machines : FetchSelect(m)
    PROVE  (LaunchedOnce /\ AtWork /\ InHand /\ ToClose)'
<1> USE DEF LaunchInv, Live
<1>1. UNCHANGED <<recovering, readding, pc, job>> /\ ProcessUp /\ ProcessUp'
  BY DEF FetchMark, FetchSelect, bootVars, mgrVars, ProcessUp
<1>2. LaunchedOnce' /\ DataOK /\ Handed
  BY <1>1 DEF LaunchedOnce, BaseInv
<1>3. ToClose'
  BY <1>1 DEF ToClose, ProcessUp
<1>4. ASSUME NEW m \in Machines, FetchSelect(m) PROVE AtWork' /\ InHand'
  <2>1. UNCHANGED tasks
    BY <1>4 DEF FetchSelect, dbVars
  <2>2. AtWork'
    BY <1>1, <2>1 DEF AtWork
  <2>3. CASE stask' = NoTask
    BY <2>2, <2>3 DEF InHand
  <2>4. CASE stask' # NoTask
    <3>1. /\ stask' \in TaskIds /\ tasks[stask'].status = "pending" /\ spc' = "mark"
      BY <1>4, <2>4 DEF FetchSelect, FetchNone, FetchedBy, Fetchable, InStatus
    <3>2. \A w \in Managers : pc[w] # "idle" => job[w] # stask'
      BY <3>1, TakenStays DEF AtWork
    <3> QED
      BY <1>1, <2>1, <2>2, <3>1, <3>2 DEF InHand, Free, Selected
  <2> QED
    BY <2>3, <2>4
<1>5. CASE FetchMark
  <2>1. spc = "mark" /\ stask # NoTask /\ spc' # "mark"
    BY <1>2, <1>5 DEF FetchMark, Handed
  <2>2. Free(stask)
    BY <2>1 DEF InHand
  <2>3. CASE Exists(stask)
    <3>1. Becomes(stask, "running") /\ stask' = stask
      BY <1>2, <1>5, <2>3, MarkBecomes DEF FetchMark, DataOK, DatabaseTypeOK
    <3>2. AtWork'
      BY <1>1, <1>2, <2>2, <3>1 DEF AtWork, Becomes, Free, Handed
    <3>3. InHand'
      BY <1>1, <2>1, <2>2, <3>1, TakenStays DEF InHand, Becomes, Free
    <3> QED
      BY <1>2, <1>3, <3>2, <3>3
  <2>4. CASE ~Exists(stask)
    <3>1. UNCHANGED tasks /\ stask' = NoTask
      BY <1>5, <2>4 DEF FetchMark, FetchNone
    <3> QED
      BY <1>1, <1>2, <1>3, <3>1 DEF AtWork, InHand
  <2> QED
    BY <2>3, <2>4
<1> QED
  BY <1>2, <1>3, <1>4, <1>5

(* Start-up, while no manager is alive. *)
LEMMA LaunchStartUp ==
    ASSUME LaunchInv, InitTasks \/ Readd \/ \E t \in TaskIds : RecoverTask(t)
    PROVE  (LaunchedOnce /\ AtWork /\ InHand /\ ToClose)'
<1> USE DEF LaunchInv, Live
<1>1. UNCHANGED <<pc, job, stask>> /\ spc \in {"down", "recover"} /\ spc' = "recover"
  BY DEF InitTasks, Readd, RecoverTask, loopVars, mgrVars
<1>2. \A w \in Managers : pc[w] = "idle"
  BY <1>1 DEF BaseInv, DownMeansIdle, ProcessUp
<1>3. LaunchedOnce' /\ AtWork' /\ InHand'
  BY <1>1, <1>2 DEF LaunchedOnce, AtWork, InHand
<1>4. DataOK /\ tasks \in [TaskIds -> RowType] /\ ~ProcessUp'
  BY <1>1 DEF BaseInv, DataOK, DatabaseTypeOK, ProcessUp
<1>5. CASE InitTasks
  <2>1. \A t \in recovering' : tasks'[t].status = "running"
    BY <1>5 DEF InitTasks, ToRecover, InStatus, dbVars
  <2> QED
    BY <1>1, <1>3, <1>4, <2>1, TakenStays DEF ToClose
<1>6. ASSUME NEW t \in TaskIds, RecoverTask(t) PROVE ToClose'
  <2> DEFINE s == IF Reschedule THEN "recovered" ELSE "failed_analysis"
  <2>1. SetStatus(t, s) /\ recovering' = recovering \ {t}
    BY <1>6 DEF RecoverTask
  <2>2. \A u \in TaskIds \ {t} : tasks'[u].status = tasks[u].status
    <3> HIDE DEF s
    <3> QED
      BY <1>4, <2>1, SetStatusBecomes DEF Becomes, SameStatus
  <2> QED
    BY <1>1, <1>4, <2>1, <2>2 DEF ToClose, DataOK
<1>7. CASE Readd
  <2>1. recovering' = recovering
    BY <1>7 DEF Readd
  <2>2. ASSUME UNCHANGED tasks PROVE ToClose'
    BY <1>1, <1>4, <2>1, <2>2 DEF ToClose
  <2>3. ASSUME NEW n \in TaskIds, CanAdd(n), tasks' = Added(tasks, n, Copy(tasks[readding].job))
        PROVE  ToClose'
    <3>1. Becomes(n, "pending") /\ tasks[n].status = "none"
      BY <1>4, <2>3, AddedBecomes DEF CanAdd
    <3> QED
      BY <1>1, <1>4, <2>1, <3>1, TakenStays DEF ToClose, Becomes, DataOK
  <2> QED
    BY <1>3, <1>7, <2>2, <2>3 DEF Readd
<1> QED
  BY <1>3, <1>5, <1>6, <1>7

(* The other steps, and the end of the process. *)
LEMMA LaunchRest ==
    ASSUME LaunchInv, Walk \/ (ProcessMemoryLost /\ UNCHANGED tasks)
    PROVE  (LaunchedOnce /\ AtWork /\ InHand /\ ToClose)'
<1> USE DEF LaunchInv, Live
<1>1. CASE Walk
  <2>1. LaunchedOnce' /\ AtWork'
    BY <1>1 DEF Walk, LaunchedOnce, AtWork
  <2>2. InHand'
    BY <1>1 DEF Walk, InHand, Free
  <2>3. ToClose'
    BY <1>1 DEF Walk, ToClose, ProcessUp
  <2> QED
    BY <2>1, <2>2, <2>3
<1>2. CASE ProcessMemoryLost
  BY <1>2 DEF ProcessMemoryLost, LaunchedOnce, AtWork, InHand, ToClose
<1> QED
  BY <1>1, <1>2

(* Every step keeps LaunchInv, unless the list of machines is empty. *)
LEMMA LaunchStep ==
    ASSUME Listed, LaunchInv, [Next]_vars
    PROVE  LaunchInv'
<1>1. BaseInv' /\ DataOK
  BY BaseStep DEF LaunchInv, BaseInv
<1>2. (LaunchedOnce /\ AtWork /\ InHand /\ ToClose)'
  BY <1>1, TaskShape, LaunchSpawn, LaunchManager, LaunchOther, LaunchFetch, LaunchStartUp, LaunchRest
<1> QED
  BY <1>1, <1>2 DEF LaunchInv

(* LaunchInv holds at the start. *)
LEMMA LaunchInit == Init => LaunchInv
<1> SUFFICES ASSUME Init PROVE LaunchInv
  OBVIOUS
<1>1. /\ \A w \in Managers : pc[w] = "idle"
      /\ stask = NoTask /\ recovering = {} /\ readding = NoTask
  BY DEF Init
<1> QED
  BY <1>1, BaseInit DEF LaunchInv, LaunchedOnce, AtWork, InHand, ToClose, Live

(* An empty list of machines is the only way to two managers for one task:      *)
(* fetch, the restarts and the requests of the web lead to none.            *)
THEOREM TasksAreLaunchedOnce == Spec /\ []Listed => []LaunchedOnce
<1>1. LaunchInv => LaunchedOnce
  BY DEF LaunchInv
<1>2. LaunchInv /\ Listed /\ [Next]_vars => LaunchInv'
  BY LaunchStep
<1> QED
  BY <1>1, <1>2, LaunchInit, PTL DEF Spec

(* A task that process.py may pick up is one no manager works on, under every    *)
(* fault and every request of the web: the status of a task in a manager's hands *)
(* is overwritten by reschedule or a deletion alone.                        *)
THEOREM CompletedTasksAreDone == Spec /\ []Listed => []CompletedMeansDone
<1>1. LaunchInv => CompletedMeansDone
  BY TakenStays DEF LaunchInv, AtWork, CompletedMeansDone
<1>2. LaunchInv /\ Listed /\ [Next]_vars => LaunchInv'
  BY LaunchStep
<1> QED
  BY <1>1, <1>2, LaunchInit, PTL DEF Spec

-----------------------------------------------------------------------------
(* Nothing raises in a manager that no except clause of run expects: the target    *)
(* can be read, and rooter and agent answer.  A deleted row still makes one.    *)
NoEscape == Faults \cap {"target", "rooter", "http"} = {}

(* A manager whose task has its row has the folder and the guest row it needs, and *)
(* comes to its end by launch_analysis returning.                           *)
Healthy(w) ==
    Exists(job[w]) =>
       /\ pc[w] \in Writing => job[w] \in storage
       /\ pc[w] \in On \cup {"boot", "gstop"} => glog[w] /\ job[w] \in guests
       /\ pc[w] \in {"halt", "gstop", "forget", "dead"} => outcome[w] \in {"return", "noboot", "dead"}
       /\ pc[w] = "release" => outcome[w] = "return"
       /\ pc[w] # "escape"

AllHealthy == \A w \in Managers : Live(w) => Healthy(w)

(* Start-up's list holds every task in status running. *)
Closing == spc = "recover" => InStatus("running") \subseteq recovering

HealthInv == LaunchInv /\ AllHealthy /\ Closing /\ RunningIsAttended

(* A step of a manager leaves the manager itself in health, ... *)
LEMMA ManagerHealth ==
    ASSUME NoEscape, DataOK, Handed, NEW w \in Managers, Manager(w), Healthy(w), Exists(job[w])
    PROVE  /\ pc[w] # "escape"
           /\ pc'[w] # "idle" =>
                /\ pc'[w] \in Writing => job[w] \in storage'
                /\ pc'[w] \in On \cup {"boot", "gstop"} => glog'[w] /\ job[w] \in guests'
                /\ pc'[w] \in {"halt", "gstop", "forget", "dead"} => outcome'[w] \in {"return", "noboot", "dead"}
                /\ pc'[w] = "release" => outcome'[w] = "return"
                /\ pc'[w] # "escape"
<1> USE DEF DataOK, DatabaseTypeOK, Healthy, Goto, Leave, Owning, Writing, On, NoEscape, dbVars
<1>1. CASE CountUp(w)
  BY <1>1 DEF CountUp
<1>2. CASE InitStorage(w)
  BY <1>2 DEF InitStorage
<1>3. CASE CategoryChecks(w)
  BY <1>3 DEF CategoryChecks
<1>4. CASE AcquireLock(w)
  BY <1>4 DEF AcquireLock
<1>5. CASE AcquireMachine(w)
  BY <1>5 DEF AcquireMachine, LockAgain
<1>6. CASE BuildOptions(w)
  BY <1>6 DEF BuildOptions
<1>7. CASE AddTask(w)
  BY <1>7 DEF AddTask
<1>8. CASE GuestStart(w)
  BY <1>8 DEF GuestStart
<1>9. CASE MachineryStart(w)
  BY <1>9 DEF MachineryStart
<1>10. CASE RouteNetwork(w)
  BY <1>10 DEF RouteNetwork
<1>11. CASE GuestAnalysis(w)
  BY <1>11 DEF GuestAnalysis
<1>12. CASE MachineryStop(w)
  BY <1>12 DEF MachineryStop
<1>13. CASE GuestStop(w)
  BY <1>13 DEF GuestStop
<1>14. CASE DelTask(w)
  BY <1>14 DEF DelTask, UnrouteFails
<1>15. CASE DeadMachine(w)
  BY <1>15 DEF DeadMachine
<1>16. CASE MachineryRelease(w)
  BY <1>16 DEF MachineryRelease
<1>17. CASE Complete(w)
  BY <1>17 DEF Complete, ThreadEnds
<1>18. CASE Escape(w)
  BY <1>18 DEF Escape, ThreadEnds
<1> QED
  BY <1>1, <1>2, <1>3, <1>4, <1>5, <1>6, <1>7, <1>8, <1>9, <1>10, <1>11, <1>12, <1>13, <1>14, <1>15,
     <1>16, <1>17, <1>18 DEF Manager

(* ... and touches nothing another manager needs. *)
LEMMA ManagerSpares ==
    ASSUME DataOK, NEW w \in Managers, Manager(w)
    PROVE  /\ \A v \in Managers \ {w} : outcome'[v] = outcome[v] /\ glog'[v] = glog[v]
           /\ \A t \in TaskIds \ {job[w]} : /\ t \in storage => t \in storage'
                                            /\ t \in guests => t \in guests'
<1> USE DEF DataOK, Leave, dbVars
<1>1. CASE CountUp(w) \/ InitStorage(w) \/ CategoryChecks(w) \/ AcquireLock(w) \/ AcquireMachine(w)
           \/ BuildOptions(w) \/ AddTask(w)
  BY <1>1 DEF CountUp, InitStorage, CategoryChecks, AcquireLock, AcquireMachine, BuildOptions, AddTask
<1>2. CASE GuestStart(w)
  BY <1>2 DEF GuestStart
<1>3. CASE MachineryStart(w) \/ RouteNetwork(w) \/ GuestAnalysis(w)
  BY <1>3 DEF MachineryStart, RouteNetwork, GuestAnalysis
<1>4. CASE MachineryStop(w) \/ GuestStop(w) \/ DelTask(w) \/ DeadMachine(w) \/ MachineryRelease(w)
  BY <1>4 DEF MachineryStop, GuestStop, DelTask, DeadMachine, MachineryRelease
<1>5. CASE Complete(w) \/ Escape(w)
  BY <1>5 DEF Complete, Escape, ThreadEnds
<1> QED
  BY <1>1, <1>2, <1>3, <1>4, <1>5 DEF Manager

(* The other processes take folder and guest row with the row alone. *)
LEMMA OthersSpare ==
    ASSUME DatabaseTypeOK, OtherProcesses
    PROVE  \A t \in TaskIds : tasks'[t].status # "deleted" =>
              /\ t \in storage => t \in storage'
              /\ t \in guests => t \in guests'
<1> USE DEF DatabaseTypeOK
<1>1. ASSUME NEW t \in TaskIds, Remove(t) PROVE tasks'[t].status = "deleted"
  BY <1>1 DEF Remove, RowType
<1>2. ASSUME NEW t \in TaskIds, TasksDelete(t) PROVE tasks'[t].status = "deleted"
  BY <1>2 DEF TasksDelete, RowType
<1>3. CASE \E t \in TaskIds : Remove(t)
  BY <1>1, <1>3 DEF Remove
<1>4. CASE \E t \in TaskIds : TasksDelete(t)
  BY <1>2, <1>4 DEF TasksDelete
<1>5. CASE UNCHANGED <<guests, storage>>
  BY <1>5
<1> QED
  BY <1>3, <1>4, <1>5 DEF OtherProcesses, Submit, BanUserTasks, TasksReschedule, Report

(* A manager that does not move stays in health when its row, if it is still there,   *)
(* keeps folder and guest row.                                              *)
LEMMA HealthStays ==
    ASSUME NEW w \in Managers, Healthy(w),
           pc'[w] = pc[w], job'[w] = job[w], outcome'[w] = outcome[w], glog'[w] = glog[w],
           job[w] \in TaskIds, tasks[job[w]].status # "none",
           tasks'[job[w]].status \notin {"none", "deleted"} =>
              /\ tasks[job[w]].status # "deleted"
              /\ job[w] \in storage => job[w] \in storage'
              /\ job[w] \in guests => job[w] \in guests'
    PROVE  Healthy(w)'
BY DEF Healthy, Exists

(* Every step keeps the managers in health. *)
LEMMA HealthStep ==
    ASSUME NoEscape, Listed, LaunchInv, AllHealthy, [Next]_vars
    PROVE  AllHealthy'
<1> USE DEF LaunchInv, AllHealthy, Live
<1>1. /\ DataOK /\ Handed /\ DatabaseTypeOK
      /\ \A w \in Managers : pc[w] # "idle" => job[w] \in TaskIds /\ tasks[job[w]].status # "none"
  BY TakenStays DEF BaseInv, DataOK, Handed, AtWork
<1>2. CASE ProcessMemoryLost
  BY <1>2 DEF ProcessMemoryLost
<1>3. ASSUME NEW w \in Managers, Spawn(w) PROVE AllHealthy'
  <2>1. /\ UNCHANGED <<tasks, guests, storage, outcome, glog>>
        /\ pc'[w] = "count"
        /\ \A v \in Managers \ {w} : pc'[v] = pc[v] /\ job'[v] = job[v]
    BY <1>1, <1>3 DEF Spawn, DataOK, dbVars
  <2>2. Healthy(w)'
    BY <2>1 DEF Healthy, Writing, Owning, On
  <2>3. \A v \in Managers \ {w} : pc'[v] # "idle" => Healthy(v)'
    BY <1>1, <2>1, HealthStays
  <2> QED
    BY <2>2, <2>3
<1>4. ASSUME NEW w \in Managers, Manager(w) PROVE AllHealthy'
  <2>1. Move(w) /\ (Closes(w) \/ SameStatus)
    BY <1>1, <1>4, ManagerMoves, ManagerCloses
  <2>2. /\ \A v \in Managers \ {w} : pc'[v] = pc[v] /\ job'[v] = job[v]
        /\ pc'[w] # "idle" => job'[w] = job[w]
        /\ pc[w] # "idle" /\ job[w] \in TaskIds
    BY <1>1, <2>1 DEF Move, DataOK
  <2>3. \A t \in TaskIds \ {job[w]} : tasks'[t].status = tasks[t].status
    BY <2>1 DEF Closes, Becomes, SameStatus
  <2>4. pc'[w] # "idle" => tasks'[job[w]].status = tasks[job[w]].status
    BY <2>1, <2>2 DEF Closes, SameStatus
  <2>5. ASSUME NEW v \in Managers \ {w}, pc'[v] # "idle" PROVE Healthy(v)'
    <3>1. pc[v] # "idle" /\ job[v] \in TaskIds \ {job[w]} /\ tasks[job[v]].status # "none"
      BY <1>1, <2>2, <2>5 DEF LaunchedOnce
    <3>2. tasks'[job[v]].status = tasks[job[v]].status
      BY <2>3, <3>1
    <3>3. /\ outcome'[v] = outcome[v] /\ glog'[v] = glog[v]
          /\ job[v] \in storage => job[v] \in storage'
          /\ job[v] \in guests => job[v] \in guests'
      BY <1>1, <1>4, <3>1, ManagerSpares
    <3> QED
      BY <2>2, <3>1, <3>2, <3>3, HealthStays
  <2>6. ASSUME pc'[w] # "idle" PROVE Healthy(w)'
    <3> SUFFICES ASSUME Exists(job[w])' PROVE Healthy(w)'
      BY DEF Healthy
    <3>1. Exists(job[w])
      BY <2>2, <2>4, <2>6 DEF Exists
    <3> QED
      BY <1>1, <1>4, <2>2, <2>6, <3>1, ManagerHealth DEF Healthy
  <2> QED
    BY <2>5, <2>6
<1>5. CASE OtherProcess
  <2>1. /\ UNCHANGED <<pc, job, outcome, glog>>
        /\ \A t \in TaskIds : ElsewhereFrom(tasks[t].status, tasks'[t].status)
        /\ \A t \in TaskIds : tasks'[t].status # "deleted" =>
              (t \in storage => t \in storage') /\ (t \in guests => t \in guests')
    BY <1>1, <1>5, OthersChange, OthersSpare DEF OtherProcess, mgrVars
  <2>2. \A t \in TaskIds : tasks'[t].status # "deleted" => tasks[t].status # "deleted"
    BY <2>1 DEF ElsewhereFrom
  <2> QED
    BY <1>1, <2>1, <2>2, HealthStays
<1>6. CASE FetchMark
  <2>1. UNCHANGED <<guests, storage, pc, job, outcome, glog>> /\ spc = "mark" /\ stask # NoTask
    BY <1>1, <1>6 DEF FetchMark, mgrVars, Handed
  <2>2. \A w \in Managers : pc[w] # "idle" => tasks'[job[w]].status = tasks[job[w]].status
    <3>1. CASE Exists(stask)
      <4>1. Becomes(stask, "running")
        BY <1>1, <1>6, <3>1, MarkBecomes DEF FetchMark, DataOK, DatabaseTypeOK
      <4> QED
        BY <1>1, <2>1, <4>1 DEF Becomes, InHand, Free
    <3>2. CASE ~Exists(stask)
      BY <1>6, <3>2 DEF FetchMark
    <3> QED
      BY <3>1, <3>2
  <2> QED
    BY <1>1, <2>1, <2>2, HealthStays
<1>7. CASE InitTasks \/ Readd \/ \E t \in TaskIds : RecoverTask(t)
  <2>1. pc' = pc /\ \A w \in Managers : pc[w] = "idle"
    BY <1>7 DEF InitTasks, Readd, RecoverTask, mgrVars, BaseInv, DownMeansIdle, ProcessUp
  <2> QED
    BY <2>1
<1>8. CASE Walk \/ \E m \in Machines : FetchSelect(m)
  <2>1. UNCHANGED <<tasks, guests, storage, pc, job, outcome, glog>>
    BY <1>8 DEF Walk, FetchSelect, dbVars, mgrVars
  <2> QED
    BY <1>1, <2>1, HealthStays
<1> QED
  BY <1>1, <1>2, <1>3, <1>4, <1>5, <1>6, <1>7, <1>8, TaskShape

(* Every step keeps start-up's list complete. *)
LEMMA ClosingStep ==
    ASSUME Listed, LaunchInv, Closing, [Next]_vars
    PROVE  Closing'
<1> USE DEF LaunchInv, Closing, InStatus
<1>1. /\ DataOK /\ Handed /\ DatabaseTypeOK /\ tasks \in [TaskIds -> RowType]
  BY DEF BaseInv, DataOK, DatabaseTypeOK
<1>2. CASE ProcessMemoryLost \/ \E w \in Managers : Spawn(w)
  BY <1>2 DEF ProcessMemoryLost, Spawn
<1>3. ASSUME NEW w \in Managers, Manager(w) PROVE Closing'
  BY <1>1, <1>3, ManagerMoves DEF Move, BaseInv, DownMeansIdle, ProcessUp
<1>4. CASE OtherProcess
  <2>1. UNCHANGED <<spc, recovering>>
    BY <1>4 DEF OtherProcess, loopVars, bootVars
  <2>2. \A t \in TaskIds : tasks'[t].status = "running" => tasks[t].status = "running"
    BY <1>1, <1>4, OthersChange DEF OtherProcess, ElsewhereFrom
  <2> QED
    BY <2>1, <2>2
<1>5. CASE FetchMark \/ \E m \in Machines : FetchSelect(m)
  BY <1>5 DEF FetchMark, FetchSelect
<1>6. CASE InitTasks
  BY <1>6 DEF InitTasks, ToRecover, dbVars
<1>7. ASSUME NEW t \in TaskIds, RecoverTask(t) PROVE Closing'
  <2> DEFINE s == IF Reschedule THEN "recovered" ELSE "failed_analysis"
  <2>1. SetStatus(t, s) /\ recovering' = recovering \ {t} /\ spc' = spc /\ s # "running"
    BY <1>7 DEF RecoverTask, loopVars
  <2> HIDE DEF s
  <2>2. CASE Exists(t)
    <3>1. Becomes(t, s)
      BY <1>1, <2>1, <2>2, SetStatusBecomes
    <3> QED
      BY <2>1, <3>1 DEF Becomes
  <2>3. CASE ~Exists(t)
    <3>1. SameStatus /\ tasks[t].status # "running"
      BY <1>1, <2>1, <2>3, SetStatusBecomes DEF Exists
    <3> QED
      BY <2>1, <3>1 DEF SameStatus
  <2> QED
    BY <2>2, <2>3
<1>8. CASE Readd
  <2>1. UNCHANGED <<recovering, spc>>
    BY <1>8 DEF Readd, loopVars
  <2>2. ASSUME NEW n \in TaskIds, tasks' = Added(tasks, n, Copy(tasks[readding].job)) PROVE Closing'
    <3>1. Becomes(n, "pending")
      BY <1>1, <2>2, AddedBecomes
    <3> QED
      BY <2>1, <3>1 DEF Becomes
  <2> QED
    BY <1>8, <2>1, <2>2 DEF Readd
<1>9. CASE Walk
  BY <1>9 DEF Walk
<1> QED
  BY <1>1, <1>2, <1>3, <1>4, <1>5, <1>6, <1>7, <1>8, <1>9, TaskShape

(* Every step keeps the running tasks attended. *)
LEMMA AttendedStep ==
    ASSUME NoEscape, Listed, HealthInv, [Next]_vars
    PROVE  RunningIsAttended'
<1> USE DEF HealthInv, LaunchInv, RunningIsAttended, InStatus, Attended, Live
<1>1. /\ DataOK /\ Handed /\ DatabaseTypeOK /\ tasks \in [TaskIds -> RowType]
  BY DEF BaseInv, DataOK, DatabaseTypeOK
<1>2. CASE ProcessMemoryLost
  BY <1>2 DEF ProcessMemoryLost, ProcessUp
<1>3. ASSUME NEW w \in Managers, Spawn(w) PROVE RunningIsAttended'
  <2>1. /\ UNCHANGED tasks /\ spc = "spawn" /\ ProcessUp
        /\ pc'[w] = "count" /\ job'[w] = stask /\ pc[w] = "idle"
        /\ \A v \in Managers \ {w} : pc'[v] = pc[v] /\ job'[v] = job[v]
    BY <1>1, <1>3 DEF Spawn, DataOK, dbVars, ProcessUp
  <2> QED
    BY <2>1
<1>4. ASSUME NEW w \in Managers, Manager(w) PROVE RunningIsAttended'
  <2>1. Move(w) /\ UNCHANGED <<spc, stask>>
    BY <1>1, <1>4, ManagerMoves DEF Move
  <2>2. Closes(w) \/ (SameStatus /\ (pc'[w] = "idle" => pc[w] = "escape"))
    BY <1>1, <1>4, ManagerCloses
  <2>3. /\ \A v \in Managers \ {w} : pc'[v] = pc[v] /\ job'[v] = job[v]
        /\ pc'[w] # "idle" => job'[w] = job[w]
        /\ pc[w] # "idle" /\ job[w] \in TaskIds
        /\ ProcessUp
    BY <1>1, <2>1 DEF Move, DataOK, Handed, BaseInv, DownMeansIdle
  <2>4. pc'[w] = "idle" => tasks'[job[w]].status # "running"
    <3>1. CASE Closes(w)
      <4>1. CASE Exists(job[w])
        BY <3>1, <4>1 DEF Closes, Becomes
      <4>2. CASE ~Exists(job[w])
        BY <2>3, <3>1, <4>2 DEF Closes, SameStatus, Exists
      <4> QED
        BY <4>1, <4>2
    <3>2. CASE SameStatus /\ (pc'[w] = "idle" => pc[w] = "escape")
      <4>1. pc[w] = "escape" => ~Exists(job[w])
        BY <2>3 DEF AllHealthy, Healthy
      <4> QED
        BY <2>3, <3>2, <4>1 DEF SameStatus, Exists
    <3> QED
      BY <2>2, <3>1, <3>2
  <2>5. \A t \in TaskIds : tasks'[t].status = "running" => tasks[t].status = "running"
    BY <2>2, <2>3 DEF Closes, Becomes, SameStatus
  <2> QED
    BY <2>1, <2>3, <2>4, <2>5
<1>5. CASE OtherProcess
  <2>1. UNCHANGED <<spc, stask, pc, job>>
    BY <1>5 DEF OtherProcess, loopVars, mgrVars
  <2>2. \A t \in TaskIds : tasks'[t].status = "running" => tasks[t].status = "running"
    BY <1>1, <1>5, OthersChange DEF OtherProcess, ElsewhereFrom
  <2> QED
    BY <2>1, <2>2 DEF ProcessUp
<1>6. ASSUME NEW m \in Machines, FetchSelect(m) PROVE RunningIsAttended'
  <2>1. UNCHANGED <<tasks, pc, job>> /\ ProcessUp /\ spc # "spawn"
    BY <1>6 DEF FetchSelect, dbVars, mgrVars, ProcessUp
  <2> QED
    BY <2>1
<1>7. CASE FetchMark
  <2>1. UNCHANGED <<pc, job>> /\ ProcessUp /\ spc # "spawn"
    BY <1>7 DEF FetchMark, mgrVars, ProcessUp
  <2>2. CASE Exists(stask)
    <3>1. Becomes(stask, "running") /\ stask' = stask /\ spc' = "spawn"
      BY <1>1, <1>7, <2>2, MarkBecomes DEF FetchMark
    <3> QED
      BY <2>1, <3>1 DEF Becomes
  <2>3. CASE ~Exists(stask)
    <3>1. UNCHANGED tasks
      BY <1>7, <2>3 DEF FetchMark
    <3> QED
      BY <2>1, <3>1
  <2> QED
    BY <2>2, <2>3
<1>8. CASE InitTasks \/ Readd \/ \E t \in TaskIds : RecoverTask(t)
  BY <1>8 DEF InitTasks, Readd, RecoverTask, ProcessUp, loopVars
<1>9. CASE Walk
  <2>1. CASE ProcessUp
    BY <1>9, <2>1, NoTaskIsNone DEF Walk
  <2>2. CASE ~ProcessUp
    <3>1. ProcessUp' => InStatus("running") = {} /\ UNCHANGED tasks
      BY <1>9, <2>2 DEF Walk, Closing
    <3> QED
      BY <3>1
  <2> QED
    BY <2>1, <2>2
<1> QED
  BY <1>1, <1>2, <1>3, <1>4, <1>5, <1>6, <1>7, <1>8, <1>9, TaskShape

(* HealthInv holds at the start. *)
LEMMA HealthInit == Init => HealthInv
<1> SUFFICES ASSUME Init PROVE HealthInv
  OBVIOUS
<1>1. /\ \A w \in Managers : pc[w] = "idle"
      /\ \A t \in TaskIds : tasks[t].status = "none"
      /\ spc = "probe"
  BY DEF Init, DatabaseInit
<1> QED
  BY <1>1, LaunchInit DEF HealthInv, AllHealthy, Live, Closing, RunningIsAttended, InStatus

(* Every step keeps HealthInv. *)
LEMMA HealthInvStep ==
    ASSUME NoEscape, Listed, HealthInv, [Next]_vars
    PROVE  HealthInv'
BY LaunchStep, HealthStep, ClosingStep, AttendedStep DEF HealthInv

(* A task in status running is being worked on, wherever the process was killed and  *)
(* started again and whatever the web deletes, bans or reschedules meanwhile.   *)
THEOREM RunningTasksAreAttended ==
    ASSUME NoEscape
    PROVE  Spec /\ []Listed => []RunningIsAttended
<1>1. HealthInv => RunningIsAttended
  BY DEF HealthInv
<1>2. HealthInv /\ Listed /\ [Next]_vars => HealthInv'
  BY HealthInvStep
<1> QED
  BY <1>1, <1>2, HealthInit, PTL DEF Spec

-----------------------------------------------------------------------------
(* The web neither deletes a row nor reschedules a task. *)
NeverTakenBack == RowsStay /\ "reschedule" \notin Env

(* Then a task in a manager's hands is in status running. *)
LEMMA TakenIsRunning == ASSUME NeverTakenBack PROVE Taken = {"running"} /\ ~Deletes
BY DEF NeverTakenBack, RowsStay, Taken, Deletes

(* No step takes a report back. *)
LEMMA ReportStep ==
    ASSUME NeverTakenBack, Listed, LaunchInv, [Next]_vars
    PROVE  \A t \in TaskIds : tasks[t].status = "reported" => tasks'[t].status = "reported"
<1> DEFINE Goal == \A t \in TaskIds : tasks[t].status = "reported" => tasks'[t].status = "reported"
<1> SUFFICES Goal
  OBVIOUS
<1> USE DEF LaunchInv, Live
<1>1. DataOK /\ Handed /\ DatabaseTypeOK /\ tasks \in [TaskIds -> RowType]
  BY DEF BaseInv, DataOK, DatabaseTypeOK
<1>2. ASSUME NEW t \in TaskIds, NEW s, tasks[t].status # "reported", Becomes(t, s) PROVE Goal
  BY <1>2 DEF Becomes
<1>3. SameStatus => Goal
  BY DEF SameStatus
<1>4. UNCHANGED tasks => Goal
  OBVIOUS
<1>5. ASSUME NEW w \in Managers, Manager(w) PROVE Goal
  <2>1. Closes(w) \/ SameStatus
    BY <1>1, <1>5, ManagerCloses
  <2>2. pc[w] # "idle" => job[w] \in TaskIds /\ tasks[job[w]].status # "reported"
    BY <1>1, TakenStays DEF AtWork, Handed
  <2> QED
    BY <1>2, <1>3, <2>1, <2>2 DEF Closes
<1>6. CASE OtherProcess
  BY <1>1, <1>6, TakenIsRunning, OthersChange DEF OtherProcess, ElsewhereFrom, NeverTakenBack
<1>7. CASE FetchMark
  <2>1. stask # NoTask /\ tasks[stask].status # "reported"
    BY <1>1, <1>7, TakenIsRunning DEF FetchMark, Handed, InHand, Selected
  <2> QED
    BY <1>1, <1>2, <1>4, <1>7, <2>1, MarkBecomes DEF FetchMark, Exists
<1>8. ASSUME NEW t \in TaskIds, RecoverTask(t) PROVE Goal
  <2>1. PICK s : SetStatus(t, s) /\ tasks[t].status # "reported"
    BY <1>8, TakenStays DEF RecoverTask, ToClose
  <2> QED
    BY <1>1, <1>2, <1>3, <2>1, SetStatusBecomes
<1>9. CASE Readd
  <2>1. ASSUME NEW n \in TaskIds, CanAdd(n), tasks' = Added(tasks, n, Copy(tasks[readding].job))
        PROVE  Goal
    BY <1>1, <1>2, <2>1, AddedBecomes DEF CanAdd
  <2> QED
    BY <1>4, <1>9, <2>1 DEF Readd
<1>10. CASE InitTasks \/ Walk \/ (\E w \in Managers : Spawn(w)) \/ (\E m \in Machines : FetchSelect(m))
            \/ (ProcessMemoryLost /\ UNCHANGED tasks)
  BY <1>4, <1>10 DEF InitTasks, Walk, Spawn, FetchSelect, dbVars
<1> HIDE DEF Goal
<1> QED
  BY <1>1, <1>5, <1>6, <1>7, <1>8, <1>9, <1>10, TaskShape

(* A reported task is never taken back: not by init_tasks, whose list was read before, *)
(* not by a manager that completes late, and not by fetch.                  *)
THEOREM ReportsAreNotUndone ==
    ASSUME NeverTakenBack
    PROVE  Spec /\ []Listed => ReportNotUndone
<1>1. LaunchInv /\ Listed /\ [Next]_vars => LaunchInv'
  BY LaunchStep
<1>2. LaunchInv /\ Listed /\ [Next]_vars =>
        [\A t \in TaskIds : tasks[t].status = "reported" => tasks'[t].status = "reported"]_vars
  BY ReportStep
<1> QED
  BY <1>1, <1>2, LaunchInit, PTL DEF Spec, ReportNotUndone

-----------------------------------------------------------------------------
(* The refinement of TaskLifecycle.  The web leaves tasks alone, once submitted. *)
LeftAlone == NeverTakenBack /\ "ban" \notin Env

(* How far a task is, from its status and whether the process is up. *)
Stage(s, up) ==
    CASE s = "none"      -> "absent"
      [] s = "pending"   -> "waiting"
      [] s = "running"   -> IF up THEN "analysing" ELSE "abandoned"
      [] s = "completed" -> "analysed"
      [] OTHER           -> "over"

Staged == \A t \in TaskIds : Phase(t) = Stage(tasks[t].status, ProcessUp)

(* That is its phase: a task is attended exactly if it is running and the process up. *)
LEMMA PhaseIsStage ==
    ASSUME LeftAlone
    PROVE  HealthInv => Staged
<1> SUFFICES ASSUME HealthInv, NEW t \in TaskIds
             PROVE  Phase(t) = Stage(tasks[t].status, ProcessUp)
  BY DEF Staged
<1>1. Attended(t) => tasks[t].status = "running" /\ ProcessUp
  BY TakenIsRunning, NoTaskIsNone
  DEF LeftAlone, HealthInv, LaunchInv, BaseInv, DownMeansIdle, AtWork, InHand, Attended, Live, ProcessUp
<1>2. tasks[t].status = "running" /\ ProcessUp => Attended(t)
  BY DEF HealthInv, RunningIsAttended, InStatus
<1> QED
  BY <1>1, <1>2 DEF Phase, Stage

(* The same in the next state. *)
LEMMA PhaseStaysStage ==
    ASSUME LeftAlone
    PROVE  HealthInv' => Staged'
<1>1. HealthInv => Staged
  BY PhaseIsStage
<1> QED
  BY <1>1, PTL

(* A change of one status that changes the stage is a move of that task. *)
LEMMA StageMoves ==
    ASSUME LeftAlone, HealthInv, HealthInv', ProcessUp' = ProcessUp,
           NEW t \in TaskIds, NEW s, Becomes(t, s), NEW p, NEW q,
           Stage(tasks[t].status, ProcessUp) = p, Stage(s, ProcessUp) = q
    PROVE  Lifecycle!Moves(t, p, q) /\ Phase(t) = p /\ Phase(t)' = q
<1>1. \A u \in TaskIds : Phase(u) = Stage(tasks[u].status, ProcessUp)
  BY PhaseIsStage DEF Staged
<1>2. \A u \in TaskIds : Phase(u)' = Stage(tasks'[u].status, ProcessUp')
  BY PhaseStaysStage DEF Staged
<1>3. \A u \in TaskIds \ {t} : Phase(u)' = Phase(u)
  BY <1>1, <1>2 DEF Becomes
<1>4. Phase(t) = p /\ Phase(t)' = q
  BY <1>1, <1>2 DEF Becomes
<1> QED
  BY <1>3, <1>4 DEF Lifecycle!Moves

(* Statuses that stay leave the phases as they are. *)
LEMMA StageStays ==
    ASSUME LeftAlone, HealthInv, HealthInv', SameStatus,
           \/ ProcessUp' = ProcessUp
           \/ InStatus("running") = {}
    PROVE  [t \in TaskIds |-> Phase(t)]' = [t \in TaskIds |-> Phase(t)]
<1>1. \A u \in TaskIds : Phase(u) = Stage(tasks[u].status, ProcessUp)
  BY PhaseIsStage DEF Staged
<1>2. \A u \in TaskIds : Phase(u)' = Stage(tasks'[u].status, ProcessUp')
  BY PhaseStaysStage DEF Staged
<1>3. \A u \in TaskIds : Phase(u)' = Phase(u)
  BY <1>1, <1>2 DEF SameStatus, InStatus, Stage
<1> QED
  BY <1>3

(* What TaskLifecycle allows in one step, stuttering included. *)
Promised == [Lifecycle!Next]_<<[t \in TaskIds |-> Phase(t)], readding>>

(* The steps of TaskLifecycle that move one task. *)
LEMMA MovesAsPromised ==
    ASSUME NEW t \in TaskIds, NEW p, NEW q, p # q,
           Lifecycle!Moves(t, p, q), Phase(t) = p, Phase(t)' = q,
           \/ p = "absent" /\ q = "waiting" /\ readding' = readding
           \/ p = "waiting" /\ q = "analysing" /\ readding' = readding
           \/ p = "analysing" /\ q = "analysed" /\ readding' = readding
           \/ p = "analysed" /\ q = "over" /\ readding' = readding
           \/ p = "abandoned" /\ q = "over" /\ readding = NoTask /\ readding' \in {t, NoTask}
           \/ p = "absent" /\ q = "waiting" /\ readding # NoTask /\ readding' = NoTask
    PROVE  Promised
<1>1. [u \in TaskIds |-> Phase(u)]'[t] # [u \in TaskIds |-> Phase(u)][t]
  OBVIOUS
<1>2. \/ Lifecycle!Submit(t) \/ Lifecycle!Take(t) \/ Lifecycle!Finish(t) \/ Lifecycle!Report(t)
      \/ Lifecycle!Close(t) \/ Lifecycle!Again(t)
  BY DEF Lifecycle!Submit, Lifecycle!Take, Lifecycle!Finish, Lifecycle!Report, Lifecycle!Close,
         Lifecycle!Again
<1>3. Lifecycle!Next
  BY <1>1, <1>2 DEF Lifecycle!Next
<1> QED
  BY <1>3 DEF Promised

(* Every step is one of TaskLifecycle, or leaves the phases and the debt as they are. *)
LEMMA LifecycleStep ==
    ASSUME NoEscape, LeftAlone, Listed, HealthInv, HealthInv', [Next]_vars
    PROVE  Promised
<1>1. /\ DataOK /\ Handed /\ DatabaseTypeOK /\ tasks \in [TaskIds -> RowType]
      /\ LaunchInv /\ Taken = {"running"} /\ Selected = {"pending"}
  BY TakenIsRunning DEF HealthInv, LaunchInv, BaseInv, DataOK, DatabaseTypeOK, LeftAlone, Selected
<1>stay. ASSUME SameStatus, readding' = readding, ProcessUp' = ProcessUp \/ InStatus("running") = {}
         PROVE  Promised
  BY <1>stay, StageStays DEF Promised
<1>2. ASSUME ProcessMemoryLost, UNCHANGED tasks PROVE Promised
  <2>1. /\ \A u \in TaskIds : Phase(u) = Stage(tasks[u].status, ProcessUp)
        /\ \A u \in TaskIds : Phase(u)' = Stage(tasks[u].status, ProcessUp')
    BY <1>2, PhaseIsStage, PhaseStaysStage DEF Staged
  <2>2. readding' = NoTask /\ ProcessUp' = FALSE
    BY <1>2 DEF ProcessMemoryLost, ProcessUp
  <2>3. \A u \in TaskIds : Phase(u)' = IF Phase(u) = "analysing" THEN "abandoned" ELSE Phase(u)
    BY <2>1, <2>2 DEF Stage
  <2>4. Lifecycle!Stop
    BY <2>2, <2>3 DEF Lifecycle!Stop
  <2> QED
    BY <2>4 DEF Promised, Lifecycle!Next
<1>3. ASSUME NEW w \in Managers, Spawn(w) PROVE Promised
  <2>1. SameStatus /\ readding' = readding /\ ProcessUp' = ProcessUp
    BY <1>3 DEF Spawn, SameStatus, dbVars, bootVars, ProcessUp
  <2> QED
    BY <1>stay, <2>1
<1>4. ASSUME NEW w \in Managers, Manager(w) PROVE Promised
  <2>1. /\ UNCHANGED <<spc, readding>>
        /\ Closes(w) \/ SameStatus
    BY <1>1, <1>4, ManagerCloses DEF loopVars, bootVars
  <2>2. CASE SameStatus
    BY <1>stay, <2>1, <2>2 DEF ProcessUp
  <2>3. CASE Closes(w)
    <3>1. job[w] \in TaskIds /\ tasks[job[w]].status = "running" /\ ProcessUp /\ ProcessUp' = ProcessUp
      BY <1>1, <2>1, <2>3 DEF Closes, Handed, Live, LaunchInv, AtWork, BaseInv, DownMeansIdle, ProcessUp
    <3>2. PICK t \in TaskIds : t = job[w]
      BY <3>1
    <3>3. Becomes(t, "completed")
      BY <2>3, <3>1, <3>2 DEF Closes, Exists
    <3>4. Stage(tasks[t].status, ProcessUp) = "analysing" /\ Stage("completed", ProcessUp) = "analysed"
      BY <3>1, <3>2 DEF Stage
    <3>5. Lifecycle!Moves(t, "analysing", "analysed") /\ Phase(t) = "analysing" /\ Phase(t)' = "analysed"
      BY <3>1, <3>3, <3>4, StageMoves
    <3> QED
      BY <2>1, <3>5, MovesAsPromised
  <2> QED
    BY <2>1, <2>2, <2>3
<1>5. CASE OtherProcess
  <2>1. UNCHANGED readding /\ ProcessUp' = ProcessUp
    BY <1>5 DEF OtherProcess, loopVars, bootVars, ProcessUp
  <2>2. ASSUME NEW j \in Jobs, Submit(j) PROVE Promised
    <3>1. PICK n \in TaskIds : CanAdd(n) /\ tasks' = Added(tasks, n, j)
      BY <2>2 DEF Submit
    <3>2. Becomes(n, "pending") /\ tasks[n].status = "none"
      BY <1>1, <3>1, AddedBecomes DEF CanAdd
    <3>3. Stage(tasks[n].status, ProcessUp) = "absent" /\ Stage("pending", ProcessUp) = "waiting"
      BY <3>2 DEF Stage
    <3>4. Lifecycle!Moves(n, "absent", "waiting") /\ Phase(n) = "absent" /\ Phase(n)' = "waiting"
      BY <2>1, <3>2, <3>3, StageMoves
    <3> QED
      BY <2>1, <3>4, MovesAsPromised
  <2>3. ASSUME NEW t \in TaskIds, Report(t) PROVE Promised
    <3>1. PICK s \in {"reported", "failed_processing"} : SetStatus(t, s)
      BY <2>3 DEF Report
    <3>2. Becomes(t, s) /\ tasks[t].status = "completed"
      BY <1>1, <2>3, <3>1, SetStatusBecomes DEF Report, Exists
    <3>3. Stage(tasks[t].status, ProcessUp) = "analysed" /\ Stage(s, ProcessUp) = "over"
      BY <3>2 DEF Stage
    <3>4. Lifecycle!Moves(t, "analysed", "over") /\ Phase(t) = "analysed" /\ Phase(t)' = "over"
      BY <2>1, <3>2, <3>3, StageMoves
    <3> QED
      BY <2>1, <3>4, MovesAsPromised
  <2>4. \/ \E j \in Jobs : Submit(j)
        \/ \E t \in TaskIds : Report(t)
    BY <1>5 DEF OtherProcess, OtherProcesses, Remove, TasksDelete, BanUserTasks, TasksReschedule,
                LeftAlone, NeverTakenBack, RowsStay
  <2> QED
    BY <2>2, <2>3, <2>4
<1>6. ASSUME NEW m \in Machines, FetchSelect(m) PROVE Promised
  <2>1. SameStatus /\ readding' = readding /\ ProcessUp' = ProcessUp
    BY <1>6 DEF FetchSelect, SameStatus, dbVars, bootVars, ProcessUp
  <2> QED
    BY <1>stay, <2>1
<1>7. CASE FetchMark
  <2>1. /\ stask \in TaskIds /\ tasks[stask].status = "pending"
        /\ ProcessUp /\ ProcessUp' = ProcessUp /\ UNCHANGED readding
    BY <1>1, <1>7 DEF FetchMark, Handed, DataOK, LaunchInv, InHand, ProcessUp, bootVars
  <2>2. PICK t \in TaskIds : t = stask
    BY <2>1
  <2>3. Becomes(t, "running")
    BY <1>1, <1>7, <2>1, <2>2, MarkBecomes DEF FetchMark, Exists
  <2>4. Stage(tasks[t].status, ProcessUp) = "waiting" /\ Stage("running", ProcessUp) = "analysing"
    BY <2>1, <2>2 DEF Stage
  <2>5. Lifecycle!Moves(t, "waiting", "analysing") /\ Phase(t) = "waiting" /\ Phase(t)' = "analysing"
    BY <2>1, <2>3, <2>4, StageMoves
  <2> QED
    BY <2>1, <2>5, MovesAsPromised
<1>8. CASE InitTasks
  <2>1. SameStatus /\ readding' = readding /\ ProcessUp' = ProcessUp
    BY <1>8 DEF InitTasks, SameStatus, dbVars, ProcessUp
  <2> QED
    BY <1>stay, <2>1
<1>9. ASSUME NEW t \in TaskIds, RecoverTask(t) PROVE Promised
  <2>1. PICK s \in {"recovered", "failed_analysis"} : SetStatus(t, s)
    BY <1>9 DEF RecoverTask
  <2>2. /\ tasks[t].status = "running" /\ ~ProcessUp /\ ProcessUp' = ProcessUp
        /\ readding = NoTask /\ readding' \in {t, NoTask}
    BY <1>1, <1>9 DEF RecoverTask, LaunchInv, ToClose, ProcessUp, loopVars
  <2>3. Becomes(t, s)
    BY <1>1, <2>1, <2>2, SetStatusBecomes DEF Exists
  <2>4. Stage(tasks[t].status, ProcessUp) = "abandoned" /\ Stage(s, ProcessUp) = "over"
    BY <2>2 DEF Stage
  <2>5. Lifecycle!Moves(t, "abandoned", "over") /\ Phase(t) = "abandoned" /\ Phase(t)' = "over"
    BY <2>2, <2>3, <2>4, StageMoves
  <2> QED
    BY <2>2, <2>5, MovesAsPromised
<1>10. CASE Readd
  <2>1. /\ readding # NoTask /\ readding' = NoTask /\ ProcessUp' = ProcessUp
        /\ \E n \in TaskIds : CanAdd(n) /\ tasks' = Added(tasks, n, Copy(tasks[readding].job))
    BY <1>10 DEF Readd, ProcessUp, loopVars, NoEscape
  <2>2. PICK n \in TaskIds : CanAdd(n) /\ tasks' = Added(tasks, n, Copy(tasks[readding].job))
    BY <2>1
  <2>3. Becomes(n, "pending") /\ tasks[n].status = "none"
    BY <1>1, <2>2, AddedBecomes DEF CanAdd
  <2>4. Stage(tasks[n].status, ProcessUp) = "absent" /\ Stage("pending", ProcessUp) = "waiting"
    BY <2>3 DEF Stage
  <2>5. Lifecycle!Moves(n, "absent", "waiting") /\ Phase(n) = "absent" /\ Phase(n)' = "waiting"
    BY <2>1, <2>3, <2>4, StageMoves
  <2> QED
    BY <2>1, <2>5, MovesAsPromised
<1>11. CASE Walk
  <2>1. SameStatus /\ readding' = readding
    BY <1>11 DEF Walk, SameStatus
  <2>2. ProcessUp' = ProcessUp \/ InStatus("running") = {}
    BY <1>11 DEF Walk, HealthInv, Closing, ProcessUp
  <2> QED
    BY <1>stay, <2>1, <2>2
<1> QED
  BY <1>1, <1>2, <1>3, <1>4, <1>5, <1>6, <1>7, <1>8, <1>9, <1>10, <1>11, TaskShape

(* The threads, the loop and start-up implement TaskLifecycle: one analysis takes a       *)
(* task, it ends once, a crash at any point only abandons it, and start-up closes what    *)
(* was abandoned before it goes on, and submits it again at most once.      *)
THEOREM LifecycleIsImplemented ==
    ASSUME NoEscape, LeftAlone
    PROVE  Spec /\ []Listed => TasksLiveAsPromised
<1>1. HealthInv /\ Listed /\ [Next]_vars => HealthInv'
  BY HealthInvStep
<1>2. HealthInv /\ HealthInv' /\ Listed /\ [Next]_vars =>
        [Lifecycle!Next]_<<[t \in TaskIds |-> Phase(t)], readding>>
  BY LifecycleStep DEF Promised
<1>3. Init => Lifecycle!Init
  <2> SUFFICES ASSUME Init PROVE Lifecycle!Init
    OBVIOUS
  <2>1. \A t \in TaskIds : tasks[t].status = "none"
    BY DEF Init, DatabaseInit
  <2>2. \A t \in TaskIds : Phase(t) = "absent"
    BY <2>1 DEF Phase
  <2> QED
    BY <2>2 DEF Init, Lifecycle!Init
<1> QED
  BY <1>1, <1>2, <1>3, HealthInit, PTL DEF Spec, TasksLiveAsPromised, Lifecycle!Spec

-----------------------------------------------------------------------------
(* Installations in which the list is never empty: every machine comes back, and no    *)
(* more analyses are alive than there are machines.  The main thread asks for the list *)
(* only while one more may be started, so one machine at least is in nobody's hands.  *)
Roomy == Cardinality(Managers) <= Cardinality(Machines)

RoomInv == ReturnInv /\ (spc = "fetch" => Idle # {})

(* A machine for every manager, and one manager idle: not every machine is locked. *)
LEMMA RoomIsListed ==
    ASSUME Roomy, RoomInv
    PROVE  Listed
<1> SUFFICES ASSUME spc = "fetch", Machines \subseteq locked PROVE FALSE
  BY DEF Listed
<1>1. ProcessUp /\ ReturnInv /\ pc \in [Managers -> ManagerPC]
  BY DEF RoomInv, ProcessUp, ReturnInv, ArchInv, BaseInv, DataOK
<1>2. PICK v \in Managers : pc[v] = "idle"
  BY DEF RoomInv, Idle
<1>3. \A m \in Machines : \E w \in Managers \ {v} : pc[w] \in Owning /\ mach[w] = m
  BY <1>1, <1>2 DEF ReturnInv, MachineNotLeaked, Owning
<1> DEFINE Owner == [m \in Machines |-> CHOOSE w \in Managers \ {v} : pc[w] \in Owning /\ mach[w] = m]
<1>4. \A m \in Machines : Owner[m] \in Managers \ {v} /\ mach[Owner[m]] = m
  BY <1>3
<1>5. Owner \in [Machines -> Managers \ {v}]
  BY <1>4
<1>6. /\ IsFiniteSet(Machines) /\ IsFiniteSet(Managers \ {v})
      /\ Cardinality(Managers \ {v}) = Cardinality(Managers) - 1
      /\ Cardinality(Managers) \in Nat /\ Cardinality(Machines) \in Nat
  BY <1>2, SchedulerAssumption, FS_RemoveElement, FS_CardinalityType
<1>7. Cardinality(Managers \ {v}) < Cardinality(Machines)
  BY <1>6 DEF Roomy
<1> HIDE DEF Owner
<1>8. PICK m, n \in Machines : m # n /\ Owner[m] = Owner[n]
  BY <1>5, <1>6, <1>7, FS_PigeonHole
<1> QED
  BY <1>4, <1>8

(* Every step keeps RoomInv. *)
LEMMA RoomStep ==
    ASSUME MachinesReturn, RoomInv, [Next]_vars
    PROVE  RoomInv'
<1>1. ReturnInv' /\ BaseInv /\ DataOK
  BY ReturnStep DEF RoomInv, ReturnInv, ArchInv, BaseInv
<1> SUFFICES ASSUME spc' = "fetch" PROVE Idle' # {}
  BY <1>1 DEF RoomInv
<1>2. CASE Availables
  <2>1. Idle # {} /\ pc' = pc
    BY <1>2 DEF Availables, mgrVars
  <2> QED
    BY <2>1 DEF Idle
<1>3. ASSUME NEW w \in Managers, Manager(w) PROVE Idle' # {}
  <2>1. Move(w) /\ spc' = spc
    BY <1>1, <1>3, ManagerMoves DEF Move
  <2>2. \A v \in Managers : pc[v] = "idle" => pc'[v] = "idle"
    BY <1>1, <2>1 DEF Move, DataOK
  <2> QED
    BY <2>1, <2>2 DEF RoomInv, Idle
<1>4. CASE spc' = spc /\ pc' = pc
  BY <1>4 DEF RoomInv, Idle
<1> USE DEF dbVars, loopVars, mgrVars
<1>5. CASE UNCHANGED vars \/ OtherProcess
  BY <1>4, <1>5 DEF vars, OtherProcess
<1>6. CASE StartUp
  BY <1>6 DEF StartUp, InitTasks, RecoverTask, Readd, Initialize
<1>7. CASE Signals
  BY <1>4, <1>7 DEF Signals, SetStopAnalyzing, KeyboardInterrupt, Crash, ProcessMemoryLost
<1>8. CASE MainThread /\ ~Availables
  BY <1>8 DEF MainThread, Probe, Limits, GetAvailableMachines, FetchSelect, FetchMark, Spawn,
              NothingToSpawn, DealWithErrors, LoopExit, ProcessMemoryLost
<1> QED
  BY <1>2, <1>3, <1>5, <1>6, <1>7, <1>8 DEF Next

(* availables() has found a machine, and get_available_machines, which asks later, still *)
(* finds one, whatever the managers have locked in between.                 *)
THEOREM ListIsNeverEmpty ==
    ASSUME MachinesReturn, Roomy
    PROVE  Spec => []Listed
<1>1. Init => RoomInv
  BY ReturnInit DEF Init, RoomInv
<1>2. RoomInv /\ [Next]_vars => RoomInv'
  BY RoomStep
<1>3. RoomInv => Listed
  BY RoomIsListed
<1> QED
  BY <1>1, <1>2, <1>3, PTL DEF Spec

=============================================================================
