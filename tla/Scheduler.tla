------------------------------ MODULE Scheduler ------------------------------
(***************************************************************************)
(* The process cuckoo.py: the loop of Scheduler.start, one AnalysisManager  *)
(* thread per launched task (lib/cuckoo/core/scheduler.py), the semaphore   *)
(* machine_lock they share, the machinery that starts and stops the virtual *)
(* machines, and what start-up does after the process has died.             *)
(*                                                                          *)
(* A step of a thread is the code between two accesses to what it shares    *)
(* with the others: the database, machine_lock, a virtual machine, the      *)
(* ResultServer or the analysis folder.                                     *)
(*                                                                          *)
(* Abstracted: what happens in the guest (GuestManager and the agent), in   *)
(* the rooter and in the auxiliary modules is one step whose outcome is     *)
(* chosen among those the caller tells apart.  Faults names the failures    *)
(* of the environment that may happen; each one is an outcome the code has  *)
(* a branch for, or an exception it lets through.                           *)
(***************************************************************************)
EXTENDS TaskDatabase

CONSTANTS
    Managers,      \* bound: slots for AnalysisManager threads alive at once
    MaxVMStartup,  \* max_vmstartup_count, the permits of machine_lock
    MaxMachines,   \* max_machines_count, 0 for no limit
    MaxCount,      \* max_analysis_count, 0 for no limit
    Reschedule,    \* the option reschedule of cuckoo.conf
    Faults         \* the failures that may happen

FaultKinds ==
    {"disk",      \* no space left, or the analysis folder cannot be created
     "file",      \* the target differs from the sample that was submitted
     "target",    \* the target has vanished: reading it raises
     "add_task",  \* ResultServer().add_task raises
     "start",     \* machinery.start raises CuckooMachineError
     "network",   \* route_network raises CuckooNetworkError
     "rooter",    \* a rooter command fails: CuckooCriticalError
     "http",      \* the agent answers with an error: requests' HTTPError
     "stop"}      \* machinery.stop raises and the machine keeps running

ASSUME SchedulerAssumption ==
    /\ MaxVMStartup \in Nat \ {0}
    /\ MaxMachines \in Nat
    /\ MaxCount \in Nat
    /\ Reschedule \in BOOLEAN
    /\ Faults \subseteq FaultKinds
    /\ IsFiniteSet(Machines) /\ IsFiniteSet(Managers)

VARIABLES
    vm,          \* vm[m]: the task whose manager booted m; NoTask: powered off
    rs,          \* ResultServer: the task registered for the address of m
    permits,     \* what is left of the semaphore machine_lock
    active,      \* active_analysis_count
    total,       \* total_analysis_count, counted up to MaxCount
    running,     \* Scheduler.running
    errors,      \* the queue errors is not empty
    spc,         \* where the main thread is
    stask,       \* its local variable task, which outlives an iteration
    smach,       \* the machine column of stask as fetch has returned it
    avail,       \* the machines of this iteration fetch is still to be called for
    recovering,  \* init_tasks: the tasks of its list still to be dealt with
    readding,    \* init_tasks: reschedule has marked this task recovered
    pc,          \* pc[w]: where the manager thread w is
    job,         \* job[w]: the id of its task
    mach,        \* mach[w]: the machine its task object names
    outcome,     \* outcome[w]: how the try block of launch_analysis was left
    glog         \* glog[w]: the local guest_log is bound

hostVars == <<vm, rs>>
procVars == <<permits, active, total, running, errors>>
loopVars == <<spc, stask, smach, avail>>
bootVars == <<recovering, readding>>
mgrVars  == <<pc, job, mach, outcome, glog>>

vars == <<dbVars, hostVars, procVars, loopVars, bootVars, mgrVars>>

SchedulerPC == {"probe", "limits", "avail", "fetch", "select", "mark", "spawn",
                "errors", "down", "recover"}

ManagerPC == {"idle", "count", "storage", "category", "acquire", "lock",
              "options", "register", "gstart", "boot", "route", "guest", "halt",
              "gstop", "forget", "dead", "release", "complete", "escape"}

Outcome == {"none", "return", "noboot", "dead", "escape"}

TypeOK ==
    /\ DatabaseTypeOK
    /\ vm \in [Machines -> TaskIds \cup {NoTask}]
    /\ rs \in [Machines -> TaskIds \cup {NoTask}]
    /\ permits \in 0..MaxVMStartup
    /\ active \in Nat
    /\ total \in 0..MaxCount
    /\ running \in BOOLEAN
    /\ errors \in BOOLEAN
    /\ spc \in SchedulerPC
    /\ stask \in TaskIds \cup {NoTask}
    /\ smach \in Machines \cup {NoMachine}
    /\ avail \in SUBSET Machines
    /\ recovering \in SUBSET TaskIds
    /\ readding \in TaskIds \cup {NoTask}
    /\ pc \in [Managers -> ManagerPC]
    /\ job \in [Managers -> TaskIds \cup {NoTask}]
    /\ mach \in [Managers -> Machines \cup {NoMachine}]
    /\ outcome \in [Managers -> Outcome]
    /\ glog \in [Managers -> BOOLEAN]

Idle == {w \in Managers : pc[w] = "idle"}

ProcessUp == spc \notin {"down", "recover"}

-----------------------------------------------------------------------------
(* The process ends: its threads (the managers are daemon threads), the      *)
(* semaphore, the queue and the ResultServer are gone; the database, the     *)
(* folders and the virtual machines stay as they are.                       *)

ProcessMemoryLost ==
    /\ spc' = "down"
    /\ stask' = NoTask
    /\ smach' = NoMachine
    /\ avail' = {}
    /\ recovering' = {}
    /\ readding' = NoTask
    /\ permits' = MaxVMStartup
    /\ active' = 0
    /\ total' = 0
    /\ errors' = FALSE
    /\ rs' = [m \in Machines |-> NoTask]
    /\ pc' = [w \in Managers |-> "idle"]
    /\ job' = [w \in Managers |-> NoTask]
    /\ mach' = [w \in Managers |-> NoMachine]
    /\ outcome' = [w \in Managers |-> "none"]
    /\ glog' = [w \in Managers |-> FALSE]

(* machinery.shutdown stops the machines that are locked in the database, one  *)
(* after the other.  One whose stop fails, or that a manager starts meanwhile,  *)
(* stays on.                                                                 *)
MachineryShutdown ==
    \E stopped \in SUBSET locked :
       vm' = [m \in Machines |-> IF m \in stopped THEN NoTask ELSE vm[m]]

Init ==
    /\ DatabaseInit
    /\ vm = [m \in Machines |-> NoTask]
    /\ rs = [m \in Machines |-> NoTask]
    /\ permits = MaxVMStartup
    /\ active = 0
    /\ total = 0
    /\ running = TRUE
    /\ errors = FALSE
    /\ spc = "probe"
    /\ stask = NoTask
    /\ smach = NoMachine
    /\ avail = {}
    /\ recovering = {}
    /\ readding = NoTask
    /\ pc = [w \in Managers |-> "idle"]
    /\ job = [w \in Managers |-> NoTask]
    /\ mach = [w \in Managers |-> NoMachine]
    /\ outcome = [w \in Managers |-> "none"]
    /\ glog = [w \in Managers |-> FALSE]

-----------------------------------------------------------------------------
(* The loop of Scheduler.start. *)

(* machine_lock.acquire(False) and release: go on only when a permit is free. *)
Probe ==
    /\ spc = "probe"
    /\ running
    /\ spc' = IF permits > 0 THEN "limits" ELSE "probe"
    /\ UNCHANGED <<dbVars, hostVars, procVars, stask, smach, avail, bootVars, mgrVars>>

(* Free space, and max_machines_count against the locked machines. *)
TooManyMachines == MaxMachines > 0 /\ Cardinality(locked) >= MaxMachines

Limits ==
    /\ spc = "limits"
    /\ \/ ~TooManyMachines /\ spc' = "avail"
       \/ (TooManyMachines \/ "disk" \in Faults) /\ spc' = "probe"
    /\ UNCHANGED <<dbVars, hostVars, procVars, stask, smach, avail, bootVars, mgrVars>>

(* availables(), then max_analysis_count.  With every slot of Managers taken *)
(* the iteration fetches nothing: that is the bound on threads.             *)
CountReached == MaxCount > 0 /\ total >= MaxCount

Availables ==
    /\ spc = "avail"
    /\ \/ /\ locked = Machines
          /\ spc' = "probe"
          /\ UNCHANGED <<running, vm>>
       \/ /\ locked # Machines
          /\ CountReached
          /\ spc' = "errors"
          /\ IF active = 0 THEN running' = FALSE /\ MachineryShutdown
                           ELSE UNCHANGED <<running, vm>>
       \/ /\ locked # Machines
          /\ ~CountReached
          /\ spc' = IF Idle = {} THEN "errors" ELSE "fetch"
          /\ UNCHANGED <<running, vm>>
    /\ UNCHANGED <<dbVars, rs, permits, active, total, errors, stask, smach,
                   avail, bootVars, mgrVars>>

(* get_available_machines: another query, later than availables().  When it  *)
(* returns no machine the loop body never runs and task keeps its value.    *)
GetAvailableMachines ==
    /\ spc = "fetch"
    /\ avail' = Machines \ locked
    /\ spc' = IF Machines \subseteq locked THEN "spawn" ELSE "select"
    /\ UNCHANGED <<dbVars, hostVars, procVars, stask, smach, bootVars, mgrVars>>

(* Mutant: task keeps its value when fetch returns None. *)
FetchNoneKeeps == UNCHANGED <<stask, smach>>

(* task = None. *)
FetchNone == stask' = NoTask /\ smach' = NoMachine

(* for machine in ...: task = fetch(machine).  The SELECT of fetch. *)
FetchSelect(m) ==
    /\ spc = "select"
    /\ m \in avail
    /\ avail' = avail \ {m}
    /\ \/ \E t \in TaskIds : /\ FetchedBy(m, t)
                             /\ stask' = t
                             /\ smach' = m
                             /\ spc' = "mark"
       \/ /\ \A t \in TaskIds : ~FetchedBy(m, t)
          /\ FetchNone
          /\ spc' = IF avail = {m} THEN "spawn" ELSE "select"
    /\ UNCHANGED <<dbVars, hostVars, procVars, bootVars, mgrVars>>

(* ... and its set_status and set_task_vm.  They do not look at the status    *)
(* again; when the row is gone, refresh raises and fetch returns None.      *)
FetchMark ==
    /\ spc = "mark"
    /\ \/ /\ Exists(stask)
          /\ tasks' = [tasks EXCEPT ![stask].status = "running",
                                    ![stask].job.machine = smach]
          /\ avail' = {}
          /\ spc' = "spawn"
          /\ UNCHANGED <<stask, smach>>
       \/ /\ ~Exists(stask)
          /\ FetchNone
          /\ spc' = IF avail = {} THEN "spawn" ELSE "select"
          /\ UNCHANGED <<tasks, avail>>
    /\ UNCHANGED <<guests, locked, storage, hostVars, procVars, bootVars, mgrVars>>

(* if task: start a manager thread for it. *)
Spawn(w) ==
    /\ spc = "spawn"
    /\ stask # NoTask
    /\ pc[w] = "idle"
    /\ total' = IF total < MaxCount THEN total + 1 ELSE total
    /\ pc' = [pc EXCEPT ![w] = "count"]
    /\ job' = [job EXCEPT ![w] = stask]
    /\ mach' = [mach EXCEPT ![w] = smach]
    /\ spc' = "errors"
    /\ UNCHANGED <<dbVars, hostVars, permits, active, running, errors, stask,
                   smach, avail, bootVars, outcome, glog>>

NothingToSpawn ==
    /\ spc = "spawn"
    /\ stask = NoTask
    /\ spc' = "errors"
    /\ UNCHANGED <<dbVars, hostVars, procVars, stask, smach, avail, bootVars, mgrVars>>

(* raise errors.get(block=False): nothing catches it, the process ends. *)
DealWithErrors ==
    /\ spc = "errors"
    /\ IF errors
       THEN ProcessMemoryLost /\ running' = TRUE /\ UNCHANGED <<dbVars, vm>>
       ELSE /\ spc' = "probe"
            /\ UNCHANGED <<dbVars, hostVars, procVars, stask, smach, avail,
                           bootVars, mgrVars>>

(* while self.running is over: start returns, cuckoo.py ends. *)
LoopExit ==
    /\ spc = "probe"
    /\ ~running
    /\ ProcessMemoryLost
    /\ UNCHANGED <<dbVars, vm, running>>

(* The handler of SIGHUP. *)
SetStopAnalyzing ==
    /\ "sighup" \in Env
    /\ ProcessUp
    /\ running' = FALSE
    /\ UNCHANGED <<dbVars, hostVars, permits, active, total, errors, loopVars,
                   bootVars, mgrVars>>

(* Ctrl-C: stop(), which shuts the locked machines down, and the process ends.   *)
(* One step: what managers do in between is among what they may do before it.    *)
KeyboardInterrupt ==
    /\ "interrupt" \in Env
    /\ ProcessUp
    /\ ProcessMemoryLost
    /\ running' = TRUE
    /\ MachineryShutdown
    /\ UNCHANGED dbVars

(* The process is killed, at any point. *)
Crash ==
    /\ "crash" \in Env
    /\ spc # "down"
    /\ ProcessMemoryLost
    /\ running' = TRUE
    /\ UNCHANGED <<dbVars, vm>>

-----------------------------------------------------------------------------
(* Start-up: init_tasks, then Scheduler.initialize. *)

(* Mutant: the list is of the pending tasks. *)
ToRecoverPending == InStatus("pending")

ToRecover == InStatus("running")

InitTasks ==
    /\ spc = "down"
    /\ spc' = "recover"
    /\ running' = TRUE
    /\ recovering' = ToRecover
    /\ UNCHANGED <<dbVars, hostVars, permits, active, total, errors, stask,
                   smach, avail, readding, mgrVars>>

(* One task of init_tasks' list: failed, or the first half of reschedule. *)
RecoverTask(t) ==
    /\ spc = "recover"
    /\ readding = NoTask
    /\ t \in recovering
    /\ recovering' = recovering \ {t}
    /\ SetStatus(t, IF Reschedule THEN "recovered" ELSE "failed_analysis")
    /\ readding' = IF Reschedule /\ Exists(t) THEN t ELSE NoTask
    /\ UNCHANGED <<guests, locked, storage, hostVars, procVars, loopVars, mgrVars>>

(* The second half of reschedule: add the task again.  When the file of the  *)
(* sample is gone there is nothing to add.                                  *)
Readd ==
    /\ spc = "recover"
    /\ readding # NoTask
    /\ readding' = NoTask
    /\ \/ \E n \in TaskIds : /\ CanAdd(n)
                             /\ tasks' = Added(tasks, n, Copy(tasks[readding].job))
       \/ "target" \in Faults /\ tasks[readding].job.category # "url"
          /\ UNCHANGED tasks
    /\ UNCHANGED <<guests, locked, storage, hostVars, procVars, loopVars,
                   recovering, mgrVars>>

(* machinery._initialize writes the table machines anew, all unlocked;       *)
(* _initialize_check stops what still runs, or start-up is given up.        *)
Initialize ==
    /\ spc = "recover"
    /\ recovering = {}
    /\ readding = NoTask
    /\ locked' = {}
    /\ \/ /\ vm' = [m \in Machines |-> NoTask]
          /\ spc' = "probe"
       \/ /\ "stop" \in Faults
          /\ \E m \in Machines : vm[m] # NoTask
          /\ spc' = "down"
          /\ UNCHANGED vm
    /\ UNCHANGED <<tasks, guests, storage, rs, procVars, stask, smach, avail,
                   bootVars, mgrVars>>

-----------------------------------------------------------------------------
(* AnalysisManager.  fetch holds the class lock from its SELECT to its        *)
(* UPDATE, so no manager enters the database in between.                    *)

DatabaseFree == spc # "mark"

Goto(w, l) == pc' = [pc EXCEPT ![w] = l]

(* run: active_analysis_count += 1. *)
CountUp(w) ==
    /\ pc[w] = "count"
    /\ active' = active + 1
    /\ Goto(w, "storage")
    /\ UNCHANGED <<dbVars, hostVars, permits, total, running, errors, loopVars,
                   bootVars, job, mach, outcome, glog>>

(* Mutant: the folder is created whether it exists or not. *)
InitStorageAnyway(w) ==
    /\ pc[w] = "storage"
    /\ storage' = storage \cup {job[w]}
    /\ Goto(w, "category")
    /\ UNCHANGED <<tasks, guests, locked, hostVars, procVars, loopVars, bootVars,
                   job, mach, outcome, glog>>

(* init_storage: False when the folder exists or cannot be created. *)
InitStorage(w) ==
    /\ pc[w] = "storage"
    /\ \/ /\ job[w] \notin storage
          /\ storage' = storage \cup {job[w]}
          /\ Goto(w, "category")
       \/ /\ job[w] \in storage \/ "disk" \in Faults
          /\ UNCHANGED storage
          /\ Goto(w, "complete")
    /\ UNCHANGED <<tasks, guests, locked, hostVars, procVars, loopVars, bootVars,
                   job, mach, outcome, glog>>

(* category_checks: False (the target was modified) and True (pcap, static)   *)
(* end launch_analysis; hashing a target that is gone raises.               *)
CategoryChecks(w) ==
    /\ pc[w] = "category"
    /\ DatabaseFree
    /\ LET category == tasks[job[w]].job.category IN
       \/ category # "static" /\ Goto(w, "acquire")
       \/ category = "static" /\ Goto(w, "complete")
       \/ category # "url" /\ "file" \in Faults /\ Goto(w, "complete")
       \/ category # "url" /\ "target" \in Faults /\ Goto(w, "escape")
    /\ UNCHANGED <<dbVars, hostVars, procVars, loopVars, bootVars, job, mach,
                   outcome, glog>>

(* acquire_machine, machine_lock.acquire(). *)
AcquireLock(w) ==
    /\ pc[w] = "acquire"
    /\ permits > 0
    /\ permits' = permits - 1
    /\ Goto(w, "lock")
    /\ UNCHANGED <<dbVars, hostVars, active, total, running, errors, loopVars,
                   bootVars, job, mach, outcome, glog>>

(* Mutant: the permit is not released before the next attempt. *)
LockAgainKeeping(w) == UNCHANGED permits /\ Goto(w, "acquire")

LockAgain(w) == permits' = permits + 1 /\ Goto(w, "acquire")

(* acquire_machine, availables() and machinery.acquire: the task object names *)
(* the machine fetch was called for, so it is that one or another attempt.  *)
(* set_task_vm follows.                                                     *)
AcquireMachine(w) ==
    /\ pc[w] = "lock"
    /\ DatabaseFree
    /\ \/ /\ LockMachine(mach[w])
          /\ tasks' = IF Exists(job[w])
                      THEN [tasks EXCEPT ![job[w]].job.machine = mach[w]] ELSE tasks
          /\ Goto(w, "options")
          /\ UNCHANGED permits
       \/ /\ mach[w] \in locked
          /\ LockAgain(w)
          /\ UNCHANGED <<locked, tasks>>
    /\ UNCHANGED <<guests, storage, hostVars, active, total, running, errors,
                   loopVars, bootVars, job, mach, outcome, glog>>

(* build_options reads the target, outside of the try block: when that raises *)
(* neither the permit nor the machine is given back.                        *)
BuildOptions(w) ==
    /\ pc[w] = "options"
    /\ \/ Goto(w, "register")
       \/ tasks[job[w]].job.category = "file" /\ "target" \in Faults /\ Goto(w, "escape")
    /\ UNCHANGED <<dbVars, hostVars, procVars, loopVars, bootVars, job, mach,
                   outcome, glog>>

(* ResultServer().add_task; when it raises, the machine is released and the   *)
(* launch goes on.                                                          *)
AddTask(w) ==
    /\ pc[w] = "register"
    /\ \/ /\ rs' = [rs EXCEPT ![mach[w]] = job[w]]
          /\ UNCHANGED <<locked, errors>>
       \/ /\ "add_task" \in Faults
          /\ DatabaseFree
          /\ UnlockMachine(mach[w])
          /\ errors' = TRUE
          /\ UNCHANGED rs
    /\ Goto(w, "gstart")
    /\ UNCHANGED <<tasks, guests, storage, vm, permits, active, total, running,
                   loopVars, bootVars, job, mach, outcome, glog>>

(* The try block is left for the finally block, by o. *)
Leave(w, o) ==
    /\ outcome' = [outcome EXCEPT ![w] = o]
    /\ Goto(w, "halt")

(* guest_start: on a deleted task an AttributeError, which no except clause    *)
(* matches; guest_log stays unbound and the permit is kept.                 *)
GuestStart(w) ==
    /\ pc[w] = "gstart"
    /\ DatabaseFree
    /\ \/ /\ Exists(job[w])
          /\ guests' = guests \cup {job[w]}
          /\ glog' = [glog EXCEPT ![w] = TRUE]
          /\ Goto(w, "boot")
          /\ UNCHANGED outcome
       \/ /\ ~Exists(job[w])
          /\ Leave(w, "escape")
          /\ UNCHANGED <<guests, glog>>
    /\ UNCHANGED <<tasks, locked, storage, hostVars, procVars, loopVars, bootVars,
                   job, mach>>

(* Mutant: CuckooMachineError does not give the permit back. *)
MachineryStartKeeps(w) ==
    /\ pc[w] = "boot"
    /\ \/ /\ vm[mach[w]] = NoTask
          /\ vm' = [vm EXCEPT ![mach[w]] = job[w]]
          /\ Goto(w, "route")
          /\ UNCHANGED outcome
       \/ Leave(w, "noboot") /\ UNCHANGED vm
    /\ UNCHANGED <<dbVars, rs, permits, active, total, running, errors, loopVars, bootVars,
                   job, mach, glog>>

(* machinery.start: it refuses a machine that is not powered off; an attempt   *)
(* that fails may leave it running.  CuckooMachineError gives the permit    *)
(* back and marks the machine dead.                                         *)
MachineryStart(w) ==
    /\ pc[w] = "boot"
    /\ \/ /\ vm[mach[w]] = NoTask
          /\ vm' = [vm EXCEPT ![mach[w]] = job[w]]
          /\ Goto(w, "route")
          /\ UNCHANGED <<permits, outcome>>
       \/ /\ vm[mach[w]] # NoTask
          /\ permits' = permits + 1
          /\ Leave(w, "noboot")
          /\ UNCHANGED vm
       \/ /\ vm[mach[w]] = NoTask
          /\ "start" \in Faults
          /\ \E v \in {NoTask, job[w]} : vm' = [vm EXCEPT ![mach[w]] = v]
          /\ permits' = permits + 1
          /\ Leave(w, "noboot")
    /\ UNCHANGED <<dbVars, rs, active, total, running, errors, loopVars, bootVars,
                   job, mach, glog>>

(* route_network and machine_lock.release().  A rooter error is none of the   *)
(* exceptions launch_analysis expects: the permit is kept.                  *)
RouteNetwork(w) ==
    /\ pc[w] = "route"
    /\ \/ /\ permits' = permits + 1
          /\ Goto(w, "guest")
          /\ UNCHANGED outcome
       \/ /\ "network" \in Faults
          /\ permits' = permits + 1
          /\ Leave(w, "dead")
       \/ /\ "rooter" \in Faults
          /\ Leave(w, "escape")
          /\ UNCHANGED permits
    /\ UNCHANGED <<dbVars, hostVars, active, total, running, errors, loopVars,
                   bootVars, job, mach, glog>>

(* Mutant: the except clause gives the permit back without asking unlocked. *)
GuestAnalysisReleases(w) ==
    /\ pc[w] = "guest"
    /\ Leave(w, "return")
    /\ permits' = permits + 1
    /\ UNCHANGED <<dbVars, hostVars, active, total, running, errors, loopVars,
                   bootVars, job, mach, glog>>

(* aux.start, GuestManager.start_analysis and wait_for_completion; a           *)
(* CuckooGuestError is logged and ends like a success.                      *)
GuestAnalysis(w) ==
    /\ pc[w] = "guest"
    /\ \/ Leave(w, "return")
       \/ "http" \in Faults /\ Leave(w, "escape")
    /\ UNCHANGED <<dbVars, hostVars, procVars, loopVars, bootVars, job, mach, glog>>

(* machinery.stop; an error is logged. *)
MachineryStop(w) ==
    /\ pc[w] = "halt"
    /\ \/ vm' = [vm EXCEPT ![mach[w]] = NoTask]
       \/ "stop" \in Faults /\ UNCHANGED vm
    /\ Goto(w, "gstop")
    /\ UNCHANGED <<dbVars, rs, procVars, loopVars, bootVars, job, mach, outcome, glog>>

(* guest_stop(guest_log): without the variable or the row it raises, and the  *)
(* rest of the finally block is skipped.                                    *)
GuestStop(w) ==
    /\ pc[w] = "gstop"
    /\ DatabaseFree
    /\ Goto(w, IF glog[w] /\ job[w] \in guests THEN "forget" ELSE "escape")
    /\ UNCHANGED <<dbVars, hostVars, procVars, loopVars, bootVars, job, mach,
                   outcome, glog>>

(* Mutant: the ResultServer forgets every address. *)
ForgetAll(m) == rs' = [x \in Machines |-> NoTask]

(* ResultServer.del_task pops the address of the machine. *)
Forget(m) == rs' = [rs EXCEPT ![m] = NoTask]

(* unroute_network issues commands once route_network has been reached; each *)
(* may fail.                                                                *)
UnrouteFails(w) == outcome[w] # "noboot" /\ "rooter" \in Faults

(* ResultServer().del_task, then unroute_network. *)
DelTask(w) ==
    /\ pc[w] = "forget"
    /\ Forget(mach[w])
    /\ \/ Goto(w, IF outcome[w] \in {"noboot", "dead"} THEN "dead" ELSE "release")
       \/ UnrouteFails(w) /\ Goto(w, "escape")
    /\ UNCHANGED <<dbVars, vm, procVars, loopVars, bootVars, job, mach, outcome, glog>>

(* guest_remove, rmtree and CuckooDeadMachine: run launches the analysis      *)
(* again; the machine stays locked.  rmtree raises when there is no folder. *)
DeadMachine(w) ==
    /\ pc[w] = "dead"
    /\ DatabaseFree
    /\ guests' = guests \ {job[w]}
    /\ storage' = storage \ {job[w]}
    /\ Goto(w, IF job[w] \in storage THEN "storage" ELSE "escape")
    /\ outcome' = [outcome EXCEPT ![w] = "none"]
    /\ glog' = [glog EXCEPT ![w] = FALSE]
    /\ UNCHANGED <<tasks, locked, hostVars, procVars, loopVars, bootVars, job, mach>>

(* machinery.release; what left the try block goes on upwards. *)
MachineryRelease(w) ==
    /\ pc[w] = "release"
    /\ DatabaseFree
    /\ UnlockMachine(mach[w])
    /\ Goto(w, IF outcome[w] = "return" THEN "complete" ELSE "escape")
    /\ UNCHANGED <<tasks, guests, storage, hostVars, procVars, loopVars, bootVars,
                   job, mach, outcome, glog>>

(* active_analysis_count -= 1 and the thread ends. *)
ThreadEnds(w) ==
    /\ active' = active - 1
    /\ Goto(w, "idle")
    /\ job' = [job EXCEPT ![w] = NoTask]
    /\ mach' = [mach EXCEPT ![w] = NoMachine]
    /\ outcome' = [outcome EXCEPT ![w] = "none"]
    /\ glog' = [glog EXCEPT ![w] = FALSE]
    /\ UNCHANGED <<guests, locked, storage, hostVars, permits, total, running,
                   errors, loopVars, bootVars>>

(* run: launch_analysis has returned, True or False: TASK_COMPLETED. *)
Complete(w) ==
    /\ pc[w] = "complete"
    /\ DatabaseFree
    /\ SetStatus(job[w], "completed")
    /\ ThreadEnds(w)

(* run: except Exception; the status is left as it is. *)
Escape(w) ==
    /\ pc[w] = "escape"
    /\ UNCHANGED tasks
    /\ ThreadEnds(w)

-----------------------------------------------------------------------------
OtherProcess ==
    OtherProcesses /\ UNCHANGED <<hostVars, procVars, loopVars, bootVars, mgrVars>>

MainThread ==
    \/ Probe \/ Limits \/ Availables \/ GetAvailableMachines
    \/ \E m \in Machines : FetchSelect(m)
    \/ FetchMark
    \/ \E w \in Managers : Spawn(w)
    \/ NothingToSpawn \/ DealWithErrors \/ LoopExit

StartUp ==
    \/ InitTasks
    \/ \E t \in TaskIds : RecoverTask(t)
    \/ Readd \/ Initialize

Manager(w) ==
    \/ CountUp(w) \/ InitStorage(w) \/ CategoryChecks(w) \/ AcquireLock(w)
    \/ AcquireMachine(w) \/ BuildOptions(w) \/ AddTask(w) \/ GuestStart(w)
    \/ MachineryStart(w) \/ RouteNetwork(w) \/ GuestAnalysis(w)
    \/ MachineryStop(w) \/ GuestStop(w) \/ DelTask(w) \/ DeadMachine(w)
    \/ MachineryRelease(w) \/ Complete(w) \/ Escape(w)

Signals == SetStopAnalyzing \/ KeyboardInterrupt \/ Crash

Next == MainThread \/ StartUp \/ (\E w \in Managers : Manager(w))
        \/ Signals \/ OtherProcess

Spec == Init /\ [][Next]_vars

(* Every thread that can go on goes on.  A waiter of machine_lock is not      *)
(* overtaken for ever: the semaphore serves its waiters in order, and who    *)
(* gives a permit back in a retry loop sleeps before it asks again.         *)
Fairness ==
    /\ WF_vars(MainThread)
    /\ WF_vars(StartUp)
    /\ \A w \in Managers : WF_vars(Manager(w)) /\ SF_vars(AcquireLock(w))

FairSpec == Spec /\ Fairness

-----------------------------------------------------------------------------
(* Properties. *)

Live(w) == pc[w] # "idle"

(* From lock_machine to unlock_machine, or to the death of the machine. *)
Owning == {"options", "register", "gstart", "boot", "route", "guest", "halt",
           "gstop", "forget", "dead", "release"}

(* From machine_lock.acquire() to the release in launch_analysis. *)
Holding == {"lock", "options", "register", "gstart", "boot", "route"}

(* From init_storage to the end of launch_analysis. *)
Writing == Owning \cup {"category", "acquire", "lock"}

Holders == {w \in Managers : pc[w] \in Holding}

(* The scheduler never has two analyses pick the same machine: no machine is  *)
(* in the hands of two managers (acquire_machine, lock_machine), whatever    *)
(* fails and whatever the web does, as long as add_task does not raise.     *)
MachineExclusive ==
    \A v, w \in Managers :
       v # w /\ pc[v] \in Owning /\ pc[w] \in Owning => mach[v] # mach[w]

(* While an analysis runs in the guest, the machine is the one its own        *)
(* manager has booted: nobody has stopped or restarted it meanwhile.        *)
FreshGuest == \A w \in Managers : pc[w] = "guest" => vm[mach[w]] = job[w]

(* What the guest uploads while the analysis runs goes to the folder of its   *)
(* own task: from add_task to del_task the ResultServer has that task.      *)
ResultsAttributed ==
    \A w \in Managers :
       pc[w] \in Owning \ {"options", "register", "dead", "release"} => rs[mach[w]] = job[w]

(* No path through launch_analysis releases machine_lock twice: with the      *)
(* managers that hold a permit, no more than max_vmstartup_count are out.   *)
StartupBounded == permits + Cardinality(Holders) <= MaxVMStartup

(* init_storage: no two launches of a task write into its folder, though the  *)
(* main loop may launch a task a second time with a stale variable task.    *)
ResultsNotMixed ==
    \A v, w \in Managers :
       v # w /\ pc[v] \in Writing /\ pc[w] \in Writing => job[v] # job[w]

(* A 32-bit machine never gets a task that is tagged x64 alone, however the   *)
(* task came to the manager: by fetch, by a stale task or rescheduled.      *)
ArchServed ==
    \A w \in Managers :
       Live(w) /\ Arch[mach[w]] = "x86" => "x86" \in tasks[job[w]].job.tags

(* What keeps the above going from step to step.  A task that is handed on    *)
(* names a machine; no manager is alive while the process is not;            *)
(* active_analysis_count counts the managers that have begun; who owns a      *)
(* machine has it locked in the database; the machine is on from start to    *)
(* stop.                                                                    *)
Handed ==
    /\ stask # NoTask => smach \in Machines
    /\ spc = "mark" => stask # NoTask
    /\ \A w \in Managers : Live(w) => job[w] \in TaskIds /\ mach[w] \in Machines

DownMeansIdle == ~ProcessUp => \A w \in Managers : pc[w] = "idle"

Begun == {w \in Managers : pc[w] \notin {"idle", "count"}}

Counted == active = Cardinality(Begun)

OwnersLocked == \A w \in Managers : pc[w] \in Owning => mach[w] \in locked

BootedOn ==
    \A w \in Managers : pc[w] \in {"route", "guest"} => vm[mach[w]] = job[w]

CoreInv == Handed /\ DownMeansIdle /\ Counted /\ OwnersLocked /\ BootedOn

(* A machine that is locked is in the hands of a manager: none is lost to an    *)
(* analysis that fails in the guest, to an agent that answers with an error (an  *)
(* exception that no clause of launch_analysis expects, past which the finally   *)
(* block still releases it), to the competition for a machine, or to a launch    *)
(* that category_checks ends.  launch_analysis does lose                         *)
(* the machine where build_options raises (scheduler.py 314), where guest_start  *)
(* or guest_stop find no row (329, 394), where unroute_network raises (401), and *)
(* where it is declared dead (403-416): this is about failures other than these. *)
MachineNotLeaked ==
    ProcessUp => \A m \in locked : \E w \in Managers : pc[w] \in Owning /\ mach[w] = m

(* A permit of machine_lock is free or with a manager that will give it back:   *)
(* after a machine that is taken (197), one that does not start and a network   *)
(* error (356-358), a success (338), an analysis retried after its machine died,  *)
(* and in the next process after a crash; with add_task raising and after an      *)
(* agent's error too (theorem LockIsReturned).  Excepted are the exits that no   *)
(* clause of launch_analysis expects before line 338, which do keep the permit:  *)
(* build_options raises (314), guest_start finds no row (329), and the rooter    *)
(* fails in route_network (334).                                              *)
LockReturned == permits + Cardinality(Holders) = MaxVMStartup

Attended(t) == (\E w \in Managers : Live(w) /\ job[w] = t) \/ (spc = "spawn" /\ stask = t)

(* A task in status running is being worked on, whatever happened to the      *)
(* process before: init_tasks leaves none behind.                           *)
RunningIsAttended == ProcessUp => \A t \in InStatus("running") : Attended(t)

(* A task process.py may pick up, or has, is one no manager works on. *)
CompletedMeansDone ==
    \A w \in Managers :
       Live(w) => tasks[job[w]].status \notin {"completed", "reported", "failed_processing"}

(* A task that has been reported is never taken back, by a restart or by a    *)
(* late manager.                                                            *)
ReportNotUndone ==
    [][\A t \in TaskIds : tasks[t].status = "reported" => tasks'[t].status = "reported"]_vars

(* How far a task is for the one who has submitted it. *)
Phase(t) ==
    IF tasks[t].status = "none" THEN "absent"
    ELSE IF Attended(t) THEN "analysing"
    ELSE CASE tasks[t].status = "pending"   -> "waiting"
           [] tasks[t].status = "running"   -> "abandoned"
           [] tasks[t].status = "completed" -> "analysed"
           [] OTHER                         -> "over"

Lifecycle == INSTANCE TaskLifecycle
                 WITH Tasks <- TaskIds, Nobody <- NoTask,
                      phase <- [t \in TaskIds |-> Phase(t)], owed <- readding

(* The threads, the loop and the start-up together do what TaskLifecycle says  *)
(* of a task: one analysis takes it, it ends once, a crash at any point only   *)
(* abandons it, and start-up closes what was abandoned before it goes on.      *)
TasksLiveAsPromised == Lifecycle!Spec

(* A task that waits gets analysed: however the launches interleave, its       *)
(* machine is locked, given back, and the task completed; or an error of the    *)
(* agent that no clause of launch_analysis expects has ended its manager, and   *)
(* the task stays running.  Such an error keeps no other task from its machine.  *)
EveryTaskCompletes ==
    \A t \in TaskIds : tasks[t].status = "pending" ~>
        \/ tasks[t].status = "completed"
        \/ tasks[t].status = "running" /\ ~Attended(t)

-----------------------------------------------------------------------------
(* What the repository says of the code, and the code does not do. *)

(* CuckooDeadMachine: a task whose machine has turned dead starts again and    *)
(* uses another machine when one is available, so it is analysed after all. *)
DeadMachineRetried ==
    \A t \in TaskIds :
       (\E w \in Managers : pc[w] = "dead" /\ job[w] = t) ~> tasks[t].status = "completed"

(* set_stop_analyzing: after SIGHUP the running tasks are completed before     *)
(* the loop and the process end.                                            *)
GracefulStop == spc = "down" /\ ~running => InStatus("running") = {}

(* fetch hands a task out once: it locks it for running, so no two managers     *)
(* are at work on one task.                                                 *)
LaunchedOnce ==
    \A v, w \in Managers : v # w /\ Live(v) /\ Live(w) => job[v] # job[w]

=============================================================================
