---------------------------- MODULE TaskDatabase ----------------------------
(***************************************************************************)
(* The durable state every process of a CAPE host shares: the tables tasks, *)
(* guests and machines of lib/cuckoo/core/database.py and the analysis      *)
(* folders under storage/analyses.  cuckoo.py (module Scheduler), the web   *)
(* front end and process.py all work on it.  The class lock of Database is  *)
(* a lock of one process: it orders the threads of cuckoo.py and nothing    *)
(* else, so the operations of the other processes are actions of their own  *)
(* here and interleave with every step of the scheduler.                    *)
(*                                                                          *)
(* Abstracted: targets, options, timestamps and samples.  A task keeps the  *)
(* columns the scheduling depends on.  Identifiers are handed out in        *)
(* increasing order, so the order of added_on is the order of identifiers.  *)
(***************************************************************************)
EXTENDS Naturals, FiniteSets

CONSTANTS
    Machines,    \* the labels of the configured virtual machines
    NoMachine,   \* an empty machine column
    Arch,        \* Arch[m]: the arch of machine m in the machinery's conf
    MaxTasks,    \* bound: how many task rows are ever added
    Jobs,        \* the submissions users make
    Env          \* which operations of the other processes take place, and
                 \* "mongodb" if that reporting module is enabled

NoTask == 0
TaskIds == 1..MaxTasks

Status == {"none", "pending", "running", "completed", "reported", "recovered",
           "failed_analysis", "failed_processing", "banned", "deleted"}

(* What a submission fixes: "static" also stands for "pcap"; node is set    *)
(* when the options name a node of a distributed installation.              *)
JobType == [category : {"file", "url", "static"}, tags : SUBSET {"x86", "x64"},
            priority : Nat, machine : Machines \cup {NoMachine},
            node : BOOLEAN, user : Nat]

RowType == [status : Status, job : JobType]

ASSUME DatabaseAssumption ==
    /\ MaxTasks \in Nat
    /\ NoMachine \notin Machines
    /\ Arch \in [Machines -> {"x86", "x64"}]
    /\ Jobs \subseteq JobType

VARIABLES
    tasks,     \* the table tasks; "none": not added yet, "deleted": row gone
    guests,    \* the tasks with a row in the table guests
    locked,    \* the machines whose column locked is set
    storage    \* the tasks whose folder storage/analyses/<id> exists

dbVars == <<tasks, guests, locked, storage>>

Blank == [category |-> "file", tags |-> {}, priority |-> 0,
          machine |-> NoMachine, node |-> FALSE, user |-> 0]

DatabaseTypeOK ==
    /\ tasks \in [TaskIds -> RowType]
    /\ guests \in SUBSET TaskIds
    /\ locked \in SUBSET Machines
    /\ storage \in SUBSET TaskIds

DatabaseInit ==
    /\ tasks = [t \in TaskIds |-> [status |-> "none", job |-> Blank]]
    /\ guests = {}
    /\ locked = {}
    /\ storage = {}

-----------------------------------------------------------------------------
(* Reading and writing rows. *)

Exists(t) == t \in TaskIds /\ tasks[t].status \notin {"none", "deleted"}

InStatus(s) == {t \in TaskIds : tasks[t].status = s}

(* set_status: a row that is gone is left alone. *)
SetStatus(t, s) ==
    tasks' = IF Exists(t) THEN [tasks EXCEPT ![t].status = s] ELSE tasks

(* Database.add appends a row; reschedule and the web's submit end here. *)
CanAdd(n) == n \in TaskIds /\ tasks[n].status = "none"
             /\ \A i \in 1..(n - 1) : tasks[i].status # "none"

Added(rows, n, job) == [rows EXCEPT ![n] = [status |-> "pending", job |-> job]]

(* Mutant: every machine serves every task. *)
ServesAll(m, job) == job.tags # {}

(* The architectures of a task's tags a machine may serve. *)
Serves(m, job) == IF Arch[m] = "x64" THEN job.tags \cap {"x64", "x86"} # {}
                                     ELSE Arch[m] \in job.tags

(* Mutant: the filter on the status also lets reported tasks through. *)
FetchableReported(m) == {t \in InStatus("pending") \cup InStatus("reported") :
                           Serves(m, tasks[t].job) /\ ~tasks[t].job.node}

(* The query of fetch: the pending tasks of a machine's architecture that    *)
(* no node of a distributed installation is to take.                        *)
Fetchable(m) == {t \in InStatus("pending") :
                   Serves(m, tasks[t].job) /\ ~tasks[t].job.node}

(* ORDER BY priority DESC, added_on. *)
Before(t, u) == \/ tasks[t].job.priority > tasks[u].job.priority
                \/ /\ tasks[t].job.priority = tasks[u].job.priority
                   /\ t <= u

(* fetch looks at the first row of the query only, and takes it when the     *)
(* task asks for no machine or for this one.                                *)
FetchedBy(m, t) == /\ t \in Fetchable(m)
                   /\ \A u \in Fetchable(m) : Before(t, u)
                   /\ tasks[t].job.machine \in {NoMachine, m}

(* Mutant: the filter on locked is missing. *)
LockMachineAnyway(m) == locked' = locked \cup {m}

(* lock_machine, by label, and unlock_machine. *)
LockMachine(m) == m \notin locked /\ locked' = locked \cup {m}

(* Mutant: the change is not committed. *)
UnlockMachineNot(m) == UNCHANGED locked

UnlockMachine(m) == locked' = locked \ {m}

-----------------------------------------------------------------------------
(* The operations of the other processes. *)

(* The web front end or submit.py adds a task. *)
Submit(job) ==
    /\ "submit" \in Env
    /\ \E n \in TaskIds : CanAdd(n) /\ tasks' = Added(tasks, n, job)
    /\ UNCHANGED <<guests, locked, storage>>

(* The view analysis/remove deletes the row, whatever the task is doing; its *)
(* guest row goes with it, and so does the folder if mongodb is enabled.    *)
Remove(t) ==
    /\ "remove" \in Env
    /\ Exists(t)
    /\ tasks' = [tasks EXCEPT ![t].status = "deleted"]
    /\ guests' = guests \ {t}
    /\ storage' = IF "mongodb" \in Env THEN storage \ {t} ELSE storage
    /\ UNCHANGED locked

(* The API's tasks_delete always deletes the folder.  validate_task lets it  *)
(* through for a reported task, or one in the status the URL names.         *)
TasksDelete(t) ==
    /\ "delete" \in Env
    /\ Exists(t)
    /\ tasks' = [tasks EXCEPT ![t].status = "deleted"]
    /\ guests' = guests \ {t}
    /\ storage' = storage \ {t}
    /\ UNCHANGED locked

(* ban_user_tasks: the pending tasks of one user. *)
BanUserTasks(u) ==
    /\ "ban" \in Env
    /\ u # 0
    /\ tasks' = [t \in TaskIds |->
                   IF tasks[t].status = "pending" /\ tasks[t].job.user = u
                   THEN [tasks[t] EXCEPT !.status = "banned"] ELSE tasks[t]]
    /\ UNCHANGED <<guests, locked, storage>>

(* reschedule calls add without the user: the copy belongs to user 0.  It    *)
(* takes the machine column as it stands, which fetch has filled in.        *)
Copy(job) == [job EXCEPT !.user = 0]

(* The API's tasks_reschedule, whatever the status of the task.  The file    *)
(* of the task may be gone: then the task is recovered and nothing added.   *)
TasksReschedule(t) ==
    /\ "reschedule" \in Env
    /\ Exists(t)
    /\ LET marked == [tasks EXCEPT ![t].status = "recovered"] IN
       \/ \E n \in TaskIds : /\ CanAdd(n)
                             /\ tasks' = Added(marked, n, Copy(tasks[t].job))
       \/ /\ tasks[t].job.category # "url"
          /\ tasks' = marked
    /\ UNCHANGED <<guests, locked, storage>>

(* process.py turns a completed task into a report, or fails on it. *)
Report(t) ==
    /\ "report" \in Env
    /\ tasks[t].status = "completed"
    /\ \E s \in {"reported", "failed_processing"} : SetStatus(t, s)
    /\ UNCHANGED <<guests, locked, storage>>

Users == {j.user : j \in Jobs}

OtherProcesses ==
    \/ \E j \in Jobs : Submit(j)
    \/ \E t \in TaskIds : Remove(t)
    \/ \E t \in TaskIds : TasksDelete(t)
    \/ \E u \in Users : BanUserTasks(u)
    \/ \E t \in TaskIds : TasksReschedule(t)
    \/ \E t \in TaskIds : Report(t)

=============================================================================
