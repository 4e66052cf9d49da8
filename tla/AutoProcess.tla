----------------------------- MODULE AutoProcess -----------------------------
(***************************************************************************)
(* utils/process.py in automatic mode: the loop of autoprocess lists tasks   *)
(* that are completed and schedules one at a time on a pool of worker         *)
(* processes; a callback in a thread of the pool notes how a future ended     *)
(* and forgets it.  The loop and the callbacks share the two maps             *)
(* pending_future_map and pending_task_id_map without a lock, and both work   *)
(* on the database the scheduler and the web front end also write.            *)
(*                                                                          *)
(* Abstracted: what the processing, signature and reporting modules do; free  *)
(* space and memory limits; max_tasks of the pool.  A task's number is its    *)
(* rank in completed_on, the order in which list_tasks returns tasks.         *)
(***************************************************************************)
EXTENDS Naturals, FiniteSets, FiniteSetsExt

CONSTANTS
    NumTasks,          \* bound: how many tasks there are
    Parallel,          \* --parallel, the number of worker processes
    Futures,           \* bound: slots for futures that are not forgotten yet
    NoFuture,          \* a task without an entry in pending_task_id_map
    MaxProcessed,      \* max_analysis_count, 0 for no limit
    FailedProcessing,  \* --failed-processing: take the tasks that failed before
    Hazards            \* what may happen: "timeout", "error", "remove", "raise"

Tasks == 1..NumTasks

ASSUME AutoProcessAssumption ==
    /\ NumTasks \in Nat
    /\ Parallel \in Nat \ {0}
    /\ MaxProcessed \in Nat
    /\ NoFuture \notin Futures
    /\ FailedProcessing \in BOOLEAN
    /\ Hazards \subseteq {"timeout", "error", "remove", "raise"}

VARIABLES
    status,   \* status[t]: the column status of the task
    apc,      \* where the loop is
    todo,     \* the tasks of list_tasks the for loop has still to look at
    current,  \* the future pool.schedule has just returned
    count,    \* how many tasks have been scheduled, if that is limited
    of,       \* of[f]: the task future f processes
    state,    \* state[f]: how far the future is
    fmap,     \* pending_future_map: the futures it has
    tmap      \* pending_task_id_map

vars == <<status, apc, todo, current, count, of, state, fmap, tmap>>

(* "reported": the worker has written the status and is still running. *)
FutureState == {"free", "queued", "working", "reported", "returned", "timeout",
                "failed", "noted"}

TypeOK ==
    /\ status \in [Tasks -> {"running", "completed", "reported",
                             "failed_processing", "deleted"}]
    /\ apc \in {"check", "list", "scan", "record", "ended"}
    /\ todo \in SUBSET Tasks
    /\ current \in Futures \cup {NoFuture}
    /\ count \in 0..MaxProcessed
    /\ of \in [Futures -> Tasks \cup {0}]
    /\ state \in [Futures -> FutureState]
    /\ fmap \in SUBSET Futures
    /\ tmap \in [Tasks -> Futures \cup {NoFuture}]

Init ==
    /\ status = [t \in Tasks |-> "running"]
    /\ apc = "check"
    /\ todo = {}
    /\ current = NoFuture
    /\ count = 0
    /\ of = [f \in Futures |-> 0]
    /\ state = [f \in Futures |-> "free"]
    /\ fmap = {}
    /\ tmap = [t \in Tasks |-> NoFuture]

SetStatus(t, s) ==
    status' = IF status[t] = "deleted" THEN status ELSE [status EXCEPT ![t] = s]

-----------------------------------------------------------------------------
(* The loop. *)

Pending == {t \in Tasks : tmap[t] # NoFuture}

(* Mutant: one too many. *)
CountLeftOneMore == MaxProcessed = 0 \/ count <= MaxProcessed

(* while count < maxcount or not maxcount. *)
CountLeft == MaxProcessed = 0 \/ count < MaxProcessed

(* Mutant: one too many. *)
StillFullLate == Cardinality(Pending) > Parallel

(* len(pending_task_id_map) >= parallel. *)
StillFull == Cardinality(Pending) >= Parallel

Check ==
    /\ apc = "check"
    /\ \/ ~CountLeft /\ apc' = "ended"
       \/ CountLeft /\ apc' = IF StillFull THEN "check" ELSE "list"
    /\ UNCHANGED <<status, todo, current, count, of, state, fmap, tmap>>

Wanted == {t \in Tasks : status[t] = IF FailedProcessing THEN "failed_processing"
                                                         ELSE "completed"}

(* list_tasks(status, limit=parallel, order_by=completed_on). *)
Listed == {t \in Wanted : Cardinality({u \in Wanted : u < t}) < Parallel}

List ==
    /\ apc = "list"
    /\ todo' = Listed
    /\ apc' = "scan"
    /\ UNCHANGED <<status, current, count, of, state, fmap, tmap>>

(* Mutant: the check of pending_task_id_map is left out. *)
NeverPending(t) == FALSE

(* "Not-so-efficient lock." *)
IsPending(t) == tmap[t] # NoFuture

(* The for loop: skip what is pending, schedule the first that is not. *)
Skip ==
    /\ apc = "scan"
    /\ todo # {}
    /\ IsPending(Min(todo))
    /\ todo' = todo \ {Min(todo)}
    /\ UNCHANGED <<status, apc, current, count, of, state, fmap, tmap>>

Schedule(f) ==
    /\ apc = "scan"
    /\ todo # {}
    /\ ~IsPending(Min(todo))
    /\ state[f] = "free"
    /\ state' = [state EXCEPT ![f] = "queued"]
    /\ of' = [of EXCEPT ![f] = Min(todo)]
    /\ current' = f
    /\ todo' = {}
    /\ apc' = "record"
    /\ UNCHANGED <<status, count, fmap, tmap>>

(* Both maps and add_done_callback, then break. *)
Record ==
    /\ apc = "record"
    /\ fmap' = fmap \cup {current}
    /\ tmap' = [tmap EXCEPT ![of[current]] = current]
    /\ current' = NoFuture
    /\ count' = IF MaxProcessed > 0 THEN count + 1 ELSE count
    /\ apc' = "check"
    /\ UNCHANGED <<status, todo, of, state>>

(* Nothing was added: sleep and go round. *)
NothingAdded ==
    /\ apc = "scan"
    /\ todo = {}
    /\ apc' = "check"
    /\ UNCHANGED <<status, todo, current, count, of, state, fmap, tmap>>

(* An exception in the loop (a full disk, the database gone, Ctrl-C): it is      *)
(* left for good, and pool.close and pool.join work off what is scheduled.     *)
LoopRaises ==
    /\ "raise" \in Hazards
    /\ apc \in {"check", "list", "scan"}
    /\ apc' = "ended"
    /\ todo' = {}
    /\ UNCHANGED <<status, current, count, of, state, fmap, tmap>>

-----------------------------------------------------------------------------
(* A worker process of the pool. *)

Working == {f \in Futures : state[f] \in {"working", "reported"}}

Become(f, s) == state' = [state EXCEPT ![f] = s]

Begin(f) ==
    /\ state[f] = "queued"
    /\ Cardinality(Working) < Parallel
    /\ Become(f, "working")
    /\ UNCHANGED <<status, apc, todo, current, count, of, fmap, tmap>>

(* process: all modules have run, set_status(TASK_REPORTED). *)
Report(f) ==
    /\ state[f] = "working"
    /\ SetStatus(of[f], "reported")
    /\ Become(f, "reported")
    /\ UNCHANGED <<apc, todo, current, count, of, fmap, tmap>>

(* process: the originals are deleted if so configured, and it returns. *)
Return(f) ==
    /\ state[f] = "reported"
    /\ Become(f, "returned")
    /\ UNCHANGED <<status, apc, todo, current, count, of, fmap, tmap>>

(* process raises, or the worker dies. *)
Raise(f) ==
    /\ "error" \in Hazards
    /\ f \in Working
    /\ Become(f, "failed")
    /\ UNCHANGED <<status, apc, todo, current, count, of, fmap, tmap>>

(* processing_timeout: the pool kills the worker wherever it is. *)
Timeout(f) ==
    /\ "timeout" \in Hazards
    /\ f \in Working
    /\ Become(f, "timeout")
    /\ UNCHANGED <<status, apc, todo, current, count, of, fmap, tmap>>

-----------------------------------------------------------------------------
(* processing_finished, in a thread of the pool: first the status ... *)

FinishedStatus(f) ==
    /\ f \in fmap
    /\ state[f] \in {"returned", "timeout", "failed"}
    /\ IF state[f] = "returned" THEN UNCHANGED status
                                ELSE SetStatus(of[f], "failed_processing")
    /\ Become(f, "noted")
    /\ UNCHANGED <<apc, todo, current, count, of, fmap, tmap>>

(* Mutant: only the map of futures is cleaned. *)
ForgetFuture(f) == fmap' = fmap \ {f} /\ UNCHANGED tmap

(* ... then both entries go. *)
ForgetBoth(f) == fmap' = fmap \ {f} /\ tmap' = [tmap EXCEPT ![of[f]] = NoFuture]

FinishedForget(f) ==
    /\ state[f] = "noted"
    /\ ForgetBoth(f)
    /\ Become(f, "free")
    /\ of' = [of EXCEPT ![f] = 0]
    /\ UNCHANGED <<status, apc, todo, current, count>>

-----------------------------------------------------------------------------
(* The other processes. *)

(* An analysis completes (cuckoo.py). *)
AnalysisCompletes(t) ==
    /\ status[t] = "running"
    /\ status' = [status EXCEPT ![t] = "completed"]
    /\ UNCHANGED <<apc, todo, current, count, of, state, fmap, tmap>>

(* The web front end removes the task. *)
Remove(t) ==
    /\ "remove" \in Hazards
    /\ status' = [status EXCEPT ![t] = "deleted"]
    /\ UNCHANGED <<apc, todo, current, count, of, state, fmap, tmap>>

Loop == Check \/ List \/ Skip \/ (\E f \in Futures : Schedule(f)) \/ Record \/ NothingAdded

Worker(f) == Begin(f) \/ Report(f) \/ Return(f) \/ Raise(f) \/ Timeout(f)

Callback(f) == FinishedStatus(f) \/ FinishedForget(f)

Next ==
    \/ Loop \/ LoopRaises
    \/ \E f \in Futures : Worker(f) \/ Callback(f)
    \/ \E t \in Tasks : AnalysisCompletes(t) \/ Remove(t)

Spec == Init /\ [][Next]_vars

(* The loop goes on, a worker ends (if only by its timeout), and the pool      *)
(* calls back.                                                              *)
FairSpec == /\ Spec
            /\ WF_vars(Loop)
            /\ \A f \in Futures : WF_vars(Worker(f)) /\ WF_vars(Callback(f))

-----------------------------------------------------------------------------
(* Properties. *)

Alive == {f \in Futures : state[f] \in {"queued", "working", "reported"}}

(* pending_task_id_map is a lock: no two workers ever process one task, though   *)
(* the list it is asked for may be older than a callback.                   *)
OneWorkerPerTask == \A f, g \in Alive : f # g => of[f] # of[g]

(* processing_finished finds both its entries, so neither del raises and no      *)
(* entry stays behind to keep a task or a place in the pool for ever.       *)
MapsAgree ==
    /\ \A f \in fmap : of[f] \in Tasks /\ tmap[of[f]] = f
    /\ \A t \in Tasks : tmap[t] # NoFuture => tmap[t] \in fmap /\ of[tmap[t]] = t

(* The loop never has more futures out than there are workers ("necessary        *)
(* despite pool"), so what is scheduled starts at once and its timeout counts. *)
PoolNotOverrun == Cardinality(Alive) <= Parallel

(* Every task whose analysis is completed gets a report or is marked failed,     *)
(* unless the loop has ended (max_analysis_count, or an exception) before it was  *)
(* scheduled: pool.join waits for what is.                                        *)
EveryTaskProcessed ==
    \A t \in Tasks : status[t] = "completed" ~>
        \/ status[t] # "completed"
        \/ apc = "ended" /\ ~IsPending(t)

=============================================================================
