-------------------------------- MODULE Dist --------------------------------
(***************************************************************************)
(* Distributed CAPE, utils/dist.py: the thread StatusThread that hands the   *)
(* pending tasks of the master to workers, and the threads of Retriever that *)
(* find out which are reported, fetch the reports and delete them on the     *)
(* workers.  The master's database, the database of dist.py (one row per     *)
(* task), the workers and the queues between the threads are its state.      *)
(*                                                                           *)
(* Abstracted: the contents of tasks and reports (a report is the task it is *)
(* about), tags (enable_tags is off), the node called master, which is taken *)
(* to store only (master_storage_only), and the order of the queues, whose   *)
(* entries are taken in any order.  Worker databases are not reset, so a     *)
(* pair of worker and id names one analysis.                                 *)
(***************************************************************************)
EXTENDS Integers, FiniteSets

CONSTANTS
    Tasks,       \* the tasks of the master
    NoTask,
    Nodes,       \* the workers
    AnyNode,     \* no node in the options of a task
    Want,        \* Want[t]: the node the options of t ask for
    Slots,       \* Slots[n]: MINIMUMQUEUE, the machines of worker n
    Threads,     \* the dist_threads threads that fetch reports
    HasFile,     \* the tasks of category file
    DeadCount,   \* dead_count
    Callback,    \* notification_loop runs (callback enabled)
    Nfs,         \* reports are fetched over NFS, not over the REST API
    Faults,      \* the failures that may happen
    MaxFaults,   \* bound: how many failures happen
    MaxIds,      \* bound: the ids a worker hands out
    MaxDup       \* bound: entries of one task in fetcher_queue

Ids == 1..MaxIds
NoId == 0
Jobs == Nodes \X Ids

ASSUME DistAssumption ==
    /\ IsFiniteSet(Tasks) /\ NoTask \notin Tasks
    /\ IsFiniteSet(Threads)
    /\ AnyNode \notin Nodes
    /\ Want \in [Tasks -> Nodes \cup {AnyNode}]
    /\ Slots \in [Nodes -> Nat]
    /\ HasFile \subseteq Tasks
    /\ DeadCount \in Nat \ {0} /\ MaxFaults \in Nat /\ MaxIds \in Nat /\ MaxDup \in Nat \ {0}
    /\ Nfs \in BOOLEAN /\ Callback \in BOOLEAN
    /\ Faults \subseteq {"unreachable", "refused", "lost", "get", "bad", "zip", "unpack", "store",
                         "file", "delete", "restart", "disable", "remove", "failed", "callback"}

VARIABLES
    main,      \* the status of a task in the master's database
    row,       \* its row in the table task of dist.py
    worker,    \* worker[n][i]: the analysis with id i of worker n
    enabled,   \* the nodes whose column enabled is set
    statuses,  \* STATUSES: the load of a node when it was last asked, or -1
    fails,     \* failed_count
    spc,       \* where StatusThread is
    snode,     \* the node it submits to
    rest,      \* the nodes of this round still to be asked
    asked,     \* it is at the tasks that ask for the node
    quota,     \* pend_tasks_num less limit, the tasks pushed so far
    todo,      \* the tasks of its list still to be dealt with
    skipped,   \* a task of the list was not pushed at once
    sent,      \* the task node_submit_task is called for, and the id it got
    listed,    \* what is left of the list of reported analyses fetcher works on
    fq,        \* fetcher_queue: how often an analysis is in it
    cur,       \* current_queue: how often an analysis is in it
    cleaner,   \* cleaner_queue
    failing,   \* the analyses whose rows failed_cleaner has marked, not committed
    tpc,       \* where a fetching thread is
    tjob,      \* the analysis it has taken
    ttask,     \* the task whose row it has found
    report,    \* report[t]: what the folder of t on the master has
    lost,      \* the tasks whose report dist.py removed, could not unpack, was
               \* refused, or had no time to mark as retrieved, since it was last
               \* fetched, or whose analysis failed
    faults     \* how many failures are still to come

masterVars == <<main, row>>
nodeVars   == <<worker, enabled>>
loadVars   == <<statuses, fails>>
statusVars == <<spc, snode, rest, asked, quota, todo, skipped, sent>>
queueVars  == <<listed, fq, cur, cleaner, failing>>
threadVars == <<tpc, tjob, ttask>>
reportVars == <<report, lost>>

vars == <<masterVars, nodeVars, loadVars, statusVars, queueVars,
          threadVars, reportVars, faults>>

NoJob == <<AnyNode, NoId>>

RowType == [state : {"none", "new", "pushed"}, job : Jobs \cup {NoJob},
            finished : BOOLEAN, retrieved : BOOLEAN, notificated : BOOLEAN]

NoRow == [state |-> "none", job |-> NoJob, finished |-> FALSE,
          retrieved |-> FALSE, notificated |-> FALSE]

AnalysisType == [task : Tasks \cup {NoTask},
                 state : {"none", "working", "reported", "failed", "deleted"}]

MasterTypeOK ==
    /\ main \in [Tasks -> {"pending", "distributed", "reported", "failed_reporting", "deleted"}]
    /\ row \in [Tasks -> RowType]

NodeTypeOK ==
    /\ worker \in [Nodes -> [Ids -> AnalysisType]]
    /\ enabled \subseteq Nodes

LoadTypeOK ==
    /\ statuses \in [Nodes -> -1..MaxIds]
    /\ fails \in [Nodes -> 0..DeadCount]

StatusTypeOK ==
    /\ spc \in {"node", "list", "add", "push", "commit", "mark", "upload", "balance"}
    /\ snode \in Nodes \cup {AnyNode}
    /\ rest \subseteq Nodes
    /\ asked \in BOOLEAN /\ skipped \in BOOLEAN
    /\ quota \in Nat
    /\ todo \subseteq Tasks
    /\ sent \in (Tasks \cup {NoTask}) \X (Ids \cup {NoId}) \X BOOLEAN

QueueTypeOK ==
    /\ listed \subseteq Jobs /\ failing \subseteq Jobs
    /\ fq \in [Jobs -> 0..MaxDup]
    /\ cur \in [Jobs -> Nat]
    /\ cleaner \subseteq Jobs

ThreadTypeOK ==
    /\ tpc \in [Threads -> {"idle", "query", "get", "store"}]
    /\ tjob \in [Threads -> Jobs \cup {NoJob}]
    /\ ttask \in [Threads -> Tasks \cup {NoTask}]

TypeOK ==
    /\ MasterTypeOK /\ NodeTypeOK /\ LoadTypeOK
    /\ StatusTypeOK /\ QueueTypeOK /\ ThreadTypeOK
    /\ report \in [Tasks -> Tasks \cup {NoTask}] /\ lost \subseteq Tasks
    /\ faults \in 0..MaxFaults

Init ==
    /\ main = [t \in Tasks |-> "pending"]
    /\ row = [t \in Tasks |-> NoRow]
    /\ worker = [n \in Nodes |-> [i \in Ids |-> [task |-> NoTask, state |-> "none"]]]
    /\ enabled = Nodes
    /\ statuses = [n \in Nodes |-> -1]
    /\ fails = [n \in Nodes |-> 0]
    /\ spc = "node" /\ snode = AnyNode /\ rest = {} /\ asked = FALSE /\ quota = 0
    /\ todo = {} /\ skipped = FALSE /\ sent = <<NoTask, NoId, FALSE>>
    /\ listed = {}
    /\ fq = [j \in Jobs |-> 0]
    /\ cur = [j \in Jobs |-> 0]
    /\ cleaner = {} /\ failing = {}
    /\ tpc = [h \in Threads |-> "idle"]
    /\ tjob = [h \in Threads |-> NoJob]
    /\ ttask = [h \in Threads |-> NoTask]
    /\ report = [t \in Tasks |-> NoTask] /\ lost = {}
    /\ faults = MaxFaults

-----------------------------------------------------------------------------
(* What the steps are made of. *)

(* main_db.set_status: a task that was deleted stays so. *)
SetMain(t, s) == main' = IF main[t] = "deleted" THEN main ELSE [main EXCEPT ![t] = s]

Known == {n \in Nodes : statuses[n] >= 0}

Analysis(j) == worker[j[1]][j[2]]

Load(n) == Cardinality({i \in Ids : worker[n][i].state = "working"})

(* The next id a worker hands out. *)
FreeId(n, i) == worker[n][i].state = "none" /\ \A k \in 1..(i - 1) : worker[n][k].state # "none"

(* A list of LIMIT quota rows out of a query's result. *)
Limited(S) == {L \in SUBSET S : IF Cardinality(S) <= quota THEN L = S
                                                           ELSE Cardinality(L) = quota}

(* Mutant: the id alone, whatever node it is an id of. *)
WantedAnyNode(j, t) ==
    row[t].state = "pushed" /\ row[t].job[2] = j[2] /\ ~row[t].retrieved /\ ~row[t].finished

(* The filters the threads of Retriever look a row up with. *)
Wanted(j, t) == row[t].state = "pushed" /\ row[t].job = j /\ ~row[t].retrieved /\ ~row[t].finished

(* A failure: one of Faults, and one of the MaxFaults there may be. *)
Fault(f) == f \in Faults /\ faults > 0 /\ faults' = faults - 1

-----------------------------------------------------------------------------
(* StatusThread.run.                                                         *)

(* The next node of the round; the first one of a new round takes the nodes    *)
(* that were disabled out of STATUSES.                                        *)
Asks(n) ==
    /\ spc = "node"
    /\ IF rest = {} THEN n \in enabled /\ rest' = enabled \ {n}
                    ELSE n \in rest /\ rest' = rest \ {n}

Current(k) == IF rest = {} /\ k \notin enabled THEN -1 ELSE statuses[k]

(* node_status has an answer: first the tasks that ask for this node. *)
NodeUp(n) ==
    /\ Asks(n)
    /\ statuses' = [k \in Nodes |-> IF k = n THEN Load(n) ELSE Current(k)]
    /\ fails' = [fails EXCEPT ![n] = 0]
    /\ snode' = n
    /\ asked' = TRUE
    /\ quota' = Slots[n]
    /\ spc' = "list"
    /\ UNCHANGED <<masterVars, nodeVars, todo, skipped, sent, queueVars, threadVars,
                   reportVars, faults>>

(* It has none: at the dead_count-th time the node leaves STATUSES. *)
NodeDown(n) ==
    /\ Asks(n)
    /\ Fault("unreachable")
    /\ fails' = [fails EXCEPT ![n] = IF @ < DeadCount THEN @ + 1 ELSE @]
    /\ statuses' = [k \in Nodes |-> IF k = n /\ fails[n] + 1 = DeadCount
                                    THEN -1 ELSE Current(k)]
    /\ UNCHANGED <<masterVars, nodeVars, spc, snode, asked, quota, todo, skipped, sent,
                   queueVars, threadVars, reportVars>>

(* Back in the loop over the nodes. *)
NodeDone ==
    /\ spc' = "node" /\ snode' = AnyNode /\ asked' = FALSE /\ quota' = 0

(* submit_tasks returns. *)
Returned ==
    /\ skipped' = FALSE
    /\ IF asked THEN spc' = "balance" /\ UNCHANGED <<snode, asked, quota>> ELSE NodeDone

(* Then the node with the least load, as far as STATUSES knows. *)
Balance ==
    /\ spc = "balance"
    /\ \E n \in Known :
          /\ \A k \in Known : statuses[n] <= statuses[k]
          /\ IF Slots[n] > statuses[n]
             THEN /\ snode' = n
                  /\ quota' = Slots[n] - statuses[n]
                  /\ asked' = FALSE
                  /\ spc' = "list"
             ELSE NodeDone
    /\ UNCHANGED <<masterVars, nodeVars, loadVars, rest, todo, skipped, sent, queueVars,
                   threadVars, reportVars, faults>>

-----------------------------------------------------------------------------
(* StatusThread.submit_tasks.                                                *)

(* Mutant: such rows are left. *)
NoBadTasks == {}

(* Rows without a node are deleted and their tasks pending anew. *)
BadTasks == {t \in Tasks : row[t].state = "new"}

Repaired(t) == IF t \in BadTasks /\ main[t] # "deleted" THEN "pending" ELSE main[t]

(* Then list_tasks(status=TASK_PENDING), all or those that ask for the node.    *)
(* Only this thread touches rows without a node, so it is one step.           *)
ListTasks ==
    /\ spc = "list"
    /\ row' = [t \in Tasks |-> IF t \in BadTasks THEN NoRow ELSE row[t]]
    /\ main' = [t \in Tasks |-> Repaired(t)]
    /\ LET found == {t \in Tasks : Repaired(t) = "pending" /\ (asked => Want[t] = snode)} IN
       /\ \E L \in Limited(found) : todo' = L
       /\ IF found = {} THEN Returned
                        ELSE spc' = "add" /\ UNCHANGED <<snode, asked, quota, skipped>>
    /\ UNCHANGED <<nodeVars, loadVars, rest, sent, queueVars, threadVars, reportVars, faults>>

Forced(t) == asked \/ (Want[t] # AnyNode /\ Want[t] \notin Known)

ForOther(t) == Want[t] # AnyNode /\ Want[t] \in Known /\ Want[t] # snode

(* One task of that list.  Its status is not looked at again. *)
AddRow(t) ==
    /\ spc = "add"
    /\ t \in todo
    /\ todo' = todo \ {t}
    /\ \/ /\ ForOther(t)
          /\ skipped' = TRUE
          /\ UNCHANGED <<masterVars, spc, sent, quota, faults>>
       \/ /\ ~ForOther(t)
          /\ row[t].state # "none"
          /\ SetMain(t, "distributed")
          /\ skipped' = TRUE
          /\ UNCHANGED <<row, spc, sent, quota, faults>>
       \/ /\ ~ForOther(t)
          /\ row[t].state = "none"
          /\ t \in HasFile /\ Fault("file")
          /\ SetMain(t, "deleted")
          /\ skipped' = TRUE
          /\ UNCHANGED <<row, spc, sent, quota>>
       \/ /\ ~ForOther(t)
          /\ row[t].state = "none"
          /\ row' = [row EXCEPT ![t] = [NoRow EXCEPT !.state = "new"]]
          /\ IF Forced(t)
             THEN /\ spc' = "push"
                  /\ sent' = <<t, NoId, TRUE>>
                  /\ quota' = quota - 1
                  /\ UNCHANGED skipped
             ELSE /\ skipped' = TRUE
                  /\ UNCHANGED <<spc, sent, quota>>
          /\ UNCHANGED <<main, faults>>
    /\ UNCHANGED <<nodeVars, loadVars, snode, rest, asked, queueVars,
                   threadVars, reportVars>>

(* The list is done: return if all of it was pushed, else pick the rows that    *)
(* have not been pushed yet.                                                  *)
AddDone ==
    /\ spc = "add"
    /\ todo = {}
    /\ LET found == {t \in Tasks : row[t].state = "new" /\ ~row[t].finished} IN
       IF skipped /\ found # {}
       THEN /\ \E L \in Limited(found) : todo' = L
            /\ spc' = "upload"
            /\ UNCHANGED <<snode, asked, quota, skipped>>
       ELSE Returned /\ UNCHANGED todo
    /\ UNCHANGED <<masterVars, nodeVars, loadVars, rest, sent, queueVars, threadVars,
                   reportVars, faults>>

Upload ==
    /\ spc = "upload"
    /\ \/ \E t \in todo : /\ todo' = todo \ {t}
                          /\ sent' = <<t, NoId, FALSE>>
                          /\ spc' = "push"
                          /\ UNCHANGED <<snode, asked, quota, skipped>>
       \/ todo = {} /\ Returned /\ UNCHANGED <<todo, sent>>
    /\ UNCHANGED <<masterVars, nodeVars, loadVars, rest, queueVars, threadVars, reportVars,
                   faults>>

(* node_submit_task has no id to return: a row that was picked is deleted, one *)
(* that was just added stays without a node.                                 *)
NotSubmitted ==
    /\ spc' = IF sent[3] THEN "add" ELSE "upload"
    /\ sent' = <<NoTask, NoId, FALSE>>

RowAfterFailure(r) == IF sent[3] THEN r ELSE NoRow

(* The request raises.  requests' exceptions are OSErrors: for a file the      *)
(* clause for a file that cannot be opened catches them and gives the task     *)
(* up; otherwise the row goes and the task stays pending.                    *)
PostRaises(t) ==
    /\ IF t \in HasFile
       THEN /\ SetMain(t, "failed_reporting")
            /\ row' = [row EXCEPT ![t] = RowAfterFailure([@ EXCEPT !.finished = TRUE,
                                                                   !.retrieved = TRUE])]
       ELSE /\ row' = [row EXCEPT ![t] = RowAfterFailure(@)]
            /\ UNCHANGED main
    /\ NotSubmitted

(* The POST of node_submit_task: accepted; accepted, but the answer is lost;   *)
(* the worker is not reached, or the file is gone; the worker refuses.       *)
Post ==
    /\ spc = "push"
    /\ LET t == sent[1] IN
       \/ \E i \in Ids :
             /\ FreeId(snode, i)
             /\ worker' = [worker EXCEPT ![snode][i] = [task |-> t, state |-> "working"]]
             /\ \/ /\ sent' = <<t, i, sent[3]>>
                   /\ spc' = "commit"
                   /\ UNCHANGED <<masterVars, faults>>
                \/ Fault("lost") /\ PostRaises(t)
       \/ /\ Fault("unreachable") \/ (t \in HasFile /\ Fault("file"))
          /\ PostRaises(t)
          /\ UNCHANGED worker
       \/ /\ Fault("refused")
          /\ row' = [row EXCEPT ![t] = RowAfterFailure(@)]
          /\ NotSubmitted
          /\ UNCHANGED <<main, worker>>
    /\ UNCHANGED <<enabled, loadVars, snode, rest, asked, quota, todo, skipped,
                   queueVars, threadVars, reportVars>>

(* task.task_id, task.node_id and the commit. *)
Commit ==
    /\ spc = "commit"
    /\ row' = [row EXCEPT ![sent[1]].state = "pushed", ![sent[1]].job = <<snode, sent[2]>>]
    /\ spc' = "mark"
    /\ UNCHANGED <<main, nodeVars, loadVars, snode, rest, asked, quota, todo, skipped, sent,
                   queueVars, threadVars, reportVars, faults>>

(* main_db.set_status(TASK_DISTRIBUTED). *)
Mark ==
    /\ spc = "mark"
    /\ SetMain(sent[1], "distributed")
    /\ spc' = IF sent[3] THEN "add" ELSE "upload"
    /\ sent' = <<NoTask, NoId, FALSE>>
    /\ UNCHANGED <<row, nodeVars, loadVars, snode, rest, asked, quota, todo, skipped,
                   queueVars, threadVars, reportVars, faults>>

-----------------------------------------------------------------------------
(* The workers. *)

(* An analysis outlasts the request that submitted it. *)
Submitting(n, i) == spc \in {"commit", "mark"} /\ snode = n /\ sent[2] = i

Analyse(n, i) ==
    /\ worker[n][i].state = "working"
    /\ ~Submitting(n, i)
    /\ \/ worker' = [worker EXCEPT ![n][i].state = "reported"]
       \/ worker' = [worker EXCEPT ![n][i].state = "failed"] /\ "failed" \in Faults
    /\ UNCHANGED <<masterVars, enabled, loadVars, statusVars, queueVars, threadVars,
                   reportVars, faults>>

-----------------------------------------------------------------------------
(* Retriever.fetcher. *)

(* Mutant: the list is not restricted to what is reported. *)
ListedEarly(n) == {j \in Jobs : j[1] = n /\ Analysis(j).state # "none"}

(* What node_fetch_tasks("reported") may list of node n. *)
Listed(n) == {j \in Jobs : j[1] = n /\ Analysis(j).state = "reported"}

(* The list of a node, or of what was completed since last_check. *)
FetchList(n) ==
    /\ listed = {}
    /\ n \in enabled
    /\ listed' \in SUBSET Listed(n)
    /\ UNCHANGED <<masterVars, nodeVars, loadVars, statusVars, fq, cur, cleaner, failing,
                   threadVars, reportVars, faults>>

(* One entry of it, which may be deleted on the worker by now.  Without a row     *)
(* that waits for it, the analysis is to be deleted there.  The test for          *)
(* fetcher_queue compares with pairs the queue never holds, so an analysis may be *)
(* put into it again and again.                                                 *)
FetchItem(j) ==
    /\ j \in listed
    /\ listed' = listed \ {j}
    /\ IF \A t \in Tasks : ~Wanted(j, t)
       THEN cleaner' = cleaner \cup {j} /\ UNCHANGED fq
       ELSE /\ fq' = IF cur[j] = 0 /\ fq[j] < MaxDup THEN [fq EXCEPT ![j] = @ + 1] ELSE fq
            /\ UNCHANGED cleaner
    /\ UNCHANGED <<masterVars, nodeVars, loadVars, statusVars, cur, failing, threadVars,
                   reportVars, faults>>

-----------------------------------------------------------------------------
(* fetch_latest_reports and fetch_latest_reports_nfs. *)

ThreadIdle(h) ==
    /\ tpc' = [tpc EXCEPT ![h] = "idle"]
    /\ tjob' = [tjob EXCEPT ![h] = NoJob]
    /\ ttask' = [ttask EXCEPT ![h] = NoTask]

(* Mutant: the id is not put into current_queue. *)
TakeUnnoted(h, j) ==
    /\ tpc[h] = "idle"
    /\ fq[j] > 0
    /\ fq' = [fq EXCEPT ![j] = @ - 1]
    /\ tpc' = [tpc EXCEPT ![h] = "query"]
    /\ tjob' = [tjob EXCEPT ![h] = j]
    /\ UNCHANGED <<masterVars, nodeVars, loadVars, statusVars, listed, cur, cleaner, failing,
                   ttask, reportVars, faults>>

Take(h, j) ==
    /\ tpc[h] = "idle"
    /\ fq[j] > 0
    /\ fq' = [fq EXCEPT ![j] = @ - 1]
    /\ cur' = [cur EXCEPT ![j] = @ + 1]
    /\ tpc' = [tpc EXCEPT ![h] = "query"]
    /\ tjob' = [tjob EXCEPT ![h] = j]
    /\ UNCHANGED <<masterVars, nodeVars, loadVars, statusVars, listed, cleaner, failing, ttask,
                   reportVars, faults>>

(* The row, and both set_status before anything is fetched.  A row that is gone *)
(* or done: continue, past the removal from current_queue.                    *)
Query(h) ==
    /\ tpc[h] = "query"
    /\ \/ \E t \in Tasks :
             /\ Wanted(tjob[h], t)
             /\ SetMain(t, "reported")
             /\ tpc' = [tpc EXCEPT ![h] = "get"]
             /\ ttask' = [ttask EXCEPT ![h] = t]
             /\ UNCHANGED <<tjob, cleaner>>
       \/ /\ \A t \in Tasks : ~Wanted(tjob[h], t)
          /\ cleaner' = cleaner \cup {tjob[h]}
          /\ ThreadIdle(h)
          /\ UNCHANGED main
    /\ UNCHANGED <<row, nodeVars, loadVars, statusVars, listed, fq, cur, failing, reportVars, faults>>

(* The handler of an exception deletes report.json, if it is there. *)
Dropped(t) ==
    /\ report' = [report EXCEPT ![t] = NoTask]
    /\ lost' = IF report[t] = NoTask THEN lost ELSE lost \cup {t}

(* The report is unpacked, and over REST the analysis queued for deletion before  *)
(* the row is marked.                                                           *)
Unpacked(h) ==
    /\ report' = [report EXCEPT ![ttask[h]] = Analysis(tjob[h]).task]
    /\ lost' = lost \ {ttask[h]}
    /\ cleaner' = IF Nfs THEN cleaner ELSE cleaner \cup {tjob[h]}

(* Mutant: the status of the answer is not looked at. *)
GetUnchecked(h) ==
    /\ tpc[h] = "get"
    /\ tpc' = [tpc EXCEPT ![h] = "store"]
    /\ \/ Fault("get") /\ UNCHANGED <<reportVars, cleaner>>
       \/ Unpacked(h) /\ UNCHANGED faults
    /\ UNCHANGED <<masterVars, nodeVars, loadVars, statusVars, listed, fq, cur, failing, tjob,
                   ttask>>

(* The report itself.  No answer, or one that is not 200: continue, past the      *)
(* removal from current_queue; after a 400 the analysis is queued for deletion.   *)
(* What is no archive, as the answer for an analysis the worker no longer has, is *)
(* left for another attempt: whether the clause for BadZipFile catches it or the   *)
(* one below, which deletes report.json, depends on the module that raises.       *)
(* An OSError of extractall is logged and the row marked all the same.            *)
Get(h) ==
    /\ tpc[h] = "get"
    /\ \/ /\ Fault("get") \/ (Nfs /\ Analysis(tjob[h]).state = "deleted" /\ UNCHANGED faults)
          /\ ThreadIdle(h)
          /\ UNCHANGED <<reportVars, cleaner, cur>>
       \/ /\ ~Nfs
          /\ Fault("bad")
          /\ cleaner' = cleaner \cup {tjob[h]}
          /\ lost' = lost \cup {ttask[h]}
          /\ ThreadIdle(h)
          /\ UNCHANGED <<report, cur>>
       \/ /\ ~Nfs
          /\ \/ Analysis(tjob[h]).state = "reported" /\ Fault("zip")
             \/ Analysis(tjob[h]).state = "deleted" /\ UNCHANGED faults
          /\ Dropped(ttask[h]) \/ UNCHANGED reportVars
          /\ cur' = [cur EXCEPT ![tjob[h]] = @ - 1]
          /\ ThreadIdle(h)
          /\ UNCHANGED cleaner
       \/ /\ ~Nfs
          /\ Analysis(tjob[h]).state = "reported"
          /\ Fault("unpack")
          /\ lost' = lost \cup {ttask[h]}
          /\ tpc' = [tpc EXCEPT ![h] = "store"]
          /\ UNCHANGED <<report, cleaner, cur, tjob, ttask>>
       \/ /\ Analysis(tjob[h]).state = "reported"
          /\ Unpacked(h)
          /\ tpc' = [tpc EXCEPT ![h] = "store"]
          /\ UNCHANGED <<cur, tjob, ttask, faults>>
    /\ UNCHANGED <<masterVars, nodeVars, loadVars, statusVars, listed, fq, failing>>

(* Mutant: the row is not marked as retrieved. *)
StoreForgets(h) ==
    /\ tpc[h] = "store"
    /\ row' = [row EXCEPT ![ttask[h]].finished = TRUE]
    /\ cur' = [cur EXCEPT ![tjob[h]] = @ - 1]
    /\ ThreadIdle(h)
    /\ UNCHANGED <<main, nodeVars, loadVars, statusVars, listed, fq, cleaner, failing, reportVars,
                   faults>>

(* Another thread at the same task may have moved its sample meanwhile. *)
Contended(h) ==
    /\ ~Nfs
    /\ ttask[h] \in HasFile
    /\ \/ row[ttask[h]].retrieved
       \/ \E g \in Threads \ {h} : tpc[g] = "store" /\ ttask[g] = ttask[h]

(* The sample moves to storage/binaries and the row is marked.  When one of these   *)
(* fails, fetch_latest_reports deletes the report it has just unpacked, and the row  *)
(* still waits.                                                                  *)
Store(h) ==
    /\ tpc[h] = "store"
    /\ \/ /\ row' = [row EXCEPT ![ttask[h]].finished = TRUE, ![ttask[h]].retrieved = TRUE]
          /\ UNCHANGED <<reportVars, faults>>
       \/ /\ Fault("store") \/ (Contended(h) /\ UNCHANGED faults)
          /\ IF Nfs THEN UNCHANGED reportVars ELSE Dropped(ttask[h])
          /\ UNCHANGED row
    /\ cur' = [cur EXCEPT ![tjob[h]] = @ - 1]
    /\ ThreadIdle(h)
    /\ UNCHANGED <<main, nodeVars, loadVars, statusVars, listed, fq, cleaner, failing>>

-----------------------------------------------------------------------------
(* The other threads of Retriever, and what happens to the process. *)

(* remove_from_worker and _delete_many: one node's share of the queue.  When the *)
(* request fails, the entries are gone all the same.                          *)
RemoveFromWorker(n) ==
    /\ \E j \in cleaner : j[1] = n
    /\ cleaner' = {j \in cleaner : j[1] # n}
    /\ \/ /\ worker' = [worker EXCEPT ![n] =
                          [i \in Ids |-> IF <<n, i>> \in cleaner
                                         THEN [worker[n][i] EXCEPT !.state = "deleted"]
                                         ELSE worker[n][i]]]
          /\ UNCHANGED faults
       \/ Fault("delete") /\ UNCHANGED worker
    /\ UNCHANGED <<masterVars, enabled, loadVars, statusVars, listed, fq, cur, failing,
                   threadVars, reportVars>>

(* failed_cleaner: an analysis that failed on the worker.  It is queued for         *)
(* deletion at once, and its row committed after the list.                        *)
FailedCleaner(j) ==
    /\ j[1] \in enabled
    /\ Analysis(j).state = "failed"
    /\ cleaner' = cleaner \cup {j}
    /\ \/ \E t \in Tasks :
             /\ row[t].state = "pushed" /\ row[t].job = j
             /\ SetMain(t, "failed_reporting")
             /\ failing' = failing \cup {j}
             /\ lost' = lost \cup {t}
       \/ /\ \A t \in Tasks : row[t].job # j
          /\ UNCHANGED <<main, failing, lost>>
    /\ UNCHANGED <<row, nodeVars, loadVars, statusVars, listed, fq, cur, threadVars, report,
                   faults>>

FailedCommit ==
    /\ failing # {}
    /\ failing' = {}
    /\ row' = [t \in Tasks |->
                 IF row[t].state = "pushed" /\ row[t].job \in failing
                 THEN [row[t] EXCEPT !.finished = TRUE, !.retrieved = TRUE, !.notificated = TRUE]
                 ELSE row[t]]
    /\ UNCHANGED <<main, nodeVars, loadVars, statusVars, listed, fq, cur, cleaner, threadVars,
                   reportVars, faults>>

(* notification_loop: every row that is done and not yet notificated; the        *)
(* callback may not answer.                                                   *)
Notify(t) ==
    /\ Callback
    /\ row[t].finished /\ row[t].retrieved /\ ~row[t].notificated
    /\ SetMain(t, "reported")
    /\ \/ row' = [row EXCEPT ![t].notificated = TRUE] /\ UNCHANGED faults
       \/ Fault("callback") /\ UNCHANGED row
    /\ UNCHANGED <<nodeVars, loadVars, statusVars, queueVars, threadVars,
                   reportVars>>

(* cron_cleaner deletes what has been notificated, from another process.  A row  *)
(* without a node among them makes it raise before it deletes anything.        *)
CronCleaner ==
    /\ Callback
    /\ LET done == {row[t].job : t \in {u \in Tasks : row[u].notificated}} IN
       /\ done # {} /\ NoJob \notin done
       /\ worker' = [n \in Nodes |-> [i \in Ids |->
                       IF <<n, i>> \in done THEN [worker[n][i] EXCEPT !.state = "deleted"]
                                            ELSE worker[n][i]]]
    /\ UNCHANGED <<masterVars, enabled, loadVars, statusVars, queueVars,
                   threadVars, reportVars, faults>>

(* NodeApi.delete or --disable, and --enable. *)
Disable(n) ==
    /\ Fault("disable")
    /\ n \in enabled
    /\ enabled' = enabled \ {n}
    /\ UNCHANGED <<masterVars, worker, loadVars, statusVars, queueVars,
                   threadVars, reportVars>>

Enable(n) ==
    /\ n \notin enabled
    /\ enabled' = enabled \cup {n}
    /\ UNCHANGED <<masterVars, worker, loadVars, statusVars, queueVars,
                   threadVars, reportVars, faults>>

(* The web removes a task. *)
RemoveTask(t) ==
    /\ Fault("remove")
    /\ main[t] # "deleted"
    /\ main' = [main EXCEPT ![t] = "deleted"]
    /\ UNCHANGED <<row, nodeVars, loadVars, statusVars, queueVars, threadVars,
                   reportVars>>

(* dist.py ends and starts again: its threads and queues are gone, and a report   *)
(* that was unpacked is not marked as retrieved.                                 *)
Restart ==
    /\ Fault("restart")
    /\ statuses' = [n \in Nodes |-> -1]
    /\ fails' = [n \in Nodes |-> 0]
    /\ spc' = "node" /\ snode' = AnyNode /\ rest' = {} /\ asked' = FALSE /\ quota' = 0
    /\ todo' = {} /\ skipped' = FALSE /\ sent' = <<NoTask, NoId, FALSE>>
    /\ listed' = {}
    /\ fq' = [j \in Jobs |-> 0]
    /\ cur' = [j \in Jobs |-> 0]
    /\ cleaner' = {} /\ failing' = {}
    /\ tpc' = [h \in Threads |-> "idle"]
    /\ tjob' = [h \in Threads |-> NoJob]
    /\ ttask' = [h \in Threads |-> NoTask]
    /\ lost' = lost \cup {ttask[h] : h \in {g \in Threads : tpc[g] = "store"}}
    /\ UNCHANGED <<masterVars, nodeVars, report>>

-----------------------------------------------------------------------------
StatusThread ==
    \/ \E n \in Nodes : NodeUp(n) \/ NodeDown(n)
    \/ Balance \/ ListTasks
    \/ \E t \in Tasks : AddRow(t)
    \/ AddDone \/ Upload \/ Post \/ Commit \/ Mark

Fetcher == (\E n \in Nodes : FetchList(n)) \/ (\E j \in Jobs : FetchItem(j))

FetchThread(h) == (\E j \in Jobs : Take(h, j)) \/ Query(h) \/ Get(h) \/ Store(h)

OtherThreads ==
    \/ \E n \in Nodes : RemoveFromWorker(n)
    \/ \E j \in Jobs : FailedCleaner(j)
    \/ FailedCommit
    \/ \E t \in Tasks : Notify(t)
    \/ CronCleaner

Environment ==
    \/ \E n \in Nodes, i \in Ids : Analyse(n, i)
    \/ \E n \in Nodes : Disable(n) \/ Enable(n)
    \/ \E t \in Tasks : RemoveTask(t)
    \/ Restart

Next == StatusThread \/ Fetcher \/ (\E h \in Threads : FetchThread(h))
        \/ OtherThreads \/ Environment

Spec == Init /\ [][Next]_vars

(* Every thread of dist.py runs on; a worker ends its analyses; a node that was *)
(* disabled is enabled again; every third list of the fetcher is complete; and   *)
(* fetcher_queue is first in, first out.                                        *)
Fairness ==
    /\ WF_vars(StatusThread)
    /\ \A n \in Nodes : /\ WF_vars(RemoveFromWorker(n)) /\ WF_vars(Enable(n))
                        /\ SF_vars(FetchList(n) /\ listed' = Listed(n))
    /\ \A j \in Jobs : /\ SF_vars(\E h \in Threads : Take(h, j))
                       /\ WF_vars(FetchItem(j)) /\ WF_vars(FailedCleaner(j))
    /\ WF_vars(FailedCommit)
    /\ \A h \in Threads : WF_vars(Query(h)) /\ WF_vars(Get(h)) /\ WF_vars(Store(h))
    /\ \A n \in Nodes, i \in Ids : WF_vars(Analyse(n, i))

FairSpec == Spec /\ Fairness

-----------------------------------------------------------------------------
(* Properties. *)

(* A task that the master shows as distributed has a row that names a worker,  *)
(* and what that worker was given is this task.                               *)
(* StatusThread writes the row and the status in two steps, deletes and         *)
(* re-creates rows, and marks a task it finds pending with a row as             *)
(* distributed (dist.py 877-887): a task marked without an analysis would wait  *)
(* for ever.                                                                 *)
DistributedIsThere ==
    \A t \in Tasks :
        main[t] = "distributed" =>
            /\ row[t].state = "pushed"
            /\ Analysis(row[t].job).task = t

(* No analysis is deleted on its worker while the master still waits for it      *)
(* and has no report: the fetcher, the fetching threads and failed_cleaner put   *)
(* analyses into cleaner_queue on what they read of the row before.  Excepted is  *)
(* what dist.py loses: a report its handler of an exception removes after the id  *)
(* was queued for deletion (dist.py 763-797), an answer 400, and an analysis that  *)
(* failed, whose row is committed after its id was queued (dist.py 527-535).       *)
NeededKept ==
    \A t \in Tasks :
        (row[t].state = "pushed" /\ ~row[t].retrieved
            /\ Analysis(row[t].job).state = "deleted") => report[t] = t \/ t \in lost

(* The folder of a task on the master never has the report of another task. *)
ReportAttributed == \A t \in Tasks : report[t] \in {NoTask, t}

(* A row that is retrieved has its report, or the analysis failed and            *)
(* failed_cleaner marked the row.  Excepted is an archive that extractall cannot  *)
(* write (dist.py 764), whose row is marked too, and a report that another thread  *)
(* at the same analysis has removed.                                            *)
RetrievedIsThere ==
    \A t \in Tasks :
        (row[t].state = "pushed" /\ row[t].retrieved) => report[t] = t \/ t \in lost

(* A report that could not be fetched: the id stays in current_queue. *)
Abandoned(t) ==
    /\ row[t].state = "pushed"
    /\ cur[row[t].job] > 0
    /\ \A h \in Threads : tjob[h] # row[t].job

(* An analysis deleted on its worker before its row was marked, and a restart or a   *)
(* failure between the two: the worker does not list it any more.                   *)
Orphaned(t) ==
    /\ t \in lost
    /\ row[t].state = "pushed" /\ ~row[t].retrieved
    /\ Analysis(row[t].job).state = "deleted"

(* Every pending task is settled: its report is retrieved, it is given up, or the  *)
(* web has removed it.  It takes StatusThread to push it, the worker to end, and   *)
(* the threads of Retriever to find and fetch it, whatever fails once and whatever  *)
(* is queued twice.  Excepted is a report whose fetching thread left the round by   *)
(* continue, past the removal from current_queue (dist.py 719, 737, 748), and one   *)
(* whose analysis was deleted first (dist.py 763, 786).                           *)
EveryTaskEnds ==
    \A t \in Tasks :
        main[t] = "pending" ~> \/ row[t].retrieved
                               \/ main[t] \in {"deleted", "failed_reporting"}
                               \/ Abandoned(t) \/ Orphaned(t)

=============================================================================
