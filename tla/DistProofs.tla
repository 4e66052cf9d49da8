----------------------------- MODULE DistProofs -----------------------------
(***************************************************************************)
(* For any number of tasks, workers, fetching threads and failures: what     *)
(* dist.py shows as distributed is at a worker, no analysis the master still *)
(* waits for is deleted there, and a report that is retrieved is the one of  *)
(* its task.                                                                 *)
(*                                                                           *)
(* None of this is inductive.  The row and the status of a task are written  *)
(* by several threads on what they have read before, so the invariant says   *)
(* what is still true of what they have read: of the list StatusThread works *)
(* on and of the task it submits (Listing, Sending), of the analyses in the  *)
(* fetcher's list and the queues and of those whose rows failed_cleaner has  *)
(* not committed (Queued, Cleaning), and of the row a fetching thread has    *)
(* found (Held).                                                             *)
(***************************************************************************)
EXTENDS Dist, FiniteSetTheorems, TLAPS

Submits == spc \in {"push", "commit", "mark"}

(* Where StatusThread is in submit_tasks: in the list of pending tasks, or in *)
(* that of rows without a node.                                              *)
AddPhase == spc = "add" \/ (Submits /\ sent[3])
UploadPhase == spc = "upload" \/ (Submits /\ ~sent[3])

(* What the types rest on: the limit covers the list, and current_queue has   *)
(* the analysis of a thread as often as there are threads at it.             *)
StatusOK ==
    /\ spc # "node" => snode \in Nodes
    /\ Submits => sent[1] \in Tasks
    /\ spc \in {"commit", "mark"} => sent[2] \in Ids

TodoFits == AddPhase => Cardinality(todo) <= quota

ThreadOK ==
    \A h \in Threads : /\ tpc[h] # "idle" <=> tjob[h] # NoJob
                       /\ tpc[h] \in {"get", "store"} => ttask[h] \in Tasks

At(j) == {h \in Threads : tjob[h] = j}

CurCounts == \A j \in Jobs : Cardinality(At(j)) <= cur[j]

TypeInv == TypeOK /\ StatusOK /\ TodoFits /\ ThreadOK /\ CurCounts

(* The rows. *)
Flags ==
    \A t \in Tasks : /\ row[t].finished = row[t].retrieved
                     /\ row[t].notificated => row[t].retrieved
                     /\ row[t].state # "pushed" => row[t].job = NoJob

Placed ==
    \A t \in Tasks :
        row[t].state = "pushed" => /\ row[t].job \in Jobs
                                   /\ Analysis(row[t].job).task = t
                                   /\ Analysis(row[t].job).state # "none"
                                   /\ row[t].retrieved => Analysis(row[t].job).state # "working"

(* What StatusThread works on. *)
Sending ==
    /\ spc \in {"push", "commit"} => row[sent[1]].state = "new" /\ ~row[sent[1]].retrieved
    /\ spc = "commit" => worker[snode][sent[2]] = [task |-> sent[1], state |-> "working"]
    /\ spc = "mark" => row[sent[1]].state = "pushed"

Listing ==
    /\ AddPhase => \A t \in todo : row[t].state # "new"
    /\ UploadPhase => \A t \in todo : row[t].state = "new" /\ ~row[t].retrieved
    /\ Submits => sent[1] \notin todo

(* What Retriever works on. *)
Fetchable(j) == Analysis(j).state \in {"reported", "deleted"}

Queued ==
    /\ \A j \in listed : Fetchable(j)
    /\ \A j \in Jobs : fq[j] > 0 => Fetchable(j)
    /\ \A h \in Threads : tpc[h] # "idle" => Fetchable(tjob[h])

HasReport(t) == report[t] = t \/ t \in lost

Held ==
    \A h \in Threads :
        /\ tpc[h] \in {"get", "store"} =>
              row[ttask[h]].state = "pushed" /\ row[ttask[h]].job = tjob[h]
        /\ tpc[h] = "store" => HasReport(ttask[h])

Cleaning ==
    /\ \A j \in cleaner :
          /\ Analysis(j).state \notin {"none", "working"}
          /\ \A t \in Tasks : Wanted(j, t) => HasReport(t)
    /\ \A j \in failing :
          /\ Analysis(j).state \in {"failed", "deleted"}
          /\ \A t \in Tasks : row[t].state = "pushed" /\ row[t].job = j => t \in lost

RowInv == Flags /\ Placed
StatusInv == Sending /\ Listing
RetrieverInv == Queued /\ Held /\ Cleaning
Promises == DistributedIsThere /\ NeededKept /\ ReportAttributed /\ RetrievedIsThere

DistInv == RowInv /\ StatusInv /\ RetrieverInv /\ Promises

-----------------------------------------------------------------------------
(* Counting. *)

(* node_status never counts more analyses than there are ids. *)
LEMMA LoadBound == ASSUME NEW n \in Nodes PROVE Load(n) \in 0..MaxIds
<1> DEFINE W == {i \in Ids : worker[n][i].state = "working"}
<1>1. IsFiniteSet(Ids) /\ Cardinality(Ids) = MaxIds
  BY DistAssumption, FS_Interval DEF Ids
<1>2. IsFiniteSet(W) /\ Cardinality(W) <= MaxIds
  BY <1>1, FS_Subset
<1>3. Cardinality(W) \in Nat
  BY <1>2, FS_CardinalityType
<1> QED BY <1>2, <1>3, DistAssumption DEF Load

(* A query with a LIMIT has no more rows than the limit. *)
LEMMA LimitedFits ==
  ASSUME NEW S \in SUBSET Tasks, quota \in Nat, NEW L \in Limited(S)
  PROVE  L \subseteq S /\ L \subseteq Tasks /\ Cardinality(L) <= quota
<1>1. IsFiniteSet(S) /\ Cardinality(S) \in Nat
  BY DistAssumption, FS_Subset, FS_CardinalityType
<1> QED BY <1>1 DEF Limited

(* Taking a task off the list takes one off its length. *)
LEMMA TodoShrinks ==
  ASSUME todo \subseteq Tasks, NEW t \in todo
  PROVE  /\ Cardinality(todo) \in Nat \ {0}
         /\ Cardinality(todo \ {t}) = Cardinality(todo) - 1
<1>1. IsFiniteSet(todo)
  BY DistAssumption, FS_Subset
<1>2. Cardinality(todo \ {t}) = Cardinality(todo) - 1 /\ IsFiniteSet(todo \ {t})
  BY <1>1, FS_RemoveElement
<1>3. Cardinality(todo) \in Nat /\ Cardinality(todo \ {t}) \in Nat
  BY <1>1, <1>2, FS_CardinalityType
<1> QED BY <1>2, <1>3

(* The threads at an analysis can be counted. *)
LEMMA AtFinite ==
  ASSUME NEW j
  PROVE  IsFiniteSet(At(j)) /\ Cardinality(At(j)) \in Nat
<1>1. IsFiniteSet(At(j))
  BY DistAssumption, FS_Subset DEF At
<1> QED BY <1>1, FS_CardinalityType

(* A thread that is at an analysis is counted there. *)
LEMMA AtCounted ==
  ASSUME NEW h \in Threads
  PROVE  Cardinality(At(tjob[h])) >= 1
<1>1. h \in At(tjob[h])
  BY DEF At
<1>2. IsFiniteSet(At(tjob[h])) /\ Cardinality(At(tjob[h])) \in Nat
  BY AtFinite
<1>3. Cardinality(At(tjob[h])) # 0
  BY <1>1, <1>2, FS_EmptySet
<1> QED BY <1>2, <1>3

(* The thread leaves its analysis: no other analysis loses or gains a thread. *)
LEMMA ThreadLeaves ==
  ASSUME NEW h \in Threads, NEW k \in Jobs, tjob \in [Threads -> Jobs \cup {NoJob}],
         tjob[h] = k, tjob' = [tjob EXCEPT ![h] = NoJob]
  PROVE  /\ Cardinality(At(k)') = Cardinality(At(k)) - 1
         /\ \A j \in Jobs : j # k => At(j)' = At(j)
<1>0. NoJob \notin Jobs
  BY DistAssumption DEF NoJob, Jobs
<1>1. At(k)' = At(k) \ {h} /\ h \in At(k)
  BY <1>0 DEF At
<1>2. \A j \in Jobs : j # k => At(j)' = At(j)
  BY <1>0 DEF At
<1>3. Cardinality(At(k) \ {h}) = Cardinality(At(k)) - 1
  BY <1>1, AtFinite, FS_RemoveElement
<1> QED BY <1>1, <1>2, <1>3

(* It takes one. *)
LEMMA ThreadTakes ==
  ASSUME NEW h \in Threads, NEW k \in Jobs, tjob \in [Threads -> Jobs \cup {NoJob}],
         tjob[h] = NoJob, tjob' = [tjob EXCEPT ![h] = k]
  PROVE  /\ Cardinality(At(k)') = Cardinality(At(k)) + 1
         /\ \A j \in Jobs : j # k => At(j)' = At(j)
<1>0. NoJob \notin Jobs
  BY DistAssumption DEF NoJob, Jobs
<1>1. At(k)' = At(k) \cup {h} /\ h \notin At(k)
  BY <1>0 DEF At
<1>2. \A j \in Jobs : j # k => At(j)' = At(j)
  BY <1>0 DEF At
<1>3. Cardinality(At(k) \cup {h}) = Cardinality(At(k)) + 1
  BY <1>1, AtFinite, FS_AddElement
<1> QED BY <1>1, <1>2, <1>3

-----------------------------------------------------------------------------
(* Types. *)

(* TypeInv holds at the start. *)
LEMMA InitType == Init => TypeInv
<1> SUFFICES ASSUME Init PROVE TypeInv
  OBVIOUS
<1> USE DistAssumption DEF Init
<1>1. MasterTypeOK /\ NodeTypeOK /\ LoadTypeOK
  BY DEF MasterTypeOK, NodeTypeOK, LoadTypeOK, NoRow, RowType, AnalysisType
<1>2. StatusTypeOK
  BY DEF StatusTypeOK
<1>3. QueueTypeOK /\ ThreadTypeOK
  BY DEF QueueTypeOK, ThreadTypeOK
<1>4. StatusOK /\ TodoFits /\ ThreadOK
  BY DEF StatusOK, TodoFits, AddPhase, ThreadOK, Submits
<1>5. CurCounts
  <2>1. \A j \in Jobs : At(j) = {}
    BY DEF At, Jobs, NoJob
  <2>2. \A j \in Jobs : cur[j] = 0 /\ Cardinality(At(j)) = 0
    BY <2>1, FS_EmptySet
  <2> QED BY <2>2 DEF CurCounts
<1>6. report \in [Tasks -> Tasks \cup {NoTask}] /\ lost \subseteq Tasks /\ faults \in 0..MaxFaults
  OBVIOUS
<1> QED BY <1>1, <1>2, <1>3, <1>4, <1>5, <1>6 DEF TypeInv, TypeOK

(* What a step leaves as it is keeps its type. *)
LEMMA MasterKept == ASSUME MasterTypeOK, UNCHANGED masterVars PROVE MasterTypeOK'
  BY DEF MasterTypeOK, masterVars

(* What leaves the nodes alone keeps their type. *)
LEMMA NodesKept == ASSUME NodeTypeOK, UNCHANGED nodeVars PROVE NodeTypeOK'
  BY DEF NodeTypeOK, nodeVars

(* What leaves the load of the nodes alone keeps its type. *)
LEMMA LoadKept == ASSUME LoadTypeOK, UNCHANGED loadVars PROVE LoadTypeOK'
  BY DEF LoadTypeOK, loadVars

(* What leaves StatusThread alone keeps its variables and its list. *)
LEMMA StatusKept ==
  ASSUME StatusTypeOK, StatusOK, TodoFits, UNCHANGED statusVars
  PROVE  StatusTypeOK' /\ StatusOK' /\ TodoFits'
  BY DEF StatusTypeOK, StatusOK, TodoFits, AddPhase, Submits, statusVars

(* What leaves the queues alone keeps their type. *)
LEMMA QueueKept == ASSUME QueueTypeOK, UNCHANGED queueVars PROVE QueueTypeOK'
  BY DEF QueueTypeOK, queueVars

(* What leaves the fetching threads alone keeps what is said of them. *)
LEMMA ThreadsKept ==
  ASSUME ThreadTypeOK, ThreadOK, CurCounts, UNCHANGED <<cur, threadVars>>
  PROVE  ThreadTypeOK' /\ ThreadOK' /\ CurCounts'
  BY DEF ThreadTypeOK, ThreadOK, CurCounts, At, threadVars

(* What leaves the reports alone keeps their type. *)
LEMMA ReportsKept ==
  ASSUME TypeOK, UNCHANGED reportVars
  PROVE  report' \in [Tasks -> Tasks \cup {NoTask}] /\ lost' \subseteq Tasks
  BY DEF TypeOK, reportVars

(* The same for Retriever as a whole. *)
LEMMA RetrieverKept ==
  ASSUME TypeInv, UNCHANGED <<queueVars, threadVars, reportVars>>
  PROVE  /\ QueueTypeOK' /\ ThreadTypeOK' /\ ThreadOK' /\ CurCounts'
         /\ report' \in [Tasks -> Tasks \cup {NoTask}] /\ lost' \subseteq Tasks
  BY QueueKept, ThreadsKept, ReportsKept DEF TypeInv, TypeOK, queueVars

(* A fault is counted within its bound. *)
LEMMA FaultType == ASSUME NEW f, Fault(f), TypeOK PROVE faults' \in 0..MaxFaults
  BY DistAssumption DEF Fault, TypeOK

(* set_status of the master keeps the type of its table. *)
LEMMA SetMainType ==
  ASSUME NEW t \in Tasks, MasterTypeOK,
         NEW s \in {"distributed", "reported", "failed_reporting", "deleted"}, SetMain(t, s)
  PROVE  main' \in [Tasks -> {"pending", "distributed", "reported", "failed_reporting", "deleted"}]
  BY DEF SetMain, MasterTypeOK

(* StatusThread: the round of the nodes. *)
LEMMA NodesType ==
  ASSUME TypeInv, NEW n \in Nodes, NodeUp(n) \/ NodeDown(n)
  PROVE  TypeInv'
<1> USE DistAssumption DEF TypeInv, TypeOK
<1>0. /\ UNCHANGED <<masterVars, nodeVars, queueVars, threadVars, reportVars>>
      /\ Asks(n)
  BY DEF NodeUp, NodeDown
<1>1. MasterTypeOK' /\ NodeTypeOK'
  BY <1>0, MasterKept, NodesKept
<1>2. LoadTypeOK'
  <2>1. CASE NodeUp(n)
    BY <2>1, LoadBound DEF NodeUp, LoadTypeOK, Current
  <2>2. CASE NodeDown(n)
    BY <2>2 DEF NodeDown, LoadTypeOK, Current
  <2> QED BY <2>1, <2>2
<1>3. StatusTypeOK' /\ StatusOK' /\ TodoFits'
  <2>1. CASE NodeUp(n)
    BY <2>1 DEF NodeUp, Asks, NodeTypeOK, StatusTypeOK, StatusOK, TodoFits, AddPhase, Submits
  <2>2. CASE NodeDown(n)
    BY <2>2 DEF NodeDown, Asks, NodeTypeOK, StatusTypeOK, StatusOK, TodoFits, AddPhase, Submits
  <2> QED BY <2>1, <2>2
<1>4. faults' \in 0..MaxFaults
  BY FaultType DEF NodeUp, NodeDown
<1> QED BY <1>0, <1>1, <1>2, <1>3, <1>4, RetrieverKept

(* Balance keeps TypeInv. *)
LEMMA BalanceType == ASSUME TypeInv, Balance PROVE TypeInv'
<1> USE DistAssumption DEF TypeInv, TypeOK
<1>1. MasterTypeOK' /\ NodeTypeOK' /\ LoadTypeOK'
  BY MasterKept, NodesKept, LoadKept DEF Balance
<1>2. StatusOK' /\ TodoFits'
  BY DEF Balance, NodeDone, Known, StatusOK, TodoFits, AddPhase, Submits
<1>3. StatusTypeOK'
  <2>0. UNCHANGED <<rest, todo, skipped, sent>>
    BY DEF Balance
  <2>1. CASE NodeDone
    BY <2>0, <2>1 DEF NodeDone, StatusTypeOK
  <2>2. CASE \E n \in Known : /\ snode' = n /\ quota' = Slots[n] - statuses[n]
                              /\ Slots[n] > statuses[n] /\ asked' = FALSE /\ spc' = "list"
    <3>1. PICK n \in Known : /\ snode' = n /\ quota' = Slots[n] - statuses[n]
                             /\ Slots[n] > statuses[n] /\ asked' = FALSE /\ spc' = "list"
      BY <2>2
    <3>2. n \in Nodes /\ Slots[n] \in Nat /\ statuses[n] \in Int
      BY DEF Known, LoadTypeOK
    <3>3. snode' \in Nodes /\ quota' \in Nat
      BY <3>1, <3>2
    <3> QED BY <2>0, <3>1, <3>3 DEF StatusTypeOK
  <2> QED BY <2>1, <2>2 DEF Balance
<1> QED BY <1>1, <1>2, <1>3, RetrieverKept DEF Balance

(* StatusThread: submit_tasks. *)
LEMMA ReturnedType ==
  ASSUME StatusTypeOK, StatusOK, spc # "node", Returned, UNCHANGED <<rest, sent>>,
         todo' \subseteq Tasks
  PROVE  StatusTypeOK' /\ StatusOK' /\ TodoFits'
<1>1. CASE asked
  BY <1>1 DEF Returned, StatusTypeOK, StatusOK, TodoFits, AddPhase, Submits
<1>2. CASE ~asked
  <2>1. spc' = "node" /\ snode' = AnyNode /\ asked' = FALSE /\ quota' = 0 /\ skipped' = FALSE
    BY <1>2 DEF Returned, NodeDone
  <2>2. StatusTypeOK'
    BY <2>1 DEF StatusTypeOK
  <2> QED BY <2>1, <2>2 DEF StatusOK, TodoFits, AddPhase, Submits
<1> QED BY <1>1, <1>2

(* ListTasks keeps TypeInv. *)
LEMMA ListTasksType == ASSUME TypeInv, ListTasks PROVE TypeInv'
<1> USE DistAssumption DEF TypeInv, TypeOK
<1> DEFINE found == {t \in Tasks : Repaired(t) = "pending" /\ (asked => Want[t] = snode)}
<1>1. PICK L \in Limited(found) : todo' = L
  BY DEF ListTasks
<1>2. L \subseteq Tasks /\ Cardinality(L) <= quota
  BY LimitedFits DEF StatusTypeOK
<1>3. MasterTypeOK'
  BY DEF ListTasks, MasterTypeOK, Repaired, NoRow, RowType
<1>4. StatusTypeOK' /\ StatusOK' /\ TodoFits'
  <2>1. CASE Returned
    BY <1>1, <1>2, <2>1, ReturnedType DEF ListTasks
  <2>2. CASE spc' = "add" /\ UNCHANGED <<snode, asked, quota, skipped>>
    BY <1>1, <1>2, <2>2 DEF ListTasks, StatusTypeOK, StatusOK, TodoFits, AddPhase, Submits
  <2> QED BY <2>1, <2>2 DEF ListTasks
<1> QED BY <1>3, <1>4, NodesKept, LoadKept, RetrieverKept DEF ListTasks

(* AddRow keeps TypeInv. *)
LEMMA AddRowType == ASSUME TypeInv, NEW t \in Tasks, AddRow(t) PROVE TypeInv'
<1> USE DistAssumption DEF TypeInv, TypeOK
<1>1. /\ Cardinality(todo) \in Nat \ {0}
      /\ Cardinality(todo \ {t}) = Cardinality(todo) - 1
      /\ Cardinality(todo) <= quota
  BY TodoShrinks DEF AddRow, StatusTypeOK, TodoFits, AddPhase
<1>2. StatusTypeOK' /\ StatusOK' /\ TodoFits'
  <2>0. /\ spc = "add" /\ todo' = todo \ {t} /\ UNCHANGED <<snode, rest, asked>>
        /\ skipped' \in BOOLEAN
    BY DEF AddRow, StatusTypeOK
  <2>1. CASE UNCHANGED <<spc, sent, quota>>
    BY <1>1, <2>0, <2>1 DEF StatusTypeOK, StatusOK, TodoFits, AddPhase, Submits
  <2>2. CASE spc' = "push" /\ sent' = <<t, NoId, TRUE>> /\ quota' = quota - 1
    <3>0. quota \in Nat /\ quota' \in Nat
      BY <1>1, <2>2 DEF StatusTypeOK
    <3>1. sent' \in (Tasks \cup {NoTask}) \X (Ids \cup {NoId}) \X BOOLEAN
      BY <2>2
    <3>2. StatusTypeOK'
      BY <2>0, <2>2, <3>0, <3>1 DEF StatusTypeOK
    <3>3. Cardinality(todo') <= quota'
      BY <1>1, <2>0, <2>2, <3>0
    <3> QED BY <2>0, <2>2, <3>2, <3>3 DEF StatusOK, TodoFits, Submits
  <2> QED BY <2>1, <2>2 DEF AddRow
<1>3. MasterTypeOK'
  <2>1. row' \in [Tasks -> RowType]
    <3>1. [NoRow EXCEPT !.state = "new"] \in RowType
      BY DEF RowType, NoRow
    <3>2. row' = row \/ row' = [row EXCEPT ![t] = [NoRow EXCEPT !.state = "new"]]
      BY DEF AddRow, masterVars
    <3> QED BY <3>1, <3>2 DEF MasterTypeOK
  <2>2. main' = main \/ SetMain(t, "distributed") \/ SetMain(t, "deleted")
    BY DEF AddRow, masterVars
  <2> QED BY <2>1, <2>2, SetMainType DEF MasterTypeOK
<1>4. faults' \in 0..MaxFaults
  BY FaultType DEF AddRow
<1> QED BY <1>2, <1>3, <1>4, NodesKept, LoadKept, RetrieverKept DEF AddRow

(* AddDone keeps TypeInv. *)
LEMMA AddDoneType == ASSUME TypeInv, AddDone PROVE TypeInv'
<1> USE DistAssumption DEF TypeInv, TypeOK
<1> DEFINE found == {t \in Tasks : row[t].state = "new" /\ ~row[t].finished}
<1>1. StatusTypeOK' /\ StatusOK' /\ TodoFits'
  <2>1. CASE Returned /\ UNCHANGED todo
    BY <2>1, ReturnedType DEF AddDone, StatusTypeOK
  <2>2. CASE /\ \E L \in Limited(found) : todo' = L
             /\ spc' = "upload" /\ UNCHANGED <<snode, asked, quota, skipped>>
    <3>1. todo' \subseteq Tasks
      BY <2>2 DEF Limited
    <3> QED BY <2>2, <3>1 DEF AddDone, StatusTypeOK, StatusOK, TodoFits, AddPhase, Submits
  <2> QED BY <2>1, <2>2 DEF AddDone
<1> QED BY <1>1, MasterKept, NodesKept, LoadKept, RetrieverKept DEF AddDone

(* Upload keeps TypeInv. *)
LEMMA UploadType == ASSUME TypeInv, Upload PROVE TypeInv'
<1> USE DistAssumption DEF TypeInv, TypeOK
<1>1. StatusTypeOK' /\ StatusOK' /\ TodoFits'
  <2>1. CASE todo = {} /\ Returned /\ UNCHANGED <<todo, sent>>
    BY <2>1, ReturnedType DEF Upload, StatusTypeOK
  <2>2. CASE \E t \in todo : /\ todo' = todo \ {t}
                             /\ sent' = <<t, NoId, FALSE>>
                             /\ spc' = "push"
                             /\ UNCHANGED <<snode, asked, quota, skipped>>
    <3>1. PICK t \in todo : /\ todo' = todo \ {t}
                            /\ sent' = <<t, NoId, FALSE>>
                            /\ spc' = "push"
                            /\ UNCHANGED <<snode, asked, quota, skipped>>
      BY <2>2
    <3>2. t \in Tasks /\ sent' \in (Tasks \cup {NoTask}) \X (Ids \cup {NoId}) \X BOOLEAN
      BY <3>1 DEF StatusTypeOK
    <3>3. StatusTypeOK'
      BY <3>1, <3>2 DEF Upload, StatusTypeOK
    <3> QED BY <3>1, <3>2, <3>3 DEF Upload, StatusOK, TodoFits, AddPhase, Submits
  <2> QED BY <2>1, <2>2 DEF Upload
<1> QED BY <1>1, MasterKept, NodesKept, LoadKept, RetrieverKept DEF Upload

(* node_submit_task has failed: the row goes or stays, and it is the next      *)
(* task's turn.                                                               *)
LEMMA NotSubmittedType ==
  ASSUME StatusTypeOK, StatusOK, TodoFits, Submits, NotSubmitted,
         UNCHANGED <<snode, rest, asked, quota, todo, skipped>>
  PROVE  StatusTypeOK' /\ StatusOK' /\ TodoFits'
<1>1. spc' \in {"add", "upload"} /\ (spc' = "add" => sent[3])
  BY DEF NotSubmitted
<1>2. sent' \in (Tasks \cup {NoTask}) \X (Ids \cup {NoId}) \X BOOLEAN
  BY DEF NotSubmitted
<1>3. StatusTypeOK'
  BY <1>1, <1>2 DEF StatusTypeOK
<1> QED BY <1>1, <1>3 DEF StatusOK, TodoFits, AddPhase, Submits

(* A row that a failed submission leaves is a row. *)
LEMMA RowAfterFailureType == ASSUME NEW r \in RowType PROVE RowAfterFailure(r) \in RowType
  BY DEF RowAfterFailure, RowType, NoRow

(* An exception while submitting keeps the master's tables. *)
LEMMA PostRaisesType ==
  ASSUME NEW t \in Tasks, MasterTypeOK, PostRaises(t)
  PROVE  MasterTypeOK'
<1> DEFINE r == [row[t] EXCEPT !.finished = TRUE, !.retrieved = TRUE]
<1>1. row[t] \in RowType /\ r \in RowType
  BY DEF MasterTypeOK, RowType
<1>2. CASE t \in HasFile
  <2>1. row' = [row EXCEPT ![t] = RowAfterFailure(r)] /\ SetMain(t, "failed_reporting")
    BY <1>2 DEF PostRaises, MasterTypeOK
  <2> QED BY <1>1, <2>1, RowAfterFailureType, SetMainType DEF MasterTypeOK
<1>3. CASE t \notin HasFile
  <2>1. row' = [row EXCEPT ![t] = RowAfterFailure(row[t])] /\ main' = main
    BY <1>3 DEF PostRaises, MasterTypeOK
  <2> QED BY <1>1, <2>1, RowAfterFailureType DEF MasterTypeOK
<1> QED BY <1>2, <1>3

(* Post keeps TypeInv. *)
LEMMA PostType == ASSUME TypeInv, Post PROVE TypeInv'
<1> USE DistAssumption DEF TypeInv, TypeOK
<1> DEFINE t == sent[1]
<1>0. t \in Tasks /\ snode \in Nodes /\ Submits
  BY DEF Post, StatusOK, Submits
<1>1. NodeTypeOK'
  <2>1. CASE UNCHANGED worker
    BY <2>1 DEF Post, NodeTypeOK
  <2>2. CASE \E i \in Ids : worker' = [worker EXCEPT ![snode][i] = [task |-> t, state |-> "working"]]
    <3>1. [task |-> t, state |-> "working"] \in AnalysisType
      BY <1>0 DEF AnalysisType
    <3> QED BY <1>0, <2>2, <3>1 DEF Post, NodeTypeOK
  <2> QED BY <2>1, <2>2 DEF Post
<1>2. MasterTypeOK'
  <2>1. CASE PostRaises(t)
    BY <1>0, <2>1, PostRaisesType
  <2>2. CASE UNCHANGED masterVars
    BY <2>2, MasterKept
  <2>3. CASE row' = [row EXCEPT ![t] = RowAfterFailure(@)] /\ UNCHANGED main
    <3>1. row[t] \in RowType
      BY <1>0 DEF MasterTypeOK
    <3> QED BY <1>0, <2>3, <3>1, RowAfterFailureType DEF MasterTypeOK
  <2> QED BY <2>1, <2>2, <2>3 DEF Post
<1>3. StatusTypeOK' /\ StatusOK' /\ TodoFits'
  <2>0. UNCHANGED <<snode, rest, asked, quota, todo, skipped>>
    BY DEF Post
  <2>1. CASE NotSubmitted
    BY <1>0, <2>0, <2>1, NotSubmittedType
  <2>2. CASE \E i \in Ids : sent' = <<t, i, sent[3]>> /\ spc' = "commit"
    <3>1. PICK i \in Ids : sent' = <<t, i, sent[3]>> /\ spc' = "commit"
      BY <2>2
    <3>2. sent' \in (Tasks \cup {NoTask}) \X (Ids \cup {NoId}) \X BOOLEAN
      BY <1>0, <3>1 DEF StatusTypeOK
    <3>3. StatusTypeOK'
      BY <2>0, <3>1, <3>2 DEF StatusTypeOK
    <3> QED BY <1>0, <2>0, <3>1, <3>3 DEF StatusOK, TodoFits, AddPhase, Submits
  <2> QED BY <2>1, <2>2 DEF Post, PostRaises
<1>4. faults' \in 0..MaxFaults
  <2>1. faults' = faults \/ \E f \in {"lost", "unreachable", "file", "refused"} : Fault(f)
    BY DEF Post
  <2> QED BY <2>1, FaultType
<1> QED BY <1>1, <1>2, <1>3, <1>4, LoadKept, RetrieverKept DEF Post

(* Commit keeps TypeInv. *)
LEMMA CommitType == ASSUME TypeInv, Commit PROVE TypeInv'
<1> USE DistAssumption DEF TypeInv, TypeOK
<1> DEFINE t == sent[1]
           r == [row[t] EXCEPT !.state = "pushed", !.job = <<snode, sent[2]>>]
<1>1. t \in Tasks /\ <<snode, sent[2]>> \in Jobs
  BY DEF Commit, StatusOK, Submits, Jobs
<1>2. row[t] \in RowType /\ row \in [Tasks -> RowType]
  BY <1>1 DEF MasterTypeOK
<1>3. r \in RowType
  BY <1>1, <1>2 DEF RowType
<1>4. row' = [row EXCEPT ![t] = r] /\ main' = main
  BY <1>1, <1>2 DEF Commit
<1> HIDE DEF r, t
<1>5. MasterTypeOK'
  BY <1>2, <1>3, <1>4 DEF MasterTypeOK
<1>6. StatusTypeOK' /\ StatusOK' /\ TodoFits'
  BY DEF Commit, StatusTypeOK, StatusOK, TodoFits, AddPhase, Submits
<1> QED BY <1>5, <1>6, NodesKept, LoadKept, RetrieverKept DEF Commit

(* Mark keeps TypeInv. *)
LEMMA MarkType == ASSUME TypeInv, Mark PROVE TypeInv'
<1> USE DistAssumption DEF TypeInv, TypeOK
<1>1. sent[1] \in Tasks /\ Submits /\ NotSubmitted
  BY DEF Mark, StatusOK, Submits, NotSubmitted
<1>2. MasterTypeOK'
  BY <1>1, SetMainType DEF Mark, MasterTypeOK
<1>3. StatusTypeOK' /\ StatusOK' /\ TodoFits'
  BY <1>1, NotSubmittedType DEF Mark
<1> QED BY <1>2, <1>3, NodesKept, LoadKept, RetrieverKept DEF Mark

(* Retriever: a thread takes an analysis, goes on with it, or is done with it,  *)
(* whether or not it takes the analysis out of current_queue.                 *)
LEMMA TakeType == ASSUME TypeInv, NEW h \in Threads, NEW j \in Jobs, Take(h, j) PROVE TypeInv'
<1> USE DistAssumption DEF TypeInv, TypeOK
<1>0. j # NoJob /\ tjob[h] = NoJob
  BY DEF Take, ThreadOK, Jobs, NoJob
<1>1. QueueTypeOK'
  BY DEF Take, QueueTypeOK
<1>2. ThreadTypeOK' /\ ThreadOK'
  BY <1>0 DEF Take, ThreadTypeOK, ThreadOK
<1>3. CurCounts'
  <2>1. /\ Cardinality(At(j)') = Cardinality(At(j)) + 1
        /\ \A k \in Jobs : k # j => At(k)' = At(k)
    BY <1>0, ThreadTakes DEF Take, ThreadTypeOK
  <2>2. cur'[j] = cur[j] + 1 /\ \A k \in Jobs : k # j => cur'[k] = cur[k]
    BY DEF Take, QueueTypeOK
  <2>3. Cardinality(At(j)) \in Nat /\ cur[j] \in Nat
    BY AtFinite DEF QueueTypeOK
  <2> QED BY <2>1, <2>2, <2>3 DEF CurCounts
<1> QED BY <1>1, <1>2, <1>3, MasterKept, NodesKept, LoadKept, StatusKept, ReportsKept DEF Take

(* A thread that ends its round, with or without the removal from current_queue. *)
LEMMA IdleType ==
  ASSUME TypeInv, NEW h \in Threads, tpc[h] # "idle", ThreadIdle(h),
         cur' = cur \/ cur' = [cur EXCEPT ![tjob[h]] = @ - 1]
  PROVE  ThreadTypeOK' /\ ThreadOK' /\ CurCounts' /\ cur' \in [Jobs -> Nat]
<1> USE DistAssumption DEF TypeInv, TypeOK
<1> DEFINE k == tjob[h]
<1>0. k \in Jobs /\ NoJob \notin Jobs
  BY DEF ThreadOK, ThreadTypeOK, Jobs, NoJob
<1>1. ThreadTypeOK'
  BY DEF ThreadIdle, ThreadTypeOK
<1>2. ThreadOK'
  BY DEF ThreadIdle, ThreadTypeOK, ThreadOK
<1>3. /\ Cardinality(At(tjob[h])) \in Nat
      /\ Cardinality(At(tjob[h])) >= 1
      /\ Cardinality(At(tjob[h])) <= cur[tjob[h]]
      /\ cur[tjob[h]] \in Nat
  BY <1>0, AtFinite, AtCounted DEF CurCounts, QueueTypeOK
<1>4. cur' \in [Jobs -> Nat]
  <2>1. cur[k] - 1 \in Nat
    BY <1>3
  <2> QED BY <1>0, <2>1 DEF QueueTypeOK
<1>5. CurCounts'
  <2> SUFFICES ASSUME NEW j \in Jobs PROVE Cardinality(At(j)') <= cur'[j]
    BY DEF CurCounts
  <2>1. PICK l \in Jobs : l = tjob[h]
    BY <1>0
  <2>2. /\ Cardinality(At(l)') = Cardinality(At(l)) - 1
        /\ \A i \in Jobs : i # l => At(i)' = At(i)
    BY <2>1, ThreadLeaves DEF ThreadIdle, ThreadTypeOK
  <2>3. cur'[l] >= cur[l] - 1 /\ \A i \in Jobs : i # l => cur'[i] = cur[i]
    BY <1>3, <2>1 DEF QueueTypeOK
  <2>4. cur'[l] \in Nat /\ cur[l] \in Nat /\ Cardinality(At(l)) \in Nat
    BY <1>4, AtFinite DEF QueueTypeOK
  <2>5. CASE j = l
    BY <1>3, <2>1, <2>2, <2>3, <2>4, <2>5
  <2>6. CASE j # l
    BY <2>2, <2>3, <2>6 DEF CurCounts
  <2> QED BY <2>5, <2>6
<1> QED BY <1>1, <1>2, <1>4, <1>5

(* Query keeps TypeInv. *)
LEMMA QueryType == ASSUME TypeInv, NEW h \in Threads, Query(h) PROVE TypeInv'
<1> USE DistAssumption DEF TypeInv, TypeOK
<1>1. CASE \E t \in Tasks : /\ SetMain(t, "reported")
                            /\ tpc' = [tpc EXCEPT ![h] = "get"]
                            /\ ttask' = [ttask EXCEPT ![h] = t]
                            /\ UNCHANGED <<tjob, cleaner>>
  <2>1. MasterTypeOK'
    BY <1>1, SetMainType DEF Query, MasterTypeOK
  <2>2. ThreadTypeOK' /\ ThreadOK' /\ CurCounts'
    BY <1>1 DEF Query, ThreadTypeOK, ThreadOK, CurCounts, At
  <2> QED BY <1>1, <2>1, <2>2, NodesKept, LoadKept, StatusKept, QueueKept, ReportsKept
          DEF Query, queueVars
<1>2. CASE cleaner' = cleaner \cup {tjob[h]} /\ ThreadIdle(h) /\ UNCHANGED main
  <2>1. tjob[h] \in Jobs
    BY DEF Query, ThreadOK, ThreadTypeOK
  <2>2. ThreadTypeOK' /\ ThreadOK' /\ CurCounts'
    BY <1>2, IdleType DEF Query
  <2>3. QueueTypeOK'
    BY <1>2, <2>1 DEF Query, QueueTypeOK
  <2>4. MasterTypeOK'
    BY <1>2 DEF Query, MasterTypeOK
  <2> QED BY <2>2, <2>3, <2>4, NodesKept, LoadKept, StatusKept, ReportsKept DEF Query
<1> QED BY <1>1, <1>2 DEF Query

(* Get keeps TypeInv. *)
LEMMA GetType == ASSUME TypeInv, NEW h \in Threads, Get(h) PROVE TypeInv'
<1> USE DistAssumption DEF TypeInv, TypeOK
<1>1. tjob[h] \in Jobs /\ ttask[h] \in Tasks /\ tpc[h] # "idle"
  BY DEF Get, ThreadOK, ThreadTypeOK
<1>2. Analysis(tjob[h]).task \in Tasks \cup {NoTask}
  BY <1>1 DEF Analysis, NodeTypeOK, AnalysisType, Jobs
<1>3. /\ ThreadTypeOK' /\ ThreadOK' /\ CurCounts'
      /\ cur' \in [Jobs -> Nat]
  <2>1. CASE ThreadIdle(h)
    <3>1. cur' = cur \/ cur' = [cur EXCEPT ![tjob[h]] = @ - 1]
      BY DEF Get
    <3> QED BY <1>1, <2>1, <3>1, IdleType
  <2>2. CASE tpc' = [tpc EXCEPT ![h] = "store"] /\ UNCHANGED <<cur, tjob, ttask>>
    BY <1>1, <2>2 DEF ThreadTypeOK, ThreadOK, CurCounts, At, QueueTypeOK
  <2> QED BY <2>1, <2>2 DEF Get
<1>4. cleaner' \subseteq Jobs
  BY <1>1 DEF Get, Unpacked, QueueTypeOK
<1>5. report' \in [Tasks -> Tasks \cup {NoTask}] /\ lost' \subseteq Tasks
  BY <1>1, <1>2 DEF Get, Unpacked, Dropped, reportVars
<1>6. faults' \in 0..MaxFaults
  BY FaultType DEF Get
<1>7. QueueTypeOK'
  BY <1>3, <1>4 DEF Get, QueueTypeOK
<1> QED BY <1>3, <1>5, <1>6, <1>7, MasterKept, NodesKept, LoadKept, StatusKept DEF Get

(* A row that is marked is still one. *)
LEMMA RowMarked ==
  ASSUME MasterTypeOK, NEW t \in Tasks
  PROVE  /\ [row EXCEPT ![t].finished = TRUE, ![t].retrieved = TRUE] \in [Tasks -> RowType]
         /\ [row EXCEPT ![t].notificated = TRUE] \in [Tasks -> RowType]
<1>1. row \in [Tasks -> RowType] /\ row[t] \in RowType
  BY DEF MasterTypeOK
<1>2. [row EXCEPT ![t].finished = TRUE, ![t].retrieved = TRUE] \in [Tasks -> RowType]
  BY <1>1 DEF RowType
<1>3. [row EXCEPT ![t].notificated = TRUE] \in [Tasks -> RowType]
  BY <1>1 DEF RowType
<1> QED BY <1>2, <1>3

(* Store keeps TypeInv. *)
LEMMA StoreType == ASSUME TypeInv, NEW h \in Threads, Store(h) PROVE TypeInv'
<1> USE DistAssumption DEF TypeInv, TypeOK
<1>1. ttask[h] \in Tasks /\ tpc[h] # "idle"
  BY DEF Store, ThreadOK
<1>2. row' \in [Tasks -> RowType]
  <2>1. CASE row' = row
    BY <2>1 DEF MasterTypeOK
  <2>2. ASSUME NEW t \in Tasks,
               row' = [row EXCEPT ![t].finished = TRUE, ![t].retrieved = TRUE]
        PROVE  row' \in [Tasks -> RowType]
    BY <2>2, RowMarked
  <2> QED BY <1>1, <2>1, <2>2 DEF Store
<1>3. report' \in [Tasks -> Tasks \cup {NoTask}] /\ lost' \subseteq Tasks
  BY <1>1 DEF Store, Dropped, reportVars
<1>7. faults' \in 0..MaxFaults
  BY FaultType DEF Store
<1>4. MasterTypeOK'
  BY <1>2 DEF Store, MasterTypeOK
<1>5. ThreadTypeOK' /\ ThreadOK' /\ CurCounts' /\ cur' \in [Jobs -> Nat]
  BY <1>1, IdleType DEF Store
<1>6. QueueTypeOK'
  BY <1>5 DEF Store, QueueTypeOK
<1> QED BY <1>3, <1>4, <1>5, <1>6, <1>7, NodesKept, LoadKept, StatusKept DEF Store

(* FetchList and FetchItem keep TypeInv. *)
LEMMA FetchListType == ASSUME TypeInv, NEW n \in Nodes, FetchList(n) PROVE TypeInv'
<1> USE DistAssumption DEF TypeInv, TypeOK
<1>1. QueueTypeOK'
  BY DEF FetchList, Listed, QueueTypeOK
<1> QED BY <1>1, MasterKept, NodesKept, LoadKept, StatusKept, ThreadsKept, ReportsKept DEF FetchList

(* FetchItem keeps TypeInv. *)
LEMMA FetchItemType == ASSUME TypeInv, NEW j \in Jobs, FetchItem(j) PROVE TypeInv'
<1> USE DistAssumption DEF TypeInv, TypeOK
<1>1. fq' \in [Jobs -> 0..MaxDup] /\ cleaner' \subseteq Jobs
  BY DEF FetchItem, QueueTypeOK
<1>2. QueueTypeOK'
  BY <1>1 DEF FetchItem, QueueTypeOK
<1> QED BY <1>2, MasterKept, NodesKept, LoadKept, StatusKept, ThreadsKept, ReportsKept DEF FetchItem

(* The other threads, and what happens to the process. *)
LEMMA WorkerType ==
  ASSUME TypeInv, UNCHANGED enabled, worker' \in [Nodes -> [Ids -> AnalysisType]]
  PROVE  NodeTypeOK'
  BY DEF TypeInv, TypeOK, NodeTypeOK

(* An analysis whose state changes is an analysis. *)
LEMMA StateType ==
  ASSUME NodeTypeOK, NEW n \in Nodes, NEW i \in Ids,
         NEW s \in {"none", "working", "reported", "failed", "deleted"}
  PROVE  [worker[n][i] EXCEPT !.state = s] \in AnalysisType
<1>1. worker[n][i] \in AnalysisType
  BY DEF NodeTypeOK
<1> QED BY <1>1 DEF AnalysisType

(* Analyse keeps TypeInv. *)
LEMMA AnalyseType ==
  ASSUME TypeInv, NEW n \in Nodes, NEW i \in Ids, Analyse(n, i)
  PROVE  TypeInv'
<1> USE DistAssumption DEF TypeInv, TypeOK
<1>1. ASSUME NEW s \in {"reported", "failed"}, worker' = [worker EXCEPT ![n][i].state = s]
      PROVE  worker' \in [Nodes -> [Ids -> AnalysisType]]
  <2> DEFINE r == [worker[n][i] EXCEPT !.state = s]
  <2>1. r \in AnalysisType /\ worker' = [worker EXCEPT ![n][i] = r]
    BY <1>1, StateType
  <2> HIDE DEF r
  <2> QED BY <2>1 DEF NodeTypeOK
<1>2. worker' \in [Nodes -> [Ids -> AnalysisType]]
  BY <1>1 DEF Analyse
<1> QED BY <1>2, WorkerType, MasterKept, LoadKept, StatusKept, RetrieverKept DEF Analyse

(* RemoveFromWorker keeps TypeInv. *)
LEMMA RemoveFromWorkerType ==
  ASSUME TypeInv, NEW n \in Nodes, RemoveFromWorker(n)
  PROVE  TypeInv'
<1> USE DistAssumption DEF TypeInv, TypeOK
<1> DEFINE W == [i \in Ids |-> IF <<n, i>> \in cleaner
                               THEN [worker[n][i] EXCEPT !.state = "deleted"]
                               ELSE worker[n][i]]
<1>1. W \in [Ids -> AnalysisType]
  <2>1. \A i \in Ids : [worker[n][i] EXCEPT !.state = "deleted"] \in AnalysisType
    BY StateType
  <2>2. \A i \in Ids : worker[n][i] \in AnalysisType
    BY DEF NodeTypeOK
  <2> QED BY <2>1, <2>2
<1>2. worker' = worker \/ worker' = [worker EXCEPT ![n] = W]
  BY DEF RemoveFromWorker
<1> HIDE DEF W
<1>3. NodeTypeOK'
  BY <1>1, <1>2 DEF RemoveFromWorker, NodeTypeOK
<1>4. QueueTypeOK'
  BY DEF RemoveFromWorker, QueueTypeOK
<1>5. faults' \in 0..MaxFaults
  BY FaultType DEF RemoveFromWorker
<1> QED BY <1>3, <1>4, <1>5, MasterKept, LoadKept, StatusKept, ThreadsKept, ReportsKept
        DEF RemoveFromWorker

(* FailedCleaner and FailedCommit keep TypeInv. *)
LEMMA FailedCleanerType == ASSUME TypeInv, NEW j \in Jobs, FailedCleaner(j) PROVE TypeInv'
<1> USE DistAssumption DEF TypeInv, TypeOK
<1>1. QueueTypeOK' /\ lost' \subseteq Tasks
  BY DEF FailedCleaner, QueueTypeOK
<1>2. MasterTypeOK'
  <2>1. main' \in [Tasks -> {"pending", "distributed", "reported", "failed_reporting", "deleted"}]
    BY SetMainType DEF FailedCleaner, MasterTypeOK
  <2> QED BY <2>1 DEF FailedCleaner, MasterTypeOK
<1> QED BY <1>1, <1>2, NodesKept, LoadKept, StatusKept, ThreadsKept DEF FailedCleaner

(* FailedCommit keeps TypeInv. *)
LEMMA FailedCommitType == ASSUME TypeInv, FailedCommit PROVE TypeInv'
<1> USE DistAssumption DEF TypeInv, TypeOK
<1>1. \A t \in Tasks : [row[t] EXCEPT !.finished = TRUE, !.retrieved = TRUE, !.notificated = TRUE] \in RowType
  <2>1. ASSUME NEW r \in RowType
        PROVE  [r EXCEPT !.finished = TRUE, !.retrieved = TRUE, !.notificated = TRUE] \in RowType
    <3>1. [r EXCEPT !.finished = TRUE] \in RowType
      BY DEF RowType
    <3>2. [[r EXCEPT !.finished = TRUE] EXCEPT !.retrieved = TRUE] \in RowType
      BY <3>1 DEF RowType
    <3> QED BY <3>2 DEF RowType
  <2> QED BY <2>1 DEF MasterTypeOK
<1>2. row' \in [Tasks -> RowType]
  BY <1>1 DEF FailedCommit, MasterTypeOK
<1>3. MasterTypeOK' /\ QueueTypeOK'
  BY <1>2 DEF FailedCommit, MasterTypeOK, QueueTypeOK
<1> QED BY <1>3, NodesKept, LoadKept, StatusKept, ThreadsKept, ReportsKept DEF FailedCommit

(* Notify keeps TypeInv. *)
LEMMA NotifyType == ASSUME TypeInv, NEW t \in Tasks, Notify(t) PROVE TypeInv'
<1> USE DistAssumption DEF TypeInv, TypeOK
<1>1. MasterTypeOK'
  <2>1. ASSUME row' = [row EXCEPT ![t].notificated = TRUE]
        PROVE  row' \in [Tasks -> RowType]
    BY <2>1, RowMarked
  <2>2. row' \in [Tasks -> RowType]
    BY <2>1 DEF Notify, MasterTypeOK
  <2>3. main' \in [Tasks -> {"pending", "distributed", "reported", "failed_reporting", "deleted"}]
    BY SetMainType DEF Notify
  <2> QED BY <2>2, <2>3 DEF MasterTypeOK
<1>2. faults' \in 0..MaxFaults
  BY FaultType DEF Notify
<1> QED BY <1>1, <1>2, NodesKept, LoadKept, StatusKept, RetrieverKept DEF Notify

(* CronCleaner keeps TypeInv. *)
LEMMA CronCleanerType == ASSUME TypeInv, CronCleaner PROVE TypeInv'
<1> USE DistAssumption DEF TypeInv, TypeOK
<1> DEFINE done == {row[t].job : t \in {u \in Tasks : row[u].notificated}}
<1> HIDE DEF done
<1>1. worker' = [n \in Nodes |-> [i \in Ids |->
                   IF <<n, i>> \in done THEN [worker[n][i] EXCEPT !.state = "deleted"]
                                        ELSE worker[n][i]]]
  BY DEF CronCleaner, done
<1>2. worker' \in [Nodes -> [Ids -> AnalysisType]]
  BY <1>1, StateType DEF NodeTypeOK
<1> QED BY <1>2, WorkerType, MasterKept, LoadKept, StatusKept, RetrieverKept DEF CronCleaner

(* Disabling and enabling a node, and removing a task, keep TypeInv. *)
LEMMA OperatorType ==
  ASSUME TypeInv, \/ \E n \in Nodes : Disable(n) \/ Enable(n)
                  \/ \E t \in Tasks : RemoveTask(t)
  PROVE  TypeInv'
<1> USE DistAssumption DEF TypeInv, TypeOK
<1>1. ASSUME NEW n \in Nodes, Disable(n) \/ Enable(n) PROVE TypeInv'
  <2>1. NodeTypeOK'
    BY <1>1 DEF Disable, Enable, NodeTypeOK
  <2>2. faults' \in 0..MaxFaults
    BY <1>1, FaultType DEF Disable, Enable
  <2> QED BY <1>1, <2>1, <2>2, MasterKept, LoadKept, StatusKept, RetrieverKept
          DEF Disable, Enable
<1>2. ASSUME NEW t \in Tasks, RemoveTask(t) PROVE TypeInv'
  <2>1. MasterTypeOK'
    BY <1>2 DEF RemoveTask, MasterTypeOK
  <2>2. faults' \in 0..MaxFaults
    BY <1>2, FaultType DEF RemoveTask
  <2> QED BY <1>2, <2>1, <2>2, NodesKept, LoadKept, StatusKept, RetrieverKept DEF RemoveTask
<1> QED BY <1>1, <1>2

(* Restart keeps TypeInv. *)
LEMMA RestartType == ASSUME TypeInv, Restart PROVE TypeInv'
<1> USE DistAssumption DEF TypeInv, TypeOK
<1>1. LoadTypeOK'
  BY DEF Restart, LoadTypeOK
<1>2. StatusTypeOK'
  BY DEF Restart, StatusTypeOK
<1>3. StatusOK' /\ TodoFits'
  BY DEF Restart, StatusOK, TodoFits, AddPhase, Submits
<1>4. QueueTypeOK' /\ ThreadTypeOK' /\ ThreadOK'
  BY DEF Restart, QueueTypeOK, ThreadTypeOK, ThreadOK
<1>5. CurCounts'
  <2>1. \A j \in Jobs : At(j)' = {}
    BY DEF Restart, At, Jobs, NoJob
  <2>2. \A j \in Jobs : cur'[j] = 0 /\ Cardinality(At(j)') = 0
    BY <2>1, FS_EmptySet DEF Restart
  <2> QED BY <2>2 DEF CurCounts
<1>6. faults' \in 0..MaxFaults
  BY FaultType DEF Restart
<1>7. lost' \subseteq Tasks
  BY DEF Restart, ThreadOK
<1> QED BY <1>1, <1>2, <1>3, <1>4, <1>5, <1>6, <1>7, MasterKept, NodesKept DEF Restart

(* A step that changes nothing keeps TypeInv. *)
LEMMA StutterType == ASSUME TypeInv, UNCHANGED vars PROVE TypeInv'
  BY MasterKept, NodesKept, LoadKept, StatusKept, RetrieverKept DEF vars, TypeInv, TypeOK

(* Every step keeps TypeInv. *)
LEMMA NextType == ASSUME TypeInv, [Next]_vars PROVE TypeInv'
<1>1. CASE StatusThread
  BY <1>1, NodesType, BalanceType, ListTasksType, AddRowType, AddDoneType, UploadType,
     PostType, CommitType, MarkType DEF StatusThread
<1>2. CASE Fetcher
  BY <1>2, FetchListType, FetchItemType DEF Fetcher
<1>3. CASE \E h \in Threads : FetchThread(h)
  BY <1>3, TakeType, QueryType, GetType, StoreType DEF FetchThread
<1>4. CASE OtherThreads
  BY <1>4, RemoveFromWorkerType, FailedCleanerType, FailedCommitType, NotifyType, CronCleanerType
  DEF OtherThreads
<1>5. CASE Environment
  BY <1>5, AnalyseType, OperatorType, RestartType DEF Environment
<1> QED BY <1>1, <1>2, <1>3, <1>4, <1>5, StutterType DEF Next

(* TypeInv holds in every reachable state. *)
LEMMA TypeInvariant == Spec => []TypeInv
<1>1. TypeInv /\ [Next]_vars => TypeInv'
  BY NextType
<1> QED BY InitType, <1>1, PTL DEF Spec

(* Every variable of dist.py keeps its type: in particular the limit of a list  *)
(* never becomes negative, although every task that is pushed takes one off    *)
(* (dist.py 953), and no analysis is taken out of current_queue more often       *)
(* than it was put into it, although only some of the ways out of a round do.    *)
THEOREM DistTypeCorrect == Spec => []TypeOK
<1>1. TypeInv => TypeOK
  BY DEF TypeInv
<1> QED BY TypeInvariant, <1>1, PTL

-----------------------------------------------------------------------------
(* The invariant. *)

(* DistInv holds at the start. *)
LEMMA InitInv == Init => DistInv
<1> SUFFICES ASSUME Init PROVE DistInv
  OBVIOUS
<1> USE DistAssumption DEF Init
<1>1. RowInv
  BY DEF RowInv, Flags, Placed, NoRow
<1>2. StatusInv
  BY DEF StatusInv, Sending, Listing, AddPhase, UploadPhase, Submits
<1>3. RetrieverInv
  BY DEF RetrieverInv, Queued, Held, Cleaning
<1>4. Promises
  BY DEF Promises, DistributedIsThere, NeededKept, ReportAttributed, RetrievedIsThere, NoRow
<1> QED BY <1>1, <1>2, <1>3, <1>4 DEF DistInv

(* Steps of StatusThread that read, and steps of others it does not read.      *)
LEMMA RestKept ==
  ASSUME DistInv, UNCHANGED <<main, row, worker, reportVars, queueVars, threadVars>>
  PROVE  RowInv' /\ RetrieverInv' /\ Promises'
<1> USE DEF DistInv, queueVars, threadVars, reportVars, Analysis
<1>1. RowInv'
  BY DEF RowInv, Flags, Placed
<1>2. RetrieverInv'
  BY DEF RetrieverInv, Queued, Held, Cleaning, HasReport, Fetchable, Wanted
<1>3. Promises'
  BY DEF Promises, DistributedIsThere, NeededKept, ReportAttributed, RetrievedIsThere
<1> QED BY <1>1, <1>2, <1>3

(* What leaves rows, workers and StatusThread alone keeps StatusInv. *)
LEMMA StatusInvKept ==
  ASSUME StatusInv, UNCHANGED <<row, worker, statusVars>>
  PROVE  StatusInv'
  BY DEF StatusInv, Sending, Listing, AddPhase, UploadPhase, Submits, statusVars

(* A row keeps Flags, is none, or is a new one. *)
LEMMA FlagsKept ==
  ASSUME Flags, \A t \in Tasks : \/ row'[t] = row[t]
                                 \/ row'[t] = NoRow
                                 \/ row'[t] = [NoRow EXCEPT !.state = "new"]
  PROVE  Flags'
<1>1. SUFFICES ASSUME NEW t \in Tasks
               PROVE  /\ row'[t].finished = row'[t].retrieved
                      /\ row'[t].notificated => row'[t].retrieved
                      /\ row'[t].state # "pushed" => row'[t].job = NoJob
  BY DEF Flags
<1>2. CASE row'[t] = row[t]
  BY <1>2 DEF Flags
<1>3. CASE row'[t] = NoRow
  BY <1>3 DEF NoRow
<1>4. CASE row'[t] = [NoRow EXCEPT !.state = "new"]
  BY <1>4 DEF NoRow
<1> QED BY <1>2, <1>3, <1>4

(* Rows that are not pushed are StatusThread's own: nobody else relies on them. *)
LEMMA OwnRows ==
  ASSUME TypeInv, DistInv,
         \A t \in Tasks : \/ row'[t] = row[t]
                          \/ row[t].state # "pushed" /\ row'[t].state # "pushed",
         \A j \in Jobs : Analysis(j).state # "none" =>
                            worker'[j[1]][j[2]] = worker[j[1]][j[2]],
         UNCHANGED <<reportVars, queueVars, threadVars>>
  PROVE  Placed' /\ RetrieverInv' /\ NeededKept' /\ ReportAttributed' /\ RetrievedIsThere'
<1> USE DEF DistInv, RowInv, queueVars, threadVars, reportVars
<1>0. \A j \in Jobs : Analysis(j).state # "none" => Analysis(j)' = Analysis(j)
  BY DEF Analysis
<1>1. Placed'
  BY <1>0 DEF Placed
<1>2. Queued'
  <2>1. \A h \in Threads : tpc[h] # "idle" => tjob[h] \in Jobs
    BY DEF TypeInv, TypeOK, ThreadOK, ThreadTypeOK
  <2> QED BY <1>0, <2>1 DEF RetrieverInv, Queued, Fetchable, TypeInv, TypeOK, QueueTypeOK
<1>3. Held'
  BY DEF RetrieverInv, Held, HasReport, TypeInv, ThreadOK
<1>4. Cleaning'
  BY <1>0 DEF RetrieverInv, Cleaning, HasReport, Wanted, TypeInv, TypeOK, QueueTypeOK
<1>5. NeededKept' /\ ReportAttributed' /\ RetrievedIsThere'
  BY <1>0 DEF Promises, NeededKept, ReportAttributed, RetrievedIsThere, Placed
<1> QED BY <1>1, <1>2, <1>3, <1>4, <1>5 DEF RetrieverInv

(* The answer of a node, or none, keeps DistInv. *)
LEMMA NodesInv ==
  ASSUME TypeInv, DistInv, NEW n \in Nodes, NodeUp(n) \/ NodeDown(n)
  PROVE  DistInv'
<1>1. StatusInv'
  BY DEF NodeUp, NodeDown, Asks, DistInv, StatusInv, Sending, Listing, AddPhase, UploadPhase,
         Submits, masterVars, nodeVars
<1>2. RowInv' /\ RetrieverInv' /\ Promises'
  BY RestKept DEF NodeUp, NodeDown, masterVars, nodeVars
<1> QED BY <1>1, <1>2 DEF DistInv

(* Balance keeps DistInv. *)
LEMMA BalanceInv == ASSUME DistInv, Balance PROVE DistInv'
<1>1. StatusInv'
  BY DEF Balance, NodeDone, DistInv, StatusInv, Sending, Listing, AddPhase, UploadPhase,
         Submits, masterVars, nodeVars
<1>2. RowInv' /\ RetrieverInv' /\ Promises'
  BY RestKept DEF Balance, masterVars, nodeVars
<1> QED BY <1>1, <1>2 DEF DistInv

(* A StatusThread that has left submit_tasks has nothing in hand. *)
LEMMA ReturnedInv == ASSUME Returned PROVE StatusInv'
  BY DEF Returned, NodeDone, StatusInv, Sending, Listing, AddPhase, UploadPhase, Submits

(* Rows without a node are gone before the list is made, so none of its tasks   *)
(* has one.                                                                   *)
LEMMA ListTasksInv == ASSUME TypeInv, DistInv, ListTasks PROVE DistInv'
<1> USE DEF DistInv, RowInv, TypeInv, TypeOK, MasterTypeOK
<1>1. \A t \in Tasks : /\ row[t].state = "new" => row'[t] = NoRow /\ main'[t] # "distributed"
                       /\ row[t].state # "new" => row'[t] = row[t] /\ main'[t] = main[t]
  BY DEF ListTasks, BadTasks, Repaired
<1>2. UNCHANGED <<worker, reportVars, queueVars, threadVars>>
  BY DEF ListTasks, nodeVars
<1>3. Placed' /\ RetrieverInv' /\ NeededKept' /\ ReportAttributed' /\ RetrievedIsThere'
  <2>1. \A t \in Tasks : \/ row'[t] = row[t]
                         \/ row[t].state # "pushed" /\ row'[t].state # "pushed"
    BY <1>1 DEF NoRow
  <2> QED BY <1>2, <2>1, OwnRows
<1>4. Flags'
  BY <1>1, FlagsKept
<1>5. DistributedIsThere'
  <2>1. \A t \in Tasks : main'[t] = "distributed" => row'[t].state = "pushed"
    BY <1>1 DEF Promises, DistributedIsThere
  <2> QED BY <1>3, <2>1 DEF DistributedIsThere, Placed
<1>6. StatusInv'
  <2>1. \A t \in Tasks : row'[t].state # "new"
    BY <1>1 DEF NoRow
  <2>2. CASE spc' = "add"
    <3>1. todo' \subseteq Tasks
      BY DEF ListTasks, Limited
    <3> QED BY <2>1, <2>2, <3>1
            DEF StatusInv, Sending, Listing, AddPhase, UploadPhase, Submits
  <2> QED BY <2>2, ReturnedInv DEF ListTasks
<1> QED BY <1>3, <1>4, <1>5, <1>6 DEF Promises

(* A task is marked as distributed on a list that may be out of date, but its  *)
(* row is not one without a node.                                             *)
LEMMA AddRowInv == ASSUME TypeInv, DistInv, NEW t \in Tasks, AddRow(t) PROVE DistInv'
<1> USE DEF DistInv, RowInv, TypeInv, TypeOK, MasterTypeOK
<1> DEFINE r == [NoRow EXCEPT !.state = "new"]
<1>1. spc = "add" /\ t \in todo /\ todo' = todo \ {t} /\ row[t].state # "new"
  BY DEF AddRow, StatusInv, Listing, AddPhase
<1>2. UNCHANGED <<worker, reportVars, queueVars, threadVars>>
  BY DEF AddRow, nodeVars
<1>3. \/ row' = row
      \/ row[t].state = "none" /\ row' = [row EXCEPT ![t] = r] /\ main' = main
  BY DEF AddRow, masterVars
<1>4. /\ \A u \in Tasks : u # t => row'[u] = row[u]
      /\ row'[t] = row[t] \/ (row[t].state = "none" /\ row'[t] = r /\ main' = main)
  BY <1>3
<1>5. Placed' /\ RetrieverInv' /\ NeededKept' /\ ReportAttributed' /\ RetrievedIsThere'
  <2>1. \A u \in Tasks : \/ row'[u] = row[u]
                         \/ row[u].state # "pushed" /\ row'[u].state # "pushed"
    BY <1>4 DEF NoRow
  <2> QED BY <1>2, <2>1, OwnRows
<1>6. Flags'
  BY <1>4, FlagsKept
<1>7. DistributedIsThere'
  <2>1. main' = main \/ SetMain(t, "deleted") \/ (SetMain(t, "distributed") /\ row[t].state # "none")
    BY DEF AddRow, masterVars
  <2>2. row[t].state \in {"none", "new", "pushed"}
    BY DEF RowType
  <2>3. row[t].state = "none" => main[t] # "distributed"
    BY DEF Promises, DistributedIsThere
  <2>4. \A u \in Tasks : u # t => main'[u] = main[u]
    BY <2>1 DEF SetMain
  <2>5. main'[t] = "distributed" => row'[t].state = "pushed"
    BY <1>1, <1>4, <2>1, <2>2, <2>3 DEF SetMain, Promises, DistributedIsThere
  <2>6. \A u \in Tasks : main'[u] = "distributed" => row'[u].state = "pushed"
    BY <1>4, <2>4, <2>5 DEF Promises, DistributedIsThere
  <2> QED BY <1>5, <2>6 DEF DistributedIsThere, Placed
<1>8. StatusInv'
  <2>1. \A u \in todo' : row'[u].state # "new"
    BY <1>1, <1>4 DEF StatusInv, Listing, AddPhase, StatusTypeOK
  <2>2. CASE spc' = "add"
    BY <2>1, <2>2 DEF StatusInv, Sending, Listing, AddPhase, UploadPhase, Submits
  <2>3. CASE /\ spc' = "push" /\ sent' = <<t, NoId, TRUE>>
             /\ row' = [row EXCEPT ![t] = r]
    <3>1. sent'[1] = t /\ sent'[3] = TRUE /\ row'[t].state = "new" /\ ~row'[t].retrieved
      BY <2>3 DEF NoRow
    <3> QED BY <1>1, <2>1, <2>3, <3>1
            DEF StatusInv, Sending, Listing, AddPhase, UploadPhase, Submits
  <2> QED BY <1>1, <2>2, <2>3 DEF AddRow
<1> QED BY <1>5, <1>6, <1>7, <1>8 DEF Promises

(* AddDone keeps DistInv. *)
LEMMA AddDoneInv == ASSUME TypeInv, DistInv, AddDone PROVE DistInv'
<1> DEFINE found == {t \in Tasks : row[t].state = "new" /\ ~row[t].finished}
<1>1. StatusInv'
  <2>1. CASE Returned
    BY <2>1, ReturnedInv
  <2>2. CASE (\E L \in Limited(found) : todo' = L) /\ spc' = "upload"
    <3>1. todo' \subseteq found /\ row' = row
      BY <2>2 DEF Limited, AddDone, masterVars
    <3>2. \A t \in todo' : row'[t].state = "new" /\ ~row'[t].retrieved
      BY <3>1 DEF DistInv, RowInv, Flags
    <3> QED BY <2>2, <3>2 DEF StatusInv, Sending, Listing, AddPhase, UploadPhase, Submits
  <2> QED BY <2>1, <2>2 DEF AddDone
<1>2. RowInv' /\ RetrieverInv' /\ Promises'
  BY RestKept DEF AddDone, masterVars, nodeVars
<1> QED BY <1>1, <1>2 DEF DistInv

(* Upload keeps DistInv. *)
LEMMA UploadInv == ASSUME TypeInv, DistInv, Upload PROVE DistInv'
<1>1. StatusInv'
  <2>1. CASE Returned
    BY <2>1, ReturnedInv
  <2>2. ASSUME NEW t \in todo, todo' = todo \ {t}, sent' = <<t, NoId, FALSE>>, spc' = "push"
        PROVE  StatusInv'
    <3>1. sent'[1] = t /\ sent'[3] = FALSE /\ row' = row
      BY <2>2 DEF Upload, masterVars
    <3>2. \A u \in todo : row[u].state = "new" /\ ~row[u].retrieved
      BY DEF Upload, DistInv, StatusInv, Listing, UploadPhase
    <3> QED BY <2>2, <3>1, <3>2 DEF StatusInv, Sending, Listing, AddPhase, UploadPhase, Submits
  <2> QED BY <2>1, <2>2 DEF Upload
<1>2. RowInv' /\ RetrieverInv' /\ Promises'
  BY RestKept DEF Upload, masterVars, nodeVars
<1> QED BY <1>1, <1>2 DEF DistInv

(* The task that is submitted leaves the list as it was, whatever becomes of    *)
(* its row.                                                                   *)
LEMMA SubmittedInv ==
  ASSUME TypeInv, DistInv, Submits, NotSubmitted, UNCHANGED todo,
         \A u \in Tasks : u # sent[1] => row'[u] = row[u]
  PROVE  StatusInv'
<1>1. \A u \in todo : u \in Tasks /\ row'[u] = row[u]
  BY DEF DistInv, StatusInv, Listing, TypeInv, TypeOK, StatusTypeOK
<1>2. CASE sent[3]
  <2>1. spc' = "add"
    BY <1>2 DEF NotSubmitted
  <2>2. \A u \in todo : row[u].state # "new"
    BY <1>2 DEF DistInv, StatusInv, Listing, AddPhase
  <2> QED BY <1>1, <2>1, <2>2 DEF StatusInv, Sending, Listing, AddPhase, UploadPhase, Submits
<1>3. CASE ~sent[3]
  <2>1. spc' = "upload"
    BY <1>3 DEF NotSubmitted
  <2>2. \A u \in todo : row[u].state = "new" /\ ~row[u].retrieved
    BY <1>3 DEF DistInv, StatusInv, Listing, UploadPhase
  <2> QED BY <1>1, <2>1, <2>2 DEF StatusInv, Sending, Listing, AddPhase, UploadPhase, Submits
<1> QED BY <1>2, <1>3

(* A worker gives an id it has not given before, so an analysis somebody       *)
(* relies on is not touched.                                                  *)
LEMMA PostWorker ==
  ASSUME TypeInv, NEW i \in Ids, NEW a, snode \in Nodes, FreeId(snode, i),
         worker' = [worker EXCEPT ![snode][i] = a]
  PROVE  /\ worker'[snode][i] = a
         /\ \A j \in Jobs : Analysis(j).state # "none" =>
                               worker'[j[1]][j[2]] = worker[j[1]][j[2]]
<1>1. worker \in [Nodes -> [Ids -> AnalysisType]]
  BY DEF TypeInv, TypeOK, NodeTypeOK
<1>2. worker'[snode][i] = a
  BY <1>1
<1>3. ASSUME NEW n \in Nodes, NEW k \in Ids, worker[n][k].state # "none"
      PROVE  worker'[n][k] = worker[n][k]
  BY <1>1, <1>3 DEF FreeId
<1> QED BY <1>2, <1>3 DEF Analysis, Jobs

(* Post keeps DistInv. *)
LEMMA PostInv == ASSUME TypeInv, DistInv, Post PROVE DistInv'
<1> USE DEF DistInv, RowInv
<1> DEFINE t == sent[1]
           m == [row[t] EXCEPT !.finished = TRUE, !.retrieved = TRUE]
<1>0. /\ t \in Tasks /\ snode \in Nodes /\ Submits
      /\ row[t].state = "new" /\ row[t] \in RowType
      /\ row \in [Tasks -> RowType]
  BY DEF Post, StatusInv, Sending, TypeInv, TypeOK, StatusOK, Submits, MasterTypeOK
<1>1. /\ \A u \in Tasks : u # t => row'[u] = row[u]
      /\ row'[t] = row[t] \/ row'[t] = NoRow \/ row'[t] = m
  BY <1>0 DEF Post, PostRaises, RowAfterFailure, masterVars
<1>2. row'[t].state # "pushed"
  <2>1. NoRow.state = "none" /\ m.state = row[t].state
    BY <1>0 DEF NoRow, RowType
  <2> QED BY <1>0, <1>1, <2>1
<1>3. \A j \in Jobs : Analysis(j).state # "none" => worker'[j[1]][j[2]] = worker[j[1]][j[2]]
  BY <1>0, PostWorker DEF Post
<1>4. Placed' /\ RetrieverInv' /\ NeededKept' /\ ReportAttributed' /\ RetrievedIsThere'
  <2>1. \A u \in Tasks : \/ row'[u] = row[u]
                         \/ row[u].state # "pushed" /\ row'[u].state # "pushed"
    BY <1>0, <1>1, <1>2
  <2>2. UNCHANGED <<reportVars, queueVars, threadVars>>
    BY DEF Post
  <2> QED BY <1>3, <2>1, <2>2, OwnRows
<1>5. Flags'
  <2>1. CASE row'[t] = m
    <3>1. /\ row'[t].finished = TRUE /\ row'[t].retrieved = TRUE
          /\ row'[t].job = row[t].job
      BY <1>0, <2>1 DEF RowType
    <3>2. row[t].job = NoJob
      BY <1>0 DEF Flags
    <3> QED BY <1>1, <3>1, <3>2 DEF Flags
  <2> QED BY <1>1, <2>1, FlagsKept
<1>6. DistributedIsThere'
  <2>1. main' = main \/ SetMain(t, "failed_reporting")
    BY DEF Post, PostRaises, masterVars
  <2>2. main[t] # "distributed"
    BY <1>0 DEF Promises, DistributedIsThere
  <2>3. \A u \in Tasks : main'[u] = "distributed" => main[u] = "distributed"
    BY <1>0, <2>1 DEF SetMain, TypeInv, TypeOK, MasterTypeOK
  <2>4. \A u \in Tasks : main'[u] = "distributed" => row'[u].state = "pushed"
    BY <1>1, <2>2, <2>3 DEF Promises, DistributedIsThere
  <2> QED BY <1>4, <2>4 DEF DistributedIsThere, Placed
<1>7. StatusInv'
  <2>0. UNCHANGED <<todo, snode>>
    BY DEF Post
  <2>1. CASE NotSubmitted
    BY <1>0, <1>1, <2>0, <2>1, SubmittedInv
  <2>2. ASSUME NEW i \in Ids, FreeId(snode, i), sent' = <<t, i, sent[3]>>, spc' = "commit",
               worker' = [worker EXCEPT ![snode][i] = [task |-> t, state |-> "working"]],
               row' = row
        PROVE  StatusInv'
    <3>1. sent'[1] = t /\ sent'[2] = i /\ sent'[3] = sent[3]
      BY <2>2
    <3>2. worker'[snode][i] = [task |-> t, state |-> "working"]
      BY <1>0, <2>2, PostWorker
    <3>3. Sending'
      BY <1>0, <2>0, <2>2, <3>1, <3>2 DEF Post, StatusInv, Sending
    <3>4. Listing'
      BY <1>0, <2>0, <2>2, <3>1 DEF StatusInv, Listing, AddPhase, UploadPhase, Submits
    <3> QED BY <3>3, <3>4 DEF StatusInv
  <2> QED BY <2>1, <2>2 DEF Post, PostRaises, masterVars
<1> QED BY <1>4, <1>5, <1>6, <1>7 DEF Promises

(* The analysis is still at work, so no thread of Retriever has seen it. *)
LEMMA CommitInv == ASSUME TypeInv, DistInv, Commit PROVE DistInv'
<1> USE DEF DistInv, RowInv
<1> DEFINE t == sent[1]
           j == <<snode, sent[2]>>
<1>0. /\ t \in Tasks /\ snode \in Nodes /\ sent[2] \in Ids /\ spc = "commit" /\ spc' = "mark"
      /\ row[t].state = "new" /\ ~row[t].retrieved /\ row[t] \in RowType
      /\ row \in [Tasks -> RowType]
  BY DEF Commit, StatusInv, Sending, TypeInv, TypeOK, StatusOK, Submits, MasterTypeOK
<1>1. j \in Jobs /\ j[1] = snode /\ j[2] = sent[2]
  BY <1>0 DEF Jobs
<1>2. Analysis(j).task = t /\ Analysis(j).state = "working"
  BY <1>0, <1>1 DEF StatusInv, Sending, Analysis
<1>3. UNCHANGED <<main, worker, sent, todo, report, lost, queueVars, threadVars>>
  BY DEF Commit, nodeVars, reportVars
<1>4. /\ \A u \in Tasks : u # t => row'[u] = row[u]
      /\ row'[t].state = "pushed" /\ row'[t].job = j
      /\ row'[t].retrieved = row[t].retrieved /\ row'[t].finished = row[t].finished
      /\ row'[t].notificated = row[t].notificated
  BY <1>0 DEF Commit, RowType
<1> HIDE DEF t, j
<1>5. \A k \in Jobs : Analysis(k)' = Analysis(k)
  BY <1>3 DEF Analysis
<1>6. Flags'
  BY <1>0, <1>4 DEF Flags
<1>7. Placed'
  BY <1>0, <1>1, <1>2, <1>4, <1>5 DEF Placed
<1>8. Queued'
  BY <1>3 DEF RetrieverInv, Queued, Fetchable, Analysis, queueVars, threadVars
<1>9. Held'
  BY <1>0, <1>3, <1>4 DEF RetrieverInv, Held, HasReport, TypeInv, ThreadOK, threadVars
<1>10. Cleaning'
  <2>1. j \notin cleaner
    BY <1>2 DEF RetrieverInv, Cleaning
  <2>2. ASSUME NEW k \in cleaner, NEW u \in Tasks, Wanted(k, u)' PROVE HasReport(u)'
    <3>1. u # t
      BY <1>4, <2>1, <2>2 DEF Wanted
    <3> QED BY <1>3, <1>4, <2>2, <3>1 DEF RetrieverInv, Cleaning, Wanted, HasReport
  <2>3. j \notin failing
    BY <1>2 DEF RetrieverInv, Cleaning
  <2>4. ASSUME NEW k \in failing, NEW u \in Tasks, row'[u].state = "pushed", row'[u].job = k
        PROVE  u \in lost
    BY <1>4, <2>3, <2>4 DEF RetrieverInv, Cleaning
  <2> QED BY <1>3, <1>5, <2>2, <2>4 DEF RetrieverInv, Cleaning, queueVars, TypeInv, TypeOK, QueueTypeOK
<1>11. DistributedIsThere'
  <2>1. \A u \in Tasks : main'[u] = "distributed" => row'[u].state = "pushed"
    BY <1>0, <1>3, <1>4 DEF Promises, DistributedIsThere
  <2> QED BY <1>7, <2>1 DEF DistributedIsThere, Placed
<1>12. NeededKept' /\ ReportAttributed' /\ RetrievedIsThere'
  BY <1>0, <1>1, <1>2, <1>3, <1>4, <1>5
  DEF Promises, NeededKept, ReportAttributed, RetrievedIsThere, Placed
<1>13. StatusInv'
  BY <1>0, <1>3, <1>4
  DEF StatusInv, Sending, Listing, AddPhase, UploadPhase, Submits, TypeInv, TypeOK,
      StatusTypeOK, t
<1> QED BY <1>6, <1>7, <1>8, <1>9, <1>10, <1>11, <1>12, <1>13 DEF Promises, RetrieverInv

(* Mark keeps DistInv. *)
LEMMA MarkInv == ASSUME TypeInv, DistInv, Mark PROVE DistInv'
<1> USE DEF DistInv, RowInv
<1>0. sent[1] \in Tasks /\ row[sent[1]].state = "pushed"
  BY DEF Mark, StatusInv, Sending, TypeInv, StatusOK, Submits
<1>1. UNCHANGED <<row, worker, todo, reportVars, queueVars, threadVars>>
  BY DEF Mark, nodeVars
<1>2. Placed' /\ RetrieverInv' /\ NeededKept' /\ ReportAttributed' /\ RetrievedIsThere' /\ Flags'
  BY <1>1, OwnRows DEF Flags
<1>3. DistributedIsThere'
  <2>1. \A u \in Tasks : main'[u] = "distributed" => row'[u].state = "pushed"
    BY <1>0, <1>1 DEF Mark, SetMain, Promises, DistributedIsThere, TypeInv, TypeOK, MasterTypeOK
  <2> QED BY <1>2, <2>1 DEF DistributedIsThere, Placed
<1>4. StatusInv'
  BY <1>1, SubmittedInv DEF Mark, Submits, NotSubmitted
<1> QED BY <1>2, <1>3, <1>4 DEF Promises

(* A worker's analyses end and are deleted: what Retriever waits for does not    *)
(* vanish.                                                                    *)
LEMMA WorkerMoves ==
  ASSUME TypeInv, DistInv,
         UNCHANGED <<main, row, reportVars, listed, fq, failing, statusVars, threadVars>>,
         cleaner' \subseteq cleaner,
         \A j \in Jobs : worker'[j[1]][j[2]].task = worker[j[1]][j[2]].task,
         \A j \in Jobs :
            LET old == worker[j[1]][j[2]].state
                new == worker'[j[1]][j[2]].state
            IN  \/ new = old
                \/ /\ new \in {"reported", "failed"} /\ old = "working"
                   /\ ~Submitting(j[1], j[2])
                \/ /\ new = "deleted" /\ old \notin {"none", "working"}
                   /\ \A t \in Tasks : Wanted(j, t) => HasReport(t),
         worker' \in [Nodes -> [Ids -> AnalysisType]]
  PROVE  DistInv'
<1> USE DEF DistInv, RowInv, reportVars
<1>0. \A j \in Jobs :
         /\ Analysis(j)'.task = Analysis(j).task
         /\ \/ Analysis(j)'.state = Analysis(j).state
            \/ /\ Analysis(j)'.state \in {"reported", "failed"} /\ Analysis(j).state = "working"
               /\ ~Submitting(j[1], j[2])
            \/ /\ Analysis(j)'.state = "deleted" /\ Analysis(j).state \notin {"none", "working"}
               /\ \A t \in Tasks : Wanted(j, t) => HasReport(t)
  BY DEF Analysis
<1>1. Flags' /\ Placed'
  BY <1>0 DEF Flags, Placed
<1>2. Queued'
  <2>1. \A h \in Threads : tpc[h] # "idle" => tjob[h] \in Jobs
    BY DEF TypeInv, TypeOK, ThreadOK, ThreadTypeOK
  <2> QED BY <1>0, <2>1 DEF RetrieverInv, Queued, Fetchable, threadVars, TypeInv, TypeOK, QueueTypeOK
<1>3. Held'
  BY DEF RetrieverInv, Held, HasReport, threadVars
<1>4. Cleaning'
  <2>1. cleaner \subseteq Jobs /\ failing \subseteq Jobs
    BY DEF TypeInv, TypeOK, QueueTypeOK
  <2> QED BY <1>0, <2>1 DEF RetrieverInv, Cleaning, HasReport, Wanted
<1>5. DistributedIsThere' /\ ReportAttributed' /\ RetrievedIsThere'
  BY <1>0, <1>1 DEF Promises, DistributedIsThere, ReportAttributed, RetrievedIsThere, Placed
<1>6. NeededKept'
  BY <1>0 DEF Promises, NeededKept, Placed, Wanted, HasReport, Flags
<1>7. Sending'
  <2>1. CASE spc = "commit"
    <3>0. snode \in Nodes /\ sent[2] \in Ids
      BY <2>1 DEF TypeInv, StatusOK
    <3>0a. <<snode, sent[2]>> \in Jobs
      BY <3>0 DEF Jobs
    <3>0b. PICK j \in Jobs : j = <<snode, sent[2]>>
      BY <3>0a
    <3>1. j[1] = snode /\ j[2] = sent[2]
      BY <3>0b
    <3>2. Analysis(j) = [task |-> sent[1], state |-> "working"] /\ Submitting(j[1], j[2])
      BY <2>1, <3>1 DEF StatusInv, Sending, Analysis, Submitting
    <3>3. Analysis(j)'.task = sent[1] /\ Analysis(j)'.state = "working"
      BY <1>0, <3>1, <3>2
    <3>4. worker'[snode][sent[2]] \in AnalysisType
      BY <3>1, <2>1 DEF TypeInv, StatusOK
    <3>5. worker'[snode][sent[2]].task = sent[1] /\ worker'[snode][sent[2]].state = "working"
      BY <3>1, <3>3 DEF Analysis, statusVars
    <3>6. worker'[snode][sent[2]] = [task |-> sent[1], state |-> "working"]
      BY <3>4, <3>5 DEF AnalysisType
    <3> QED BY <2>1, <3>6 DEF StatusInv, Sending, statusVars
  <2>2. CASE spc # "commit"
    BY <2>2 DEF StatusInv, Sending, statusVars
  <2> QED BY <2>1, <2>2
<1>8. Listing'
  BY DEF StatusInv, Listing, AddPhase, UploadPhase, Submits, statusVars
<1> QED BY <1>1, <1>2, <1>3, <1>4, <1>5, <1>6, <1>7, <1>8 DEF Promises, RetrieverInv, StatusInv

(* Analyse keeps DistInv. *)
LEMMA AnalyseInv ==
  ASSUME TypeInv, DistInv, NEW n \in Nodes, NEW i \in Ids, Analyse(n, i)
  PROVE  DistInv'
<1>1. worker \in [Nodes -> [Ids -> AnalysisType]] /\ worker' \in [Nodes -> [Ids -> AnalysisType]]
  BY AnalyseType DEF TypeInv, TypeOK, NodeTypeOK
<1>2. /\ worker'[n][i].state \in {"reported", "failed"}
      /\ worker'[n][i].task = worker[n][i].task
      /\ \A m \in Nodes, k \in Ids : m # n \/ k # i => worker'[m][k] = worker[m][k]
  BY <1>1 DEF Analyse, AnalysisType
<1>3. worker[n][i].state = "working" /\ ~Submitting(n, i)
  BY DEF Analyse
<1>4. ASSUME NEW j \in Jobs
      PROVE  /\ worker'[j[1]][j[2]].task = worker[j[1]][j[2]].task
             /\ \/ worker'[j[1]][j[2]].state = worker[j[1]][j[2]].state
                \/ /\ worker'[j[1]][j[2]].state \in {"reported", "failed"}
                   /\ worker[j[1]][j[2]].state = "working"
                   /\ ~Submitting(j[1], j[2])
  <2>1. j[1] \in Nodes /\ j[2] \in Ids
    BY DEF Jobs
  <2> QED BY <1>2, <1>3, <2>1
<1>5. UNCHANGED <<main, row, reportVars, listed, fq, failing, statusVars, threadVars>>
      /\ cleaner' \subseteq cleaner
  BY DEF Analyse, masterVars, queueVars
<1> QED BY <1>1, <1>4, <1>5, WorkerMoves

(* What is deleted was in cleaner_queue. *)
LEMMA RemoveFromWorkerInv ==
  ASSUME TypeInv, DistInv, NEW n \in Nodes, RemoveFromWorker(n)
  PROVE  DistInv'
<1>1. worker \in [Nodes -> [Ids -> AnalysisType]] /\ worker' \in [Nodes -> [Ids -> AnalysisType]]
  BY RemoveFromWorkerType DEF TypeInv, TypeOK, NodeTypeOK
<1>2. ASSUME NEW m \in Nodes, NEW k \in Ids
      PROVE  /\ worker'[m][k].task = worker[m][k].task
             /\ \/ worker'[m][k].state = worker[m][k].state
                \/ worker'[m][k].state = "deleted" /\ <<m, k>> \in cleaner
  <2>0. worker[m][k] \in AnalysisType
    BY <1>1
  <2> DEFINE gone == [i \in Ids |-> IF <<n, i>> \in cleaner
                                   THEN [worker[n][i] EXCEPT !.state = "deleted"]
                                   ELSE worker[n][i]]
  <2>1. worker' = worker \/ worker' = [worker EXCEPT ![n] = gone]
    BY DEF RemoveFromWorker
  <2> HIDE DEF gone
  <2>2. CASE worker' = worker
    BY <2>2
  <2>3. CASE worker' = [worker EXCEPT ![n] = gone] /\ m # n
    <3>1. worker'[m] = worker[m]
      BY <1>1, <2>3
    <3> QED BY <3>1
  <2>4. CASE worker' = [worker EXCEPT ![n] = gone] /\ m = n
    <3>1. worker'[m] = gone
      BY <1>1, <2>4
    <3>2. CASE <<m, k>> \in cleaner
      <4>1. gone[k] = [worker[m][k] EXCEPT !.state = "deleted"]
        BY <2>4, <3>2 DEF gone
      <4>2. gone[k].task = worker[m][k].task /\ gone[k].state = "deleted"
        BY <2>0, <4>1 DEF AnalysisType
      <4> QED BY <3>1, <3>2, <4>2
    <3>3. CASE <<m, k>> \notin cleaner
      <4>1. gone[k] = worker[m][k]
        BY <2>4, <3>3 DEF gone
      <4> QED BY <3>1, <4>1
    <3> QED BY <3>2, <3>3
  <2> QED BY <2>1, <2>2, <2>3, <2>4
<1>3. ASSUME NEW j \in Jobs
      PROVE  /\ worker'[j[1]][j[2]].task = worker[j[1]][j[2]].task
             /\ \/ worker'[j[1]][j[2]].state = worker[j[1]][j[2]].state
                \/ /\ worker'[j[1]][j[2]].state = "deleted"
                   /\ worker[j[1]][j[2]].state \notin {"none", "working"}
                   /\ \A t \in Tasks : Wanted(j, t) => HasReport(t)
  <2>1. j[1] \in Nodes /\ j[2] \in Ids /\ j = <<j[1], j[2]>>
    BY DEF Jobs
  <2>2. j \in cleaner => /\ worker[j[1]][j[2]].state \notin {"none", "working"}
                         /\ \A t \in Tasks : Wanted(j, t) => HasReport(t)
    BY DEF DistInv, RetrieverInv, Cleaning, Analysis
  <2> QED BY <1>2, <2>1, <2>2
<1>4. UNCHANGED <<main, row, reportVars, listed, fq, failing, statusVars, threadVars>>
      /\ cleaner' \subseteq cleaner
  BY DEF RemoveFromWorker, masterVars, queueVars
<1> QED BY <1>1, <1>3, <1>4, WorkerMoves

(* A row that is notificated is retrieved, and the analysis of no other row. *)
LEMMA CronCleanerInv == ASSUME TypeInv, DistInv, CronCleaner PROVE DistInv'
<1> DEFINE done == {row[t].job : t \in {u \in Tasks : row[u].notificated}}
<1>1. worker \in [Nodes -> [Ids -> AnalysisType]] /\ worker' \in [Nodes -> [Ids -> AnalysisType]]
  BY CronCleanerType DEF TypeInv, TypeOK, NodeTypeOK
<1>2. ASSUME NEW j \in done
      PROVE  /\ Analysis(j).state \notin {"none", "working"}
             /\ \A t \in Tasks : ~Wanted(j, t)
  <2>1. PICK u \in Tasks : row[u].notificated /\ row[u].job = j
    OBVIOUS
  <2>2. row[u].state = "pushed"
    BY <2>1 DEF CronCleaner, DistInv, RowInv, Flags
  <2>3. /\ row[u].retrieved /\ Analysis(j).task = u
        /\ Analysis(j).state \notin {"none", "working"}
    BY <2>1, <2>2 DEF DistInv, RowInv, Flags, Placed
  <2> QED BY <2>3 DEF Wanted, DistInv, RowInv, Placed
<1> HIDE DEF done
<1>3. worker' = [n \in Nodes |-> [i \in Ids |->
                   IF <<n, i>> \in done THEN [worker[n][i] EXCEPT !.state = "deleted"]
                                        ELSE worker[n][i]]]
  BY DEF CronCleaner, done
<1>4. ASSUME NEW m \in Nodes, NEW k \in Ids
      PROVE  /\ worker'[m][k].task = worker[m][k].task
             /\ \/ worker'[m][k].state = worker[m][k].state
                \/ worker'[m][k].state = "deleted" /\ <<m, k>> \in done
  <2>1. worker[m][k] \in AnalysisType
    BY <1>1
  <2> QED BY <1>3, <2>1 DEF AnalysisType
<1>5. ASSUME NEW j \in Jobs
      PROVE  /\ worker'[j[1]][j[2]].task = worker[j[1]][j[2]].task
             /\ \/ worker'[j[1]][j[2]].state = worker[j[1]][j[2]].state
                \/ /\ worker'[j[1]][j[2]].state = "deleted"
                   /\ worker[j[1]][j[2]].state \notin {"none", "working"}
                   /\ \A t \in Tasks : Wanted(j, t) => HasReport(t)
  <2>1. j[1] \in Nodes /\ j[2] \in Ids /\ j = <<j[1], j[2]>>
    BY DEF Jobs
  <2>2. j \in done => /\ worker[j[1]][j[2]].state \notin {"none", "working"}
                      /\ \A t \in Tasks : ~Wanted(j, t)
    BY <1>2 DEF Analysis
  <2> QED BY <1>4, <2>1, <2>2
<1>6. UNCHANGED <<main, row, reportVars, listed, fq, failing, statusVars, threadVars>>
      /\ cleaner' \subseteq cleaner
  BY DEF CronCleaner, masterVars, queueVars
<1> QED BY <1>1, <1>5, <1>6, WorkerMoves

(* Steps of Retriever: the lists and queues. *)

(* What a worker lists is reported. *)
LEMMA FetchListInv == ASSUME TypeInv, DistInv, NEW n \in Nodes, FetchList(n) PROVE DistInv'
<1> USE DEF DistInv
<1>1. UNCHANGED <<main, row, worker, report, lost, fq, cleaner, failing, tpc, tjob, ttask, statusVars>>
  BY DEF FetchList, masterVars, nodeVars, threadVars, reportVars
<1>2. \A j \in listed' : Fetchable(j)
  BY DEF FetchList, Listed, Fetchable
<1>3. Queued'
  BY <1>1, <1>2 DEF RetrieverInv, Queued, Fetchable, Analysis
<1>4. Held' /\ Cleaning'
  BY <1>1 DEF RetrieverInv, Held, Cleaning, HasReport, Wanted, Analysis
<1>5. RowInv' /\ Promises'
  BY <1>1 DEF RowInv, Flags, Placed, Promises, DistributedIsThere, NeededKept, ReportAttributed,
              RetrievedIsThere, Analysis
<1> QED BY <1>1, <1>3, <1>4, <1>5, StatusInvKept DEF RetrieverInv

(* FetchItem keeps DistInv. *)
LEMMA FetchItemInv == ASSUME TypeInv, DistInv, NEW j \in Jobs, FetchItem(j) PROVE DistInv'
<1> USE DEF DistInv
<1>1. UNCHANGED <<main, row, worker, report, lost, failing, tpc, tjob, ttask, statusVars>>
      /\ listed' \subseteq listed
  BY DEF FetchItem, masterVars, nodeVars, threadVars, reportVars
<1>2. Fetchable(j)
  BY DEF FetchItem, RetrieverInv, Queued
<1>3. \/ cleaner' = cleaner \cup {j} /\ fq' = fq /\ \A t \in Tasks : ~Wanted(j, t)
      \/ cleaner' = cleaner /\ \A k \in Jobs : k # j => fq'[k] = fq[k]
  BY DEF FetchItem, TypeInv, TypeOK, QueueTypeOK
<1>4. Queued'
  BY <1>1, <1>2, <1>3 DEF RetrieverInv, Queued, Fetchable, Analysis
<1>5. Held'
  BY <1>1 DEF RetrieverInv, Held, HasReport
<1>6. Cleaning'
  BY <1>1, <1>2, <1>3 DEF RetrieverInv, Cleaning, HasReport, Wanted, Fetchable, Analysis
<1>7. RowInv' /\ Promises'
  <2>1. RowInv'
    BY <1>1 DEF RowInv, Flags, Placed, Analysis
  <2> QED BY <1>1, <2>1
          DEF Promises, DistributedIsThere, NeededKept, ReportAttributed, RetrievedIsThere, Analysis
<1>8. StatusInv'
  BY <1>1, StatusInvKept
<1> QED BY <1>4, <1>5, <1>6, <1>7, <1>8 DEF RetrieverInv

(* Take keeps DistInv. *)
LEMMA TakeInv ==
  ASSUME TypeInv, DistInv, NEW h \in Threads, NEW j \in Jobs, Take(h, j)
  PROVE  DistInv'
<1> USE DEF DistInv
<1>1. UNCHANGED <<main, row, worker, report, lost, listed, cleaner, failing, ttask, statusVars>>
  BY DEF Take, masterVars, nodeVars, reportVars
<1>2. Queued'
  <2>1. Fetchable(j) /\ \A k \in Jobs : fq'[k] > 0 => Fetchable(k)
    BY DEF Take, RetrieverInv, Queued, TypeInv, TypeOK, QueueTypeOK
  <2>2. tjob'[h] = j /\ \A g \in Threads : g # h => tpc'[g] = tpc[g] /\ tjob'[g] = tjob[g]
    BY DEF Take, TypeInv, TypeOK, ThreadTypeOK
  <2> QED BY <1>1, <2>1, <2>2 DEF RetrieverInv, Queued, Fetchable, Analysis
<1>3. Held'
  <2>1. tpc'[h] = "query" /\ \A g \in Threads : g # h => tpc'[g] = tpc[g] /\ tjob'[g] = tjob[g]
    BY DEF Take, TypeInv, TypeOK, ThreadTypeOK
  <2> QED BY <1>1, <2>1 DEF RetrieverInv, Held, HasReport
<1>4. Cleaning'
  BY <1>1 DEF RetrieverInv, Cleaning, HasReport, Wanted, Analysis
<1>5. RowInv' /\ Promises'
  BY <1>1 DEF RowInv, Flags, Placed, Promises, DistributedIsThere, NeededKept, ReportAttributed,
              RetrievedIsThere, Analysis
<1>6. StatusInv'
  BY <1>1, StatusInvKept
<1> QED BY <1>2, <1>3, <1>4, <1>5, <1>6 DEF RetrieverInv

(* A thread that is idle holds nothing. *)
LEMMA IdleInv ==
  ASSUME TypeInv, DistInv, NEW h \in Threads, ThreadIdle(h), UNCHANGED <<worker, listed, fq>>
  PROVE  /\ Queued'
         /\ tpc'[h] = "idle"
         /\ \A g \in Threads : g # h => /\ tpc'[g] = tpc[g]
                                        /\ tjob'[g] = tjob[g]
                                        /\ ttask'[g] = ttask[g]
<1>1. /\ tpc'[h] = "idle"
      /\ \A g \in Threads : g # h => tpc'[g] = tpc[g] /\ tjob'[g] = tjob[g] /\ ttask'[g] = ttask[g]
  BY DEF ThreadIdle, TypeInv, TypeOK, ThreadTypeOK
<1> QED BY <1>1 DEF DistInv, RetrieverInv, Queued, Fetchable, Analysis

(* Query keeps DistInv. *)
LEMMA QueryInv == ASSUME TypeInv, DistInv, NEW h \in Threads, Query(h) PROVE DistInv'
<1> USE DEF DistInv
<1>0. tjob[h] \in Jobs /\ Fetchable(tjob[h])
  BY DEF Query, TypeInv, TypeOK, ThreadOK, ThreadTypeOK, RetrieverInv, Queued
<1>1. UNCHANGED <<row, worker, report, lost, listed, fq, failing, statusVars>>
  BY DEF Query, nodeVars, reportVars
<1>2. RowInv' /\ StatusInv' /\ NeededKept' /\ ReportAttributed' /\ RetrievedIsThere'
  <2>1. RowInv'
    BY <1>1 DEF RowInv, Flags, Placed, Analysis
  <2>2. NeededKept' /\ ReportAttributed' /\ RetrievedIsThere'
    BY <1>1 DEF Promises, NeededKept, ReportAttributed, RetrievedIsThere, Analysis
  <2> QED BY <1>1, <2>1, <2>2, StatusInvKept
<1>3. ASSUME NEW t \in Tasks, Wanted(tjob[h], t), SetMain(t, "reported"),
             tpc' = [tpc EXCEPT ![h] = "get"], ttask' = [ttask EXCEPT ![h] = t],
             UNCHANGED <<tjob, cleaner>>
      PROVE  DistInv'
  <2>1. /\ tpc'[h] = "get" /\ ttask'[h] = t
        /\ \A g \in Threads : g # h => tpc'[g] = tpc[g] /\ ttask'[g] = ttask[g]
    BY <1>3 DEF TypeInv, TypeOK, ThreadTypeOK
  <2>2. Queued'
    BY <1>0, <1>1, <1>3, <2>1 DEF RetrieverInv, Queued, Fetchable, Analysis
  <2>3. Held'
    BY <1>1, <1>3, <2>1 DEF RetrieverInv, Held, HasReport, Wanted
  <2>4. Cleaning'
    BY <1>1, <1>3 DEF RetrieverInv, Cleaning, HasReport, Wanted, Analysis
  <2>5. DistributedIsThere'
    BY <1>1, <1>3 DEF SetMain, Promises, DistributedIsThere, Analysis, TypeInv, TypeOK, MasterTypeOK
  <2> QED BY <1>2, <2>2, <2>3, <2>4, <2>5 DEF RetrieverInv, Promises
<1>4. ASSUME \A t \in Tasks : ~Wanted(tjob[h], t), cleaner' = cleaner \cup {tjob[h]},
             ThreadIdle(h), UNCHANGED main
      PROVE  DistInv'
  <2>1. /\ Queued' /\ tpc'[h] = "idle"
        /\ \A g \in Threads : g # h => tpc'[g] = tpc[g] /\ tjob'[g] = tjob[g] /\ ttask'[g] = ttask[g]
    BY <1>1, <1>4, IdleInv
  <2>2. Held'
    BY <1>1, <2>1 DEF RetrieverInv, Held, HasReport
  <2>3. Cleaning'
    BY <1>0, <1>1, <1>4 DEF RetrieverInv, Cleaning, HasReport, Wanted, Fetchable, Analysis
  <2>4. DistributedIsThere'
    BY <1>1, <1>4 DEF Promises, DistributedIsThere, Analysis
  <2> QED BY <1>2, <2>1, <2>2, <2>3, <2>4 DEF RetrieverInv, Promises
<1> QED BY <1>3, <1>4 DEF Query

(* A row is marked: it names the same analysis as before, and StatusThread does  *)
(* not work on it.                                                            *)
LEMMA MarkedInv ==
  ASSUME TypeInv, DistInv, NEW t \in Tasks, UNCHANGED <<worker, statusVars>>,
         \A u \in Tasks : u # t => row'[u] = row[u],
         row'[t].state = row[t].state, row'[t].job = row[t].job,
         row'[t].finished = row'[t].retrieved,
         row'[t].notificated => row'[t].retrieved,
         \/ row'[t].retrieved = row[t].retrieved
         \/ row[t].state = "pushed" /\ Analysis(row[t].job).state # "working"
  PROVE  RowInv' /\ StatusInv'
<1> USE DEF DistInv, RowInv
<1>1. Flags'
  BY DEF Flags
<1>2. Placed'
  BY DEF Placed, Analysis
<1>3. Sending'
  BY DEF StatusInv, Sending, statusVars, TypeInv, StatusOK, Submits
<1>4. Listing'
  <2>1. \A u \in todo : u \in Tasks
    BY DEF TypeInv, TypeOK, StatusTypeOK
  <2> QED BY <2>1 DEF StatusInv, Listing, AddPhase, UploadPhase, Submits, statusVars
<1> QED BY <1>1, <1>2, <1>3, <1>4 DEF StatusInv

(* A report is stored for the row that was found, which still names this        *)
(* analysis; the analysis is queued for deletion with its report there, or lost. *)
LEMMA GetInv == ASSUME TypeInv, DistInv, NEW h \in Threads, Get(h) PROVE DistInv'
<1> USE DEF DistInv
<1>0a. PICK t \in Tasks : t = ttask[h]
  BY DEF Get, TypeInv, ThreadOK
<1>0b. PICK j \in Jobs : j = tjob[h]
  BY DEF Get, TypeInv, TypeOK, ThreadOK, ThreadTypeOK
<1>0. /\ row[t].state = "pushed" /\ row[t].job = j
      /\ Fetchable(j) /\ Analysis(j).task = t
  BY <1>0a, <1>0b DEF Get, RetrieverInv, Held, Queued, RowInv, Placed
<1>1. UNCHANGED <<main, row, worker, listed, fq, failing, statusVars>>
  BY DEF Get, masterVars, nodeVars
<1>2. \/ UNCHANGED reportVars /\ UNCHANGED cleaner /\ ThreadIdle(h)
      \/ /\ report' = report /\ lost' = lost \cup {t} /\ cleaner' \in {cleaner, cleaner \cup {j}}
         /\ ThreadIdle(h) \/ (tpc' = [tpc EXCEPT ![h] = "store"] /\ UNCHANGED <<tjob, ttask>>)
      \/ Dropped(t) /\ UNCHANGED cleaner /\ ThreadIdle(h)
      \/ /\ report' = [report EXCEPT ![t] = t] /\ lost' = lost \ {t}
         /\ Analysis(j).state = "reported" /\ cleaner' \in {cleaner, cleaner \cup {j}}
         /\ tpc' = [tpc EXCEPT ![h] = "store"] /\ UNCHANGED <<tjob, ttask>>
  <2>1. Unpacked(h) => /\ report' = [report EXCEPT ![t] = t] /\ lost' = lost \ {t}
                       /\ cleaner' \in {cleaner, cleaner \cup {j}}
    BY <1>0, <1>0a, <1>0b DEF Unpacked
  <2> QED BY <2>1, <1>0a, <1>0b DEF Get, reportVars
<1>3. /\ \A u \in Tasks : u # t => report'[u] = report[u] /\ (u \in lost' <=> u \in lost)
      /\ report'[t] \in {report[t], t, NoTask}
      /\ \A u \in Tasks : HasReport(u) => HasReport(u)'
      /\ cleaner' \subseteq cleaner \cup {j}
      /\ j \in cleaner' => j \in cleaner \/ HasReport(t)'
      /\ Analysis(j).state = "reported" \/ (t \in lost => t \in lost')
  <2>1. report \in [Tasks -> Tasks \cup {NoTask}] /\ NoTask \notin Tasks
    BY DistAssumption DEF TypeInv, TypeOK
  <2>2. CASE UNCHANGED <<reportVars, cleaner>>
    BY <2>2 DEF reportVars, HasReport
  <2>3. CASE report' = report /\ lost' = lost \cup {t} /\ cleaner' \in {cleaner, cleaner \cup {j}}
    BY <2>3 DEF HasReport
  <2>4. CASE Dropped(t) /\ UNCHANGED cleaner
    BY <2>1, <2>4 DEF Dropped, HasReport
  <2>5. CASE /\ report' = [report EXCEPT ![t] = t] /\ lost' = lost \ {t}
             /\ Analysis(j).state = "reported" /\ cleaner' \in {cleaner, cleaner \cup {j}}
    BY <2>1, <2>5 DEF HasReport
  <2> QED BY <1>2, <2>2, <2>3, <2>4, <2>5
<1>5. RowInv' /\ StatusInv'
  BY <1>1, StatusInvKept DEF RowInv, Flags, Placed, Analysis
<1>6. Promises'
  <2>1. DistributedIsThere'
    BY <1>1 DEF Promises, DistributedIsThere, Analysis
  <2>2. NeededKept'
    BY <1>1, <1>3 DEF Promises, NeededKept, HasReport, Analysis
  <2>3. ReportAttributed'
    BY <1>3 DEF Promises, ReportAttributed
  <2>4. RetrievedIsThere'
    BY <1>1, <1>3 DEF Promises, RetrievedIsThere, HasReport
  <2> QED BY <2>1, <2>2, <2>3, <2>4 DEF Promises
<1>7. Cleaning'
  <2>1. ASSUME NEW u \in Tasks, Wanted(j, u), j \in cleaner' PROVE HasReport(u)'
    <3>1. u = t
      BY <1>0, <2>1 DEF Wanted, RowInv, Placed
    <3>2. j \in cleaner => HasReport(t)
      BY <2>1, <3>1 DEF RetrieverInv, Cleaning
    <3> QED BY <1>3, <2>1, <3>1, <3>2
  <2>2. ASSUME NEW k \in cleaner'
        PROVE  /\ Analysis(k).state \notin {"none", "working"}
               /\ \A u \in Tasks : Wanted(k, u) => HasReport(u)'
    <3>1. CASE k = j
      BY <1>0, <2>1, <2>2, <3>1 DEF Fetchable
    <3>2. CASE k \in cleaner
      BY <1>3, <3>2 DEF RetrieverInv, Cleaning
    <3> QED BY <1>3, <3>1, <3>2
  <2>3. ASSUME NEW k \in failing
        PROVE  /\ Analysis(k).state \in {"failed", "deleted"}
               /\ \A u \in Tasks : row[u].state = "pushed" /\ row[u].job = k => u \in lost'
    <3>1. /\ Analysis(k).state \in {"failed", "deleted"}
          /\ \A u \in Tasks : row[u].state = "pushed" /\ row[u].job = k => u \in lost
      BY DEF RetrieverInv, Cleaning
    <3>2. ASSUME row[t].job = k PROVE t \in lost => t \in lost'
      BY <1>0, <1>3, <3>1, <3>2
    <3> QED BY <1>3, <3>1, <3>2
  <2> QED BY <1>1, <2>2, <2>3 DEF Cleaning, Wanted, Analysis
<1>8. Queued' /\ Held'
  <2>1. CASE ThreadIdle(h)
    <3>1. /\ Queued' /\ tpc'[h] = "idle"
          /\ \A g \in Threads : g # h => tpc'[g] = tpc[g] /\ tjob'[g] = tjob[g] /\ ttask'[g] = ttask[g]
      BY <1>1, <2>1, IdleInv
    <3>2. Held'
      BY <1>1, <1>3, <3>1 DEF RetrieverInv, Held, TypeInv, ThreadOK
    <3> QED BY <3>1, <3>2
  <2>2. CASE /\ tpc' = [tpc EXCEPT ![h] = "store"]
             /\ UNCHANGED <<tjob, ttask>>
             /\ HasReport(t)'
    <3>1. tpc[h] = "get" /\ tpc'[h] = "store" /\ \A g \in Threads : g # h => tpc'[g] = tpc[g]
      BY <2>2 DEF Get, TypeInv, TypeOK, ThreadTypeOK
    <3>2. Queued'
      BY <1>1, <2>2, <3>1 DEF RetrieverInv, Queued, Fetchable, Analysis
    <3>3. Held'
      BY <1>0a, <1>1, <1>3, <2>2, <3>1 DEF RetrieverInv, Held, TypeInv, ThreadOK
    <3> QED BY <3>2, <3>3
  <2>3. \/ ThreadIdle(h)
        \/ /\ tpc' = [tpc EXCEPT ![h] = "store"]
           /\ UNCHANGED <<tjob, ttask>>
           /\ HasReport(t)'
    <3>1. report' = [report EXCEPT ![t] = t] => report'[t] = t
      BY DEF TypeInv, TypeOK
    <3> QED BY <1>2, <3>1 DEF HasReport
  <2> QED BY <2>1, <2>2, <2>3
<1> QED BY <1>5, <1>6, <1>7, <1>8 DEF RetrieverInv

(* A row is marked by a thread that has its report, or has lost it; one that        *)
(* fails deletes the report and leaves the row.                                   *)
LEMMA StoreInv == ASSUME TypeInv, DistInv, NEW h \in Threads, Store(h) PROVE DistInv'
<1> USE DEF DistInv
<1>0a. PICK t \in Tasks : t = ttask[h]
  BY DEF Store, TypeInv, ThreadOK
<1>0. /\ row[t].state = "pushed" /\ row[t].job \in Jobs /\ Fetchable(row[t].job)
      /\ HasReport(t)
  BY <1>0a DEF Store, RetrieverInv, Held, Queued, RowInv, Placed
<1>1. UNCHANGED <<main, worker, listed, fq, cleaner, failing, statusVars>> /\ ThreadIdle(h)
  BY DEF Store, nodeVars
<1>2. /\ Queued' /\ tpc'[h] = "idle"
      /\ \A g \in Threads : g # h => tpc'[g] = tpc[g] /\ tjob'[g] = tjob[g] /\ ttask'[g] = ttask[g]
  BY <1>1, IdleInv
<1>3. ASSUME row' = [row EXCEPT ![t].finished = TRUE, ![t].retrieved = TRUE], UNCHANGED reportVars
      PROVE  DistInv'
  <2>1. /\ \A u \in Tasks : u # t => row'[u] = row[u]
        /\ row'[t].state = row[t].state /\ row'[t].job = row[t].job
        /\ row'[t].finished = TRUE /\ row'[t].retrieved = TRUE
        /\ row'[t].notificated = row[t].notificated
    BY <1>3 DEF TypeInv, TypeOK, MasterTypeOK, RowType
  <2>0. report' = report /\ lost' = lost
    BY <1>3 DEF reportVars
  <2>2. RowInv' /\ StatusInv'
    BY <1>0, <1>1, <2>1, MarkedInv DEF Fetchable
  <2>3. Held'
    <3>2. ASSUME NEW g \in Threads, tpc'[g] \in {"get", "store"}
          PROVE  /\ g # h /\ tpc'[g] = tpc[g] /\ tjob'[g] = tjob[g] /\ ttask'[g] = ttask[g]
                 /\ ttask[g] \in Tasks
      BY <1>2, <3>2 DEF TypeInv, ThreadOK
    <3>3. \A u \in Tasks : row'[u].state = row[u].state /\ row'[u].job = row[u].job
      BY <2>1
    <3> QED BY <2>0, <3>2, <3>3 DEF RetrieverInv, Held, HasReport
  <2>4. Cleaning'
    BY <1>1, <2>0, <2>1 DEF RetrieverInv, Cleaning, Wanted, HasReport, Analysis
  <2>5a. DistributedIsThere' /\ ReportAttributed'
    BY <1>1, <2>0, <2>1 DEF Promises, DistributedIsThere, ReportAttributed, Analysis
  <2>5. NeededKept'
    BY <1>1, <2>0, <2>1 DEF Promises, NeededKept, Analysis
  <2>6. RetrievedIsThere'
    BY <1>0, <2>0, <2>1 DEF Promises, RetrievedIsThere, HasReport
  <2> QED BY <1>2, <2>2, <2>3, <2>4, <2>5a, <2>5, <2>6 DEF RetrieverInv, Promises
<1>4. ASSUME Dropped(t) \/ UNCHANGED reportVars, UNCHANGED row
      PROVE  DistInv'
  <2>1. /\ report'[t] \in {report[t], NoTask} /\ lost \subseteq lost'
        /\ \A u \in Tasks : u # t => report'[u] = report[u]
        /\ \A u \in Tasks : HasReport(u) => HasReport(u)'
    <3>1. report \in [Tasks -> Tasks \cup {NoTask}] /\ NoTask \notin Tasks
      BY DistAssumption DEF TypeInv, TypeOK
    <3> QED BY <1>4, <3>1 DEF HasReport, Dropped, reportVars
  <2>2. RowInv' /\ StatusInv'
    BY <1>1, <1>4, StatusInvKept DEF RowInv, Flags, Placed, Analysis
  <2>3. Held'
    BY <1>2, <1>4, <2>1 DEF RetrieverInv, Held, TypeInv, ThreadOK
  <2>4. Cleaning'
    BY <1>1, <1>4, <2>1 DEF RetrieverInv, Cleaning, Wanted, Analysis
  <2>5. DistributedIsThere'
    BY <1>1, <1>4 DEF Promises, DistributedIsThere, Analysis
  <2>6. NeededKept' /\ RetrievedIsThere'
    BY <1>1, <1>4, <2>1 DEF Promises, NeededKept, RetrievedIsThere, HasReport, Analysis
  <2>7. ReportAttributed'
    BY <2>1 DEF Promises, ReportAttributed
  <2> QED BY <1>2, <2>2, <2>3, <2>4, <2>5, <2>6, <2>7 DEF RetrieverInv, Promises
<1> QED BY <1>0a, <1>3, <1>4 DEF Store

(* No thread fetches an analysis that failed: it is lost before it is queued for    *)
(* deletion.                                                                     *)
LEMMA FailedCleanerInv ==
  ASSUME TypeInv, DistInv, NEW j \in Jobs, FailedCleaner(j)
  PROVE  DistInv'
<1> USE DEF DistInv
<1>0. Analysis(j).state = "failed"
  BY DEF FailedCleaner
<1>1. /\ UNCHANGED <<row, worker, report, listed, fq, tpc, tjob, ttask, statusVars>>
      /\ cleaner' = cleaner \cup {j} /\ lost \subseteq lost' /\ failing' \subseteq failing \cup {j}
      /\ \A t \in Tasks : row[t].state = "pushed" /\ row[t].job = j => t \in lost' \/ failing' = failing
  <2>1. ASSUME NEW t \in Tasks, NEW u \in Tasks,
               row[t].state = "pushed", row[t].job = j, row[u].state = "pushed", row[u].job = j
        PROVE  t = u
    BY <2>1 DEF RowInv, Placed
  <2> QED BY <2>1 DEF FailedCleaner, nodeVars, threadVars
<1>2. \A t \in Tasks : HasReport(t) => HasReport(t)'
  BY <1>1 DEF HasReport
<1>3. \A t \in Tasks : Wanted(j, t) => HasReport(t)'
  <2>1. ASSUME NEW t \in Tasks, Wanted(j, t) PROVE t \in lost'
    <3>1. \A u \in Tasks : row[u].state = "pushed" /\ row[u].job = j => u = t
      BY <2>1 DEF Wanted, RowInv, Placed
    <3> QED BY <2>1, <3>1 DEF FailedCleaner, Wanted
  <2> QED BY <2>1 DEF HasReport
<1>4. RowInv' /\ StatusInv'
  BY <1>1, StatusInvKept DEF RowInv, Flags, Placed, Analysis
<1>5. Queued' /\ ReportAttributed'
  BY <1>1 DEF RetrieverInv, Queued, Fetchable, Analysis, Promises, ReportAttributed
<1>6. Held'
  BY <1>1, <1>2 DEF RetrieverInv, Held, TypeInv, ThreadOK
<1>7. Cleaning'
  <2>1. ASSUME NEW k \in cleaner'
        PROVE  /\ Analysis(k).state \notin {"none", "working"}
               /\ \A t \in Tasks : Wanted(k, t) => HasReport(t)'
    BY <1>0, <1>1, <1>2, <1>3, <2>1 DEF RetrieverInv, Cleaning
  <2>2. ASSUME NEW k \in failing'
        PROVE  /\ Analysis(k).state \in {"failed", "deleted"}
               /\ \A t \in Tasks : row[t].state = "pushed" /\ row[t].job = k => t \in lost'
    <3>1. CASE k \in failing
      BY <1>1, <3>1 DEF RetrieverInv, Cleaning
    <3>2. CASE k = j /\ failing' # failing
      BY <1>0, <1>1, <3>2
    <3> QED BY <1>1, <2>2, <3>1, <3>2
  <2> QED BY <1>1, <2>1, <2>2 DEF Cleaning, Wanted, Analysis
<1>8. DistributedIsThere'
  <2>1. \A u \in Tasks : main'[u] = "distributed" => main[u] = "distributed"
    BY DEF FailedCleaner, SetMain, TypeInv, TypeOK, MasterTypeOK
  <2> QED BY <1>1, <2>1 DEF Promises, DistributedIsThere, Analysis
<1>9. NeededKept' /\ RetrievedIsThere'
  BY <1>1, <1>2 DEF Promises, NeededKept, RetrievedIsThere, HasReport, Analysis
<1> QED BY <1>4, <1>5, <1>6, <1>7, <1>8, <1>9 DEF RetrieverInv, Promises

(* The rows failed_cleaner marks are those of analyses that are lost. *)
LEMMA FailedCommitInv == ASSUME TypeInv, DistInv, FailedCommit PROVE DistInv'
<1> USE DEF DistInv
<1>1. /\ UNCHANGED <<main, worker, report, lost, listed, fq, cleaner, tpc, tjob, ttask, statusVars>>
      /\ failing' = {}
  BY DEF FailedCommit, nodeVars, threadVars, reportVars
<1>2. ASSUME NEW t \in Tasks
      PROVE  /\ row'[t].state = row[t].state /\ row'[t].job = row[t].job
             /\ \/ row'[t] = row[t]
                \/ /\ row'[t].finished = TRUE /\ row'[t].retrieved = TRUE
                   /\ row[t].state = "pushed" /\ row[t].job \in failing
  BY DEF FailedCommit, TypeInv, TypeOK, MasterTypeOK, RowType
<1>3. ASSUME NEW t \in Tasks, row'[t] # row[t]
      PROVE  t \in lost /\ Analysis(row[t].job).state # "working"
  BY <1>2, <1>3 DEF RetrieverInv, Cleaning
<1>4. RowInv'
  <2>1. Flags'
    BY <1>2 DEF RowInv, Flags
  <2>2. ASSUME NEW t \in Tasks, row'[t].retrieved, row[t].state = "pushed"
        PROVE  Analysis(row[t].job).state # "working"
    BY <1>3, <2>2 DEF RowInv, Placed
  <2>3. Placed'
    <3>1. \A j : Analysis(j)' = Analysis(j)
      BY <1>1 DEF Analysis
    <3>2. \A t \in Tasks : row'[t].state = row[t].state /\ row'[t].job = row[t].job
      BY <1>2
    <3>3. ASSUME NEW t \in Tasks, row'[t].state = "pushed"
          PROVE  /\ row[t].job \in Jobs
                 /\ Analysis(row[t].job).task = t
                 /\ Analysis(row[t].job).state # "none"
                 /\ row'[t].retrieved => Analysis(row[t].job).state # "working"
      BY <2>2, <3>2, <3>3 DEF RowInv, Placed
    <3> QED BY <3>1, <3>2, <3>3 DEF Placed
  <2> QED BY <2>1, <2>3 DEF RowInv
<1>5. StatusInv'
  <2>1. ASSUME NEW t \in Tasks, row[t].state = "new" PROVE row'[t] = row[t]
    BY <1>2, <2>1
  <2>2. Sending'
    BY <1>1, <1>2, <2>1 DEF StatusInv, Sending, statusVars, TypeInv, StatusOK, Submits
  <2>3. Listing'
    <3>1. \A u \in todo : u \in Tasks
      BY DEF TypeInv, TypeOK, StatusTypeOK
    <3> QED BY <1>1, <1>2, <2>1, <3>1
            DEF StatusInv, Listing, AddPhase, UploadPhase, Submits, statusVars
  <2> QED BY <2>2, <2>3 DEF StatusInv
<1>6. Queued' /\ ReportAttributed'
  BY <1>1 DEF RetrieverInv, Queued, Fetchable, Analysis, Promises, ReportAttributed
<1>7. Held'
  BY <1>1, <1>2 DEF RetrieverInv, Held, HasReport, TypeInv, ThreadOK
<1>8. Cleaning'
  <2>1. ASSUME NEW k, NEW t \in Tasks, Wanted(k, t)' PROVE Wanted(k, t)
    BY <1>2, <2>1 DEF Wanted
  <2> QED BY <1>1, <2>1 DEF RetrieverInv, Cleaning, HasReport, Analysis
<1>9. DistributedIsThere'
  BY <1>1, <1>2 DEF Promises, DistributedIsThere, Analysis
<1>10. NeededKept'
  BY <1>1, <1>2 DEF Promises, NeededKept, Analysis
<1>11. RetrievedIsThere'
  BY <1>1, <1>2, <1>3 DEF Promises, RetrievedIsThere
<1> QED BY <1>4, <1>5, <1>6, <1>7, <1>8, <1>9, <1>10, <1>11 DEF RetrieverInv, Promises

(* Notify keeps DistInv. *)
LEMMA NotifyInv == ASSUME TypeInv, DistInv, NEW t \in Tasks, Notify(t) PROVE DistInv'
<1> USE DEF DistInv
<1>1. UNCHANGED <<worker, report, lost, listed, fq, cleaner, failing, tpc, tjob, ttask, statusVars>>
  BY DEF Notify, nodeVars, queueVars, threadVars, reportVars
<1>2. /\ \A u \in Tasks : u # t => row'[u] = row[u]
      /\ row'[t].state = row[t].state /\ row'[t].job = row[t].job
      /\ row'[t].finished = row[t].finished /\ row'[t].retrieved = row[t].retrieved
      /\ row[t].retrieved
      /\ row[t].notificated => row'[t].notificated
  BY DEF Notify, TypeInv, TypeOK, MasterTypeOK, RowType
<1>3. RowInv' /\ StatusInv'
  <2>1. row'[t].finished = row'[t].retrieved /\ (row'[t].notificated => row'[t].retrieved)
    BY <1>2 DEF RowInv, Flags
  <2> QED BY <1>1, <1>2, <2>1, MarkedInv
<1>4. Queued' /\ ReportAttributed'
  BY <1>1 DEF RetrieverInv, Queued, Fetchable, Analysis, Promises, ReportAttributed
<1>5. Held'
  <2>1. \A u \in Tasks : row'[u].state = row[u].state /\ row'[u].job = row[u].job
                         /\ row'[u].retrieved = row[u].retrieved
    BY <1>2
  <2> QED BY <1>1, <2>1 DEF RetrieverInv, Held, HasReport, TypeInv, ThreadOK
<1>6. Cleaning'
  <2>1. ASSUME NEW k, NEW u \in Tasks, Wanted(k, u)' PROVE Wanted(k, u)
    BY <1>2, <2>1 DEF Wanted
  <2>2. \A u \in Tasks : row'[u].state = row[u].state /\ row'[u].job = row[u].job
    BY <1>2
  <2> QED BY <1>1, <2>1, <2>2 DEF RetrieverInv, Cleaning, HasReport, Analysis
<1>7. DistributedIsThere'
  <2>1. \A u \in Tasks : main'[u] = "distributed" => main[u] = "distributed"
    BY DEF Notify, SetMain, TypeInv, TypeOK, MasterTypeOK
  <2> QED BY <1>1, <1>2, <2>1 DEF Promises, DistributedIsThere, Analysis
<1>8. NeededKept'
  BY <1>1, <1>2 DEF Promises, NeededKept, Analysis
<1>9. RetrievedIsThere'
  BY <1>1, <1>2 DEF Promises, RetrievedIsThere
<1> QED BY <1>3, <1>4, <1>5, <1>6, <1>7, <1>8, <1>9 DEF RetrieverInv, Promises

(* Disabling and enabling a node, and removing a task, keep DistInv. *)
LEMMA OperatorInv ==
  ASSUME TypeInv, DistInv, \/ \E n \in Nodes : Disable(n) \/ Enable(n)
                           \/ \E t \in Tasks : RemoveTask(t)
  PROVE  DistInv'
<1> USE DEF DistInv
<1>1. UNCHANGED <<row, worker, reportVars, statusVars, queueVars, threadVars>>
  BY DEF Disable, Enable, RemoveTask, masterVars, nodeVars
<1>2. \A t \in Tasks : main'[t] = "distributed" => main[t] = "distributed"
  BY DEF Disable, Enable, RemoveTask, masterVars, TypeInv, TypeOK, MasterTypeOK
<1>3. Placed' /\ RetrieverInv' /\ NeededKept' /\ ReportAttributed' /\ RetrievedIsThere'
  BY <1>1, OwnRows
<1>4. Flags' /\ StatusInv'
  BY <1>1, StatusInvKept DEF RowInv, Flags
<1>5. DistributedIsThere'
  BY <1>1, <1>2 DEF Promises, DistributedIsThere, Analysis
<1> QED BY <1>3, <1>4, <1>5 DEF RowInv, Promises

(* A restart loses the queues and the threads, and what is left in the database  *)
(* still holds.                                                               *)
LEMMA RestartInv == ASSUME TypeInv, DistInv, Restart PROVE DistInv'
<1> USE DEF DistInv
<1>1. UNCHANGED <<main, row, worker, report>> /\ lost \subseteq lost'
  BY DEF Restart, masterVars, nodeVars
<1>2. StatusInv'
  BY DEF Restart, StatusInv, Sending, Listing, AddPhase, UploadPhase, Submits
<1>3. RetrieverInv'
  BY DEF Restart, RetrieverInv, Queued, Held, Cleaning
<1>4. RowInv'
  BY <1>1 DEF RowInv, Flags, Placed, Analysis
<1>5. Promises'
  BY <1>1 DEF Promises, DistributedIsThere, NeededKept, ReportAttributed, RetrievedIsThere, Analysis
<1> QED BY <1>2, <1>3, <1>4, <1>5

(* Every step keeps DistInv. *)
LEMMA NextInv == ASSUME TypeInv, DistInv, [Next]_vars PROVE DistInv'
<1>1. CASE StatusThread
  BY <1>1, NodesInv, BalanceInv, ListTasksInv, AddRowInv, AddDoneInv, UploadInv,
     PostInv, CommitInv, MarkInv DEF StatusThread
<1>2. CASE Fetcher
  BY <1>2, FetchListInv, FetchItemInv DEF Fetcher
<1>3. CASE \E h \in Threads : FetchThread(h)
  BY <1>3, TakeInv, QueryInv, GetInv, StoreInv DEF FetchThread
<1>4. CASE OtherThreads
  BY <1>4, RemoveFromWorkerInv, FailedCleanerInv, FailedCommitInv, NotifyInv, CronCleanerInv
  DEF OtherThreads
<1>5. CASE Environment
  BY <1>5, AnalyseInv, OperatorInv, RestartInv DEF Environment
<1>6. CASE UNCHANGED vars
  BY <1>6, RestKept, StatusInvKept DEF vars, DistInv, masterVars, nodeVars
<1> QED BY <1>1, <1>2, <1>3, <1>4, <1>5, <1>6 DEF Next

(* DistInv holds in every reachable state. *)
LEMMA DistInvariant == Spec => []DistInv
<1>1. DistInv /\ TypeInv /\ [Next]_vars => DistInv'
  BY NextInv
<1> QED BY InitInv, TypeInvariant, <1>1, PTL DEF Spec

(* What the master shows as distributed is at a worker, whichever of the steps    *)
(* between the row and the status (dist.py 877-887, 945-953) a restart, a lost     *)
(* answer or a list that is out of date falls into.                             *)
THEOREM DistributedTasksAreThere == Spec => []DistributedIsThere
<1>1. DistInv => DistributedIsThere
  BY DEF DistInv, Promises
<1> QED BY DistInvariant, <1>1, PTL

(* Neither the fetcher, nor a fetching thread, nor failed_cleaner nor             *)
(* cron_cleaner has an analysis deleted that the master waits for, whatever they    *)
(* read of its row and however long ago: its report is there, or one of the losses  *)
(* that NeededKept names has happened to it.                                     *)
THEOREM NeededAnalysesAreKept == Spec => []NeededKept
<1>1. DistInv => NeededKept
  BY DEF DistInv, Promises
<1> QED BY DistInvariant, <1>1, PTL

(* A report is stored in the folder of its own task, although the ids of          *)
(* different workers coincide and tasks are submitted twice (dist.py 705-710).    *)
THEOREM ReportsAreAttributed == Spec => []ReportAttributed
<1>1. DistInv => ReportAttributed
  BY DEF DistInv, Promises
<1> QED BY DistInvariant, <1>1, PTL

(* A row that the threads of Retriever have marked as retrieved has its report    *)
(* (dist.py 786), with the exceptions RetrievedIsThere names.                 *)
THEOREM RetrievedReportsAreThere == Spec => []RetrievedIsThere
<1>1. DistInv => RetrievedIsThere
  BY DEF DistInv, Promises
<1> QED BY DistInvariant, <1>1, PTL

=============================================================================
