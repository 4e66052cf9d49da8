------------------------------- MODULE Session -------------------------------
(***************************************************************************)
(* One analysis after the other on the machines: what launch_analysis does   *)
(* between add_task and del_task (lib/cuckoo/core/scheduler.py), the         *)
(* GuestManager it uses (lib/cuckoo/core/guest.py), the agent in the guest   *)
(* (agent/agent.py), the analyzer the agent runs, and the ResultServer that  *)
(* the analyzer and the processes it watches connect to.                     *)
(*                                                                           *)
(* A machine has one analysis at a time (Scheduler), so the managers are     *)
(* named by their machines.  The agent serves one request at a time: a       *)
(* request and its answer are one step.  Faults names the failures of the    *)
(* environment that may happen, MaxFaults of them.                           *)
(*                                                                           *)
(* Abstracted: the requests between pinning and /execpy (environ, mkdtemp,   *)
(* extract, store) differ only in what they carry and are one step each way  *)
(* they can end; that the start of the machine or the routes may fail is in  *)
(* Scheduler and Rooter, and so is what happens before guest_start.          *)
(***************************************************************************)
EXTENDS Naturals, ResultServer

CONSTANTS
    Faults,      \* the failures that may happen
    MaxFaults    \* bound: how many failures happen

FaultKinds ==
    {"http",      \* the agent answers with an error
     "net",       \* a connection to the agent is refused or reset
     "hang",      \* the guest stops answering
     "reboot",    \* the guest restarts itself
     "stop",      \* machinery.stop raises and the machine keeps running
     "delete"}    \* the task is deleted, and with it the row of its guest

ASSUME SessionAssumption == Faults \subseteq FaultKinds /\ MaxFaults \in Nat

VARIABLES
    mpc,       \* where the manager of a machine is
    job,       \* the task of its analysis
    todo,      \* the tasks still to be analysed
    dead,      \* dead_machine is set
    gstatus,   \* the status of the guest row of a task; "none": no row
    agent,     \* state["status"] of the agent; "none": it does not listen
    analyzer,  \* whether the analyzer has been started since the guest has
    reported,  \* what the analyzer of this boot has ended with
    hung,      \* the guest answers nothing any more
    faults     \* how many failures are still to come

mgrVars   == <<mpc, job, todo, dead, gstatus>>
guestVars == <<agent, analyzer, reported, hung>>
vars      == <<rsVars, mgrVars, guestVars, faults>>

ManagerPC == {"idle", "boot", "starting", "available", "index", "pinning", "upload",
              "execpy", "started", "completion", "stopping", "halt", "gstop",
              "forget", "leaked", "dead"}

GuestStatus == {"none", "init", "starting", "running", "stopping", "complete", "failed"}

AgentStatus == {"none", "init", "running", "failed", "complete", "exception"}

TypeOK ==
    /\ RSTypeOK
    /\ mpc \in [Machines -> ManagerPC]
    /\ job \in [Machines -> TaskIds \cup {NoTask}]
    /\ todo \in SUBSET TaskIds
    /\ dead \in SUBSET Machines
    /\ gstatus \in [TaskIds -> GuestStatus]
    /\ agent \in [Machines -> AgentStatus]
    /\ analyzer \in [Machines -> BOOLEAN]
    /\ reported \in [Machines -> {"none", "complete", "exception", "silent"}]
    /\ hung \in [Machines -> BOOLEAN]
    /\ faults \in 0..MaxFaults

Init ==
    /\ RSInit
    /\ mpc = [m \in Machines |-> "idle"]
    /\ job = [m \in Machines |-> NoTask]
    /\ todo = TaskIds
    /\ dead = {}
    /\ gstatus = [t \in TaskIds |-> "none"]
    /\ agent = [m \in Machines |-> "none"]
    /\ analyzer = [m \in Machines |-> FALSE]
    /\ reported = [m \in Machines |-> "none"]
    /\ hung = [m \in Machines |-> FALSE]
    /\ faults = MaxFaults

Fault(k) == k \in Faults /\ faults > 0 /\ faults' = faults - 1

NoFault == UNCHANGED faults

Goto(m, p) == mpc' = [mpc EXCEPT ![m] = p]

(* guest_set_status: nothing, if the row is gone. *)
SetStatus(t, s) ==
    gstatus' = [gstatus EXCEPT ![t] = IF @ = "none" THEN "none" ELSE s]

-----------------------------------------------------------------------------
(* launch_analysis *)

(* ResultServer().add_task and guest_start *)
Launch(m) ==
    /\ mpc[m] = "idle"
    /\ \E t \in todo :
         /\ AddTask(m, t)
         /\ job' = [job EXCEPT ![m] = t]
         /\ todo' = todo \ {t}
         /\ gstatus' = [gstatus EXCEPT ![t] = "init"]
    /\ Goto(m, "boot")
    /\ UNCHANGED <<dead, guestVars>> /\ NoFault

(* What the guest was doing is gone with its memory. *)
GuestGone(m) ==
    /\ agent' = [agent EXCEPT ![m] = "none"]
    /\ analyzer' = [analyzer EXCEPT ![m] = FALSE]
    /\ reported' = [reported EXCEPT ![m] = "none"]
    /\ hung' = [hung EXCEPT ![m] = FALSE]

(* machinery.start reverts the machine to its snapshot and boots it; it        *)
(* refuses one that still runs, which is then dead.                          *)
Boot(m) ==
    /\ mpc[m] = "boot"
    /\ \/ /\ PowerOn(m, job[m])
          /\ GuestGone(m)
          /\ Goto(m, "starting")
          /\ UNCHANGED dead
       \/ /\ vm[m] # NoTask
          /\ Goto(m, "halt")
          /\ dead' = dead \cup {m}
          /\ UNCHANGED <<rsVars, guestVars>>
    /\ UNCHANGED <<job, todo, gstatus>> /\ NoFault

Starting(m) ==
    /\ mpc[m] = "starting"
    /\ SetStatus(job[m], "starting")
    /\ Goto(m, "available")
    /\ UNCHANGED <<rsVars, job, todo, dead, guestVars>> /\ NoFault

-----------------------------------------------------------------------------
(* GuestManager.start_analysis *)

Listening(m) == agent[m] # "none" /\ ~hung[m]

(* wait_available: until the agent listens, the row is gone or the time is    *)
(* up (CuckooGuestCriticalTimeout).                                          *)
WaitAvailable(m) ==
    /\ mpc[m] = "available"
    /\ \/ gstatus[job[m]] # "starting" /\ Goto(m, "started")
       \/ gstatus[job[m]] = "starting" /\ Listening(m) /\ Goto(m, "index")
       \/ gstatus[job[m]] = "starting" /\ ~Listening(m) /\ Goto(m, "halt")
    /\ UNCHANGED <<rsVars, job, todo, dead, gstatus, guestVars>> /\ NoFault

(* A request without a time-out: a connection that fails is a                 *)
(* CuckooGuestError, a guest that hangs is waited for for ever.              *)
Refused(m) ==
    \/ agent[m] = "none" /\ ~hung[m] /\ NoFault
    \/ Listening(m) /\ Fault("net")

(* GET /: an answer that is not the agent's is no exception. *)
Index(m) ==
    /\ mpc[m] = "index"
    /\ \/ Listening(m) /\ NoFault /\ Goto(m, "pinning") /\ UNCHANGED gstatus
       \/ Refused(m) /\ Goto(m, "halt") /\ UNCHANGED gstatus
       \/ /\ Listening(m) /\ Fault("http")
          /\ SetStatus(job[m], "failed") /\ Goto(m, "started")
    /\ UNCHANGED <<rsVars, job, todo, dead, guestVars>>

(* GET /pinning; query_environ, upload_analyzer, add_config, the sample and   *)
(* upload_support_files.  HTTPError is none of the exceptions launch_analysis *)
(* expects, but its finally block is carried out.                            *)
Request(m, p, q) ==
    /\ mpc[m] = p
    /\ \/ Listening(m) /\ NoFault /\ Goto(m, q)
       \/ Refused(m) /\ Goto(m, "halt")
       \/ Listening(m) /\ Fault("http") /\ Goto(m, "halt")
    /\ UNCHANGED <<rsVars, job, todo, dead, gstatus, guestVars>>

(* do_execpy, up to its answer *)
RunAnalyzer(m) ==
    /\ agent' = [agent EXCEPT ![m] = "running"]
    /\ analyzer' = [analyzer EXCEPT ![m] = TRUE]

(* POST /execpy: the answer may be lost when the analyzer runs already; if    *)
(* it cannot be started the answer is an error.                              *)
ExecPy(m) ==
    /\ mpc[m] = "execpy"
    /\ \/ Listening(m) /\ RunAnalyzer(m) /\ NoFault /\ Goto(m, "started")
       \/ Listening(m) /\ RunAnalyzer(m) /\ Fault("net") /\ Goto(m, "halt")
       \/ Refused(m) /\ Goto(m, "halt") /\ UNCHANGED <<agent, analyzer>>
       \/ /\ Listening(m) /\ Fault("http") /\ Goto(m, "halt")
          /\ agent' = [agent EXCEPT ![m] = "failed"] /\ UNCHANGED analyzer
    /\ UNCHANGED <<rsVars, job, todo, dead, gstatus, reported, hung>>

-----------------------------------------------------------------------------
(* GuestManager.wait_for_completion, and what launch_analysis does around it. *)

Started(m) ==
    /\ mpc[m] = "started"
    /\ IF gstatus[job[m]] = "starting"
       THEN SetStatus(job[m], "running") /\ Goto(m, "completion")
       ELSE UNCHANGED gstatus /\ Goto(m, "stopping")
    /\ UNCHANGED <<rsVars, job, todo, dead, guestVars>> /\ NoFault

(* Mutant: whatever does not run has completed. *)
PollNotRunning(m) ==
    /\ Listening(m)
    /\ \/ agent[m] = "exception" /\ SetStatus(job[m], "failed")
       \/ agent[m] \notin {"running", "exception"} /\ SetStatus(job[m], "complete")

(* GET /status, with a time-out: an answer that counts.  Any other, and any   *)
(* failure, leaves the manager in its loop.                                  *)
Poll(m) ==
    /\ Listening(m)
    /\ \/ agent[m] = "complete" /\ SetStatus(job[m], "complete")
       \/ agent[m] = "exception" /\ SetStatus(job[m], "failed")

(* Mutant: the time is looked at once the agent has answered. *)
WaitForAnswer(m) ==
    /\ mpc[m] = "completion"
    /\ \/ gstatus[job[m]] # "running" /\ UNCHANGED gstatus
       \/ gstatus[job[m]] = "running" /\ Poll(m)
       \/ gstatus[job[m]] = "running" /\ Listening(m) /\ UNCHANGED gstatus
    /\ Goto(m, "stopping")
    /\ UNCHANGED <<rsVars, job, todo, dead, guestVars>> /\ NoFault

(* The loop ends when the row is gone, the agent has answered that the        *)
(* analyzer has ended, or the critical time-out has passed.                  *)
WaitForCompletion(m) ==
    /\ mpc[m] = "completion"
    /\ \/ gstatus[job[m]] # "running" /\ UNCHANGED gstatus
       \/ gstatus[job[m]] = "running" /\ Poll(m)
       \/ gstatus[job[m]] = "running" /\ UNCHANGED gstatus
    /\ Goto(m, "stopping")
    /\ UNCHANGED <<rsVars, job, todo, dead, guestVars>> /\ NoFault

Stopping(m) ==
    /\ mpc[m] = "stopping"
    /\ SetStatus(job[m], "stopping")
    /\ Goto(m, "halt")
    /\ UNCHANGED <<rsVars, job, todo, dead, guestVars>> /\ NoFault

(* machinery.stop; an error is logged. *)
MachineryStop(m) ==
    /\ mpc[m] = "halt"
    /\ \/ PowerOff(m) /\ GuestGone(m) /\ NoFault
       \/ UNCHANGED <<rsVars, guestVars>> /\ Fault("stop")
    /\ Goto(m, "gstop")
    /\ UNCHANGED <<job, todo, dead, gstatus>>

(* guest_stop: without the row it raises, and del_task is not reached. *)
GuestStop(m) ==
    /\ mpc[m] = "gstop"
    /\ Goto(m, IF gstatus[job[m]] = "none" THEN "leaked" ELSE "forget")
    /\ UNCHANGED <<rsVars, job, todo, dead, gstatus, guestVars>> /\ NoFault

(* The machine is released; a dead one stays locked and its guest row is       *)
(* removed (guest_remove).  The manager launches its task again, and asks for  *)
(* the dead machine for ever (Scheduler, run dead_machine): it does not come   *)
(* back to the ResultServer.                                                  *)
Release(m) ==
    /\ Goto(m, IF m \in dead THEN "dead" ELSE "idle")
    /\ gstatus' = IF m \in dead THEN [gstatus EXCEPT ![job[m]] = "none"] ELSE gstatus
    /\ UNCHANGED <<job, todo, dead, guestVars>> /\ NoFault

(* Mutant: a machine that has not been stopped is not forgotten. *)
ForgetStopped(m) ==
    /\ mpc[m] = "forget"
    /\ IF vm[m] = NoTask THEN DelTask(m, job[m]) ELSE UNCHANGED rsVars
    /\ Release(m)

(* ResultServer().del_task, and the rest of the finally block. *)
Forget(m) ==
    /\ mpc[m] = "forget"
    /\ DelTask(m, job[m])
    /\ Release(m)

-----------------------------------------------------------------------------
(* The guest *)

AgentUp(m) ==
    /\ vm[m] # NoTask /\ ~hung[m]
    /\ agent[m] = "none"
    /\ agent' = [agent EXCEPT ![m] = "init"]
    /\ UNCHANGED <<rsVars, mgrVars, analyzer, reported, hung>> /\ NoFault

(* The analyzer ends, and posts its status to the agent; after an exception   *)
(* it has not foreseen it posts none.                                        *)
AnalyzerEnds(m) ==
    /\ vm[m] # NoTask /\ ~hung[m]
    /\ analyzer[m] /\ reported[m] = "none"
    /\ \E r \in {"complete", "exception", "silent"} :
         /\ reported' = [reported EXCEPT ![m] = r]
         /\ agent' = IF r = "silent" THEN agent ELSE [agent EXCEPT ![m] = r]
    /\ UNCHANGED <<rsVars, mgrVars, analyzer, hung>> /\ NoFault

Reboot(m) ==
    /\ vm[m] # NoTask /\ ~hung[m]
    /\ Fault("reboot")
    /\ GuestGone(m)
    /\ UNCHANGED <<rsVars, mgrVars>>

Hang(m) ==
    /\ vm[m] # NoTask /\ ~hung[m]
    /\ Fault("hang")
    /\ hung' = [hung EXCEPT ![m] = TRUE]
    /\ UNCHANGED <<rsVars, mgrVars, agent, analyzer, reported>>

(* The analyzer and the monitored processes talk to the ResultServer. *)
Netlog(m) ==
    /\ analyzer[m] /\ ~hung[m]
    /\ \/ \E c \in Conns : Connect(m, c)
       \/ \E c \in Conns : conn[c].at = m /\ (Send(c) \/ Close(c))
    /\ UNCHANGED <<mgrVars, guestVars>> /\ NoFault

(* A user deletes the task under analysis. *)
DeleteTask(t) ==
    /\ gstatus[t] # "none"
    /\ \E m \in Machines : job[m] = t /\ mpc[m] \notin {"idle", "leaked", "dead"}
    /\ Fault("delete")
    /\ gstatus' = [gstatus EXCEPT ![t] = "none"]
    /\ UNCHANGED <<rsVars, mpc, job, todo, dead, guestVars>>

-----------------------------------------------------------------------------

ManagerSteps(m) ==
    \/ Launch(m) \/ Boot(m) \/ Starting(m) \/ WaitAvailable(m) \/ Index(m)
    \/ Request(m, "pinning", "upload") \/ Request(m, "upload", "execpy") \/ ExecPy(m)
    \/ Started(m) \/ WaitForCompletion(m) \/ Stopping(m) \/ MachineryStop(m)
    \/ GuestStop(m) \/ Forget(m)

GuestSteps(m) == AgentUp(m) \/ AnalyzerEnds(m) \/ Reboot(m) \/ Hang(m) \/ Netlog(m)

Server(c) == Handle(c) /\ UNCHANGED <<mgrVars, guestVars>> /\ NoFault

Next ==
    \/ \E m \in Machines : ManagerSteps(m) \/ GuestSteps(m)
    \/ \E t \in TaskIds : DeleteTask(t)
    \/ \E c \in Conns : Server(c)

Spec == Init /\ [][Next]_vars

(* The threads of the managers and the handlers run. *)
FairSpec ==
    /\ Spec
    /\ \A m \in Machines : WF_vars(ManagerSteps(m))
    /\ \A c \in Conns : WF_vars(Server(c))

-----------------------------------------------------------------------------
(* Properties *)

(* The row of a guest only becomes "complete" when the analyzer that was      *)
(* started for this task, and since the guest has last booted, has said so: a  *)
(* status from before a reboot, or of another analysis on the machine, is      *)
(* never taken for it (guest.py:354-375).                                     *)
CompleteIsReported ==
    [][\A t \in TaskIds :
          gstatus[t] # "complete" /\ gstatus'[t] = "complete" =>
              \E m \in Machines : job[m] = t /\ mpc[m] = "completion"
                                  /\ reported[m] = "complete"]_vars

(* The session keeps to what the ResultServer expects of the managers, and    *)
(* so to its specification: an address is tracked for one task at a time,     *)
(* from before its machine is booted until after it was stopped.              *)
ServerAsSpecified == RSSpec

(* Waiting for the answer of a guest that hangs: requests has no time-out.    *)
Deaf(m) == hung[m] /\ mpc[m] \in {"index", "pinning", "upload", "execpy"}

(* An analysis comes to its end, whatever becomes of the guest: the critical  *)
(* time-out is looked at whether or not the agent answers (guest.py:347-352). *)
(* The exception is a guest that hangs while it is sent the analyzer.         *)
EveryAnalysisEnds ==
    \A m \in Machines :
        mpc[m] \notin {"idle", "leaked", "dead"}
            ~> mpc[m] \in {"idle", "leaked", "dead"} \/ Deaf(m)

(* A registered connection of a task that has been deleted is over in the     *)
(* end, though its machine was switched off and will never close it.  The     *)
(* guest of a machine that could not be stopped may go on sending: shutting   *)
(* the socket down does not keep it from that.                                *)
NoLingeringSockets ==
    \A c \in Conns :
        (Registered(c) /\ tracked[conn[c].at] # conn[c].task)
            ~> ~Registered(c) \/ vm[conn[c].at] = conn[c].from
=============================================================================
