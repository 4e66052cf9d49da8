---------------------------- MODULE ResultServer ----------------------------
(***************************************************************************)
(* The ResultServer (lib/cuckoo/core/resultserver.py): the addresses of the  *)
(* machines under analysis, and one handler (a greenlet) per connection that *)
(* a guest opens, each of which looks the address up, reads a header,        *)
(* registers itself, and copies what it is sent to a file of the task.       *)
(*                                                                           *)
(* add_task and del_task are called from the threads of the analysis         *)
(* managers, so they come between any two steps of a handler; the lookup     *)
(* and the creation of the context, or opening a file, have no switch to     *)
(* another handler in them.  The machines and their guests are the           *)
(* environment: a machine whose power is cut closes no connection.           *)
(*                                                                           *)
(* Abstracted: data comes one chunk at a time; of the commands, FILE differs  *)
(* from LOG and BSON in the lines it reads before its data; whether the file  *)
(* the guest names can be opened is chosen.  Limits of size, the metadata in  *)
(* files.json and the log of the task are left out.                          *)
(***************************************************************************)
CONSTANTS
    Machines,    \* the machines, by their addresses
    TaskIds,     \* the tasks
    Conns,       \* bound: slots for connections alive at once
    NoTask,      \* no task
    NoMachine    \* no machine

ASSUME ResultServerAssumption == NoTask \notin TaskIds /\ NoMachine \notin Machines

VARIABLES
    tracked,   \* self.tasks: the task of an address
    handlers,  \* self.handlers: the registered contexts of a task
    conn,      \* the connections and their handlers
    stored,    \* what has been written: where, and what the guest had sent
    vm         \* the task a machine was booted for; NoTask: powered off

rsVars == <<tracked, handlers, conn, stored, vm>>

ConnPC == {"free", "backlog", "negotiate", "register", "open", "copy", "end"}

(* from: the task the guest was running for; task: the one it is taken for;   *)
(* upload: its command is FILE;                                              *)
(* sent: data is in the socket; closed: the guest has closed it; shut: it     *)
(* has been shut down; late: at some time before it was accepted, its         *)
(* address was not tracked for the task it is from.                          *)
ConnType ==
    [pc : ConnPC, at : Machines \cup {NoMachine}, from : TaskIds \cup {NoTask},
     task : TaskIds \cup {NoTask}, upload : BOOLEAN, sent : BOOLEAN,
     closed : BOOLEAN, shut : BOOLEAN, late : BOOLEAN]

NoConn ==
    [pc |-> "free", at |-> NoMachine, from |-> NoTask, task |-> NoTask,
     upload |-> FALSE, sent |-> FALSE, closed |-> FALSE, shut |-> FALSE, late |-> FALSE]

RSTypeOK ==
    /\ tracked \in [Machines -> TaskIds \cup {NoTask}]
    /\ handlers \in [TaskIds -> SUBSET Conns]
    /\ conn \in [Conns -> ConnType]
    /\ stored \in SUBSET [folder : TaskIds, from : TaskIds, late : BOOLEAN]
    /\ vm \in [Machines -> TaskIds \cup {NoTask}]

RSInit ==
    /\ tracked = [m \in Machines |-> NoTask]
    /\ handlers = [t \in TaskIds |-> {}]
    /\ conn = [c \in Conns |-> NoConn]
    /\ stored = {}
    /\ vm = [m \in Machines |-> NoTask]

-----------------------------------------------------------------------------
(* What the managers call. *)

(* add_task *)
AddTask(m, t) ==
    /\ tracked' = [tracked EXCEPT ![m] = t]
    /\ UNCHANGED <<handlers, conn, stored, vm>>

(* HandlerContext.cancel of the contexts cs: what has arrived can still be    *)
(* read.  A connection not accepted yet has missed its task.                 *)
Cancel(m, cs) ==
    conn' = [c \in Conns |->
                IF c \in cs THEN [conn[c] EXCEPT !.shut = TRUE]
                ELSE IF conn[c].pc = "backlog" /\ conn[c].at = m
                     THEN [conn[c] EXCEPT !.late = TRUE] ELSE conn[c]]

(* Mutant: the contexts are taken off the table and not cancelled. *)
DelTaskOnly(m, t) ==
    /\ tracked' = [tracked EXCEPT ![m] = NoTask]
    /\ handlers' = [handlers EXCEPT ![t] = {}]
    /\ Cancel(m, {})
    /\ UNCHANGED <<stored, vm>>

(* del_task: the address and the handlers of the task are popped.             *)
DelTask(m, t) ==
    /\ tracked' = [tracked EXCEPT ![m] = NoTask]
    /\ handlers' = [handlers EXCEPT ![t] = {}]
    /\ Cancel(m, handlers[t])
    /\ UNCHANGED <<stored, vm>>

-----------------------------------------------------------------------------
(* The machine, switched on and off by the manager, and its guest. *)

PowerOn(m, t) ==
    /\ vm[m] = NoTask
    /\ vm' = [vm EXCEPT ![m] = t]
    /\ UNCHANGED <<tracked, handlers, conn, stored>>

PowerOff(m) ==
    /\ vm' = [vm EXCEPT ![m] = NoTask]
    /\ UNCHANGED <<tracked, handlers, conn, stored>>

Turn(c, r) == conn' = [conn EXCEPT ![c] = r]

(* The guest on machine m opens a connection. *)
Connect(m, c) ==
    /\ vm[m] # NoTask
    /\ conn[c].pc = "free"
    /\ \E u \in BOOLEAN :
         Turn(c, [NoConn EXCEPT !.pc = "backlog", !.at = m, !.from = vm[m], !.upload = u,
                                !.late = tracked[m] # vm[m]])
    /\ UNCHANGED <<tracked, handlers, stored, vm>>

(* The guest that has opened it still runs. *)
Alive(c) == conn[c].pc # "free" /\ ~conn[c].closed /\ vm[conn[c].at] = conn[c].from

Send(c) ==
    /\ Alive(c)
    /\ ~conn[c].sent
    /\ Turn(c, [conn[c] EXCEPT !.sent = TRUE])
    /\ UNCHANGED <<tracked, handlers, stored, vm>>

Close(c) ==
    /\ Alive(c)
    /\ Turn(c, [conn[c] EXCEPT !.closed = TRUE])
    /\ UNCHANGED <<tracked, handlers, stored, vm>>

-----------------------------------------------------------------------------
(* GeventResultServerWorker.handle *)

(* Mutant: a connection from an address without a task is served. *)
AcceptAny(c) ==
    /\ conn[c].pc = "backlog"
    /\ Turn(c, [conn[c] EXCEPT !.pc = "negotiate", !.task = tracked[conn[c].at]])
    /\ UNCHANGED <<tracked, handlers, stored, vm>>

(* The task of the address; without one the connection is closed. *)
Accept(c) ==
    /\ conn[c].pc = "backlog"
    /\ LET t == tracked[conn[c].at]
       IN Turn(c, IF t = NoTask THEN NoConn
                  ELSE [conn[c] EXCEPT !.pc = "negotiate", !.task = t])
    /\ UNCHANGED <<tracked, handlers, stored, vm>>

(* Mutant: shutting the socket down does not end a read. *)
AtEndClosed(c) == ~conn[c].sent /\ conn[c].closed

(* recv answers b"" *)
AtEnd(c) == ~conn[c].sent /\ (conn[c].closed \/ conn[c].shut)

(* negotiate_protocol: the header, one that cannot be parsed (the handler     *)
(* raises), or EOFError.                                                     *)
Negotiate(c) ==
    /\ conn[c].pc = "negotiate"
    /\ \/ /\ conn[c].sent
          /\ Turn(c, [conn[c] EXCEPT !.pc = "register", !.sent = FALSE])
       \/ (conn[c].sent \/ AtEnd(c)) /\ Turn(c, NoConn)
    /\ UNCHANGED <<tracked, handlers, stored, vm>>

(* Mutant: the context is registered whatever has happened to the task. *)
RegisterUnchecked(c) ==
    /\ conn[c].pc = "register"
    /\ handlers' = [handlers EXCEPT ![conn[c].task] = @ \cup {c}]
    /\ Turn(c, [conn[c] EXCEPT !.pc = "open"])
    /\ UNCHANGED <<tracked, stored, vm>>

(* Mutant: the context is taken for one of the task the address now has. *)
RegisterCurrent(c) ==
    /\ conn[c].pc = "register"
    /\ IF tracked[conn[c].at] # NoTask
       THEN /\ handlers' = [handlers EXCEPT ![tracked[conn[c].at]] = @ \cup {c}]
            /\ Turn(c, [conn[c] EXCEPT !.pc = "open", !.task = tracked[conn[c].at]])
       ELSE Turn(c, NoConn) /\ UNCHANGED handlers
    /\ UNCHANGED <<tracked, stored, vm>>

(* The context is registered, unless the task has been cancelled. *)
Register(c) ==
    /\ conn[c].pc = "register"
    /\ IF tracked[conn[c].at] = conn[c].task
       THEN /\ handlers' = [handlers EXCEPT ![conn[c].task] = @ \cup {c}]
            /\ Turn(c, [conn[c] EXCEPT !.pc = "open"])
       ELSE Turn(c, NoConn) /\ UNCHANGED handlers
    /\ UNCHANGED <<tracked, stored, vm>>

(* protocol.init, and for an upload the lines with its names, for which it    *)
(* waits 30 seconds.  The handler ends if there is no such command, the file  *)
(* exists (LOG, FILE), it has been sent before, or the names do not come.     *)
Open(c) ==
    /\ conn[c].pc = "open"
    /\ \/ /\ conn[c].upload => conn[c].sent
          /\ Turn(c, [conn[c] EXCEPT !.pc = "copy", !.sent = @ /\ ~conn[c].upload])
       \/ Turn(c, [conn[c] EXCEPT !.pc = "end"])
    /\ UNCHANGED <<tracked, handlers, stored, vm>>

(* copy_to_fd: to its end. *)
Copy(c) ==
    /\ conn[c].pc = "copy"
    /\ \/ /\ conn[c].sent
          /\ stored' = stored \cup {[folder |-> conn[c].task, from |-> conn[c].from,
                                     late |-> conn[c].late]}
          /\ Turn(c, [conn[c] EXCEPT !.sent = FALSE])
       \/ AtEnd(c) /\ Turn(c, [conn[c] EXCEPT !.pc = "end"]) /\ UNCHANGED stored
    /\ UNCHANGED <<tracked, handlers, vm>>

(* The finally block; returning closes the socket. *)
Finish(c) ==
    /\ conn[c].pc = "end"
    /\ handlers' = [handlers EXCEPT ![conn[c].task] = @ \ {c}]
    /\ Turn(c, NoConn)
    /\ UNCHANGED <<tracked, stored, vm>>

Handle(c) == Accept(c) \/ Negotiate(c) \/ Register(c) \/ Open(c) \/ Copy(c) \/ Finish(c)

-----------------------------------------------------------------------------
(* What the managers owe the server: an address is given to one task at a     *)
(* time, a task to one address, and del_task names the task it was given for. *)

Untracked(m, t) == tracked[m] = NoTask /\ \A x \in Machines : tracked[x] # t

Managed(m) ==
    \/ \E t \in TaskIds : Untracked(m, t) /\ AddTask(m, t)
    \/ tracked[m] # NoTask /\ DelTask(m, tracked[m])
    \/ tracked[m] # NoTask /\ PowerOn(m, tracked[m])
    \/ PowerOff(m)

RSNext ==
    \/ \E m \in Machines : Managed(m)
    \/ \E m \in Machines, c \in Conns : Connect(m, c)
    \/ \E c \in Conns : Send(c) \/ Close(c) \/ Handle(c)

(* The server with any managers that keep to this. *)
RSSpec == RSInit /\ [][RSNext]_rsVars

-----------------------------------------------------------------------------
(* Properties *)

Registered(c) == conn[c].pc \in {"open", "copy", "end"}

(* What a guest has sent is in the folder of the task it was running, unless  *)
(* its connection missed its task: it was not accepted before del_task, or    *)
(* opened after it.  (The lookup by address, resultserver.py:364-370.)        *)
StoredRight == \A s \in stored : s.folder = s.from \/ s.late

(* A registered handler whose task has been deleted has been told to stop: it *)
(* reads what has arrived, and ends ("this should prevent lingering sockets", *)
(* resultserver.py:385-387).  One that negotiates may linger.                 *)
AbandonedShut ==
    \A c \in Conns : Registered(c) /\ tracked[conn[c].at] # conn[c].task => conn[c].shut

(* The table names no handler of a task that is not under analysis, and none  *)
(* that has ended: what del_task will cancel is what is running.              *)
HandlersLive ==
    \A t \in TaskIds : \A c \in handlers[t] :
        Registered(c) /\ conn[c].task = t /\ tracked[conn[c].at] = t
=============================================================================
