---------------------------- MODULE SessionProofs ----------------------------
(***************************************************************************)
(* For any number of machines, tasks and connections: the ResultServer keeps *)
(* what it promises (StoredRight, AbandonedShut, HandlersLive) with managers *)
(* that keep to RSSpec, and the managers of Session do.                      *)
(*                                                                           *)
(* None of the three is inductive.  A connection that is negotiating has its *)
(* task from a lookup that is over, so that it is the right one rests on     *)
(* what was known in the backlog (Expected): unless it is late, its address  *)
(* is tracked for the task it is from, until it is accepted or del_task      *)
(* makes it late.  A registered handler is in the table as long as its task  *)
(* is tracked (Tabled), so that del_task finds it.                           *)
(***************************************************************************)
EXTENDS Session, TLAPS

(* Where a connection comes from, and what it is taken for. *)
Bound(c) ==
    conn[c].pc # "free" =>
        /\ conn[c].at \in Machines
        /\ conn[c].from \in TaskIds
        /\ conn[c].pc # "backlog" =>
              conn[c].task \in TaskIds /\ (conn[c].late \/ conn[c].task = conn[c].from)

Expected(c) ==
    conn[c].pc = "backlog" /\ ~conn[c].late => tracked[conn[c].at] = conn[c].from

Tabled(c) ==
    Registered(c) =>
        \/ conn[c].shut
        \/ c \in handlers[conn[c].task] /\ tracked[conn[c].at] = conn[c].task

RSInv ==
    /\ RSTypeOK
    /\ \A c \in Conns : Bound(c) /\ Expected(c) /\ Tabled(c)
    /\ HandlersLive
    /\ StoredRight

(* Nothing is tracked, connected or stored when CAPE starts (ResultServer     *)
(* .__init__).                                                                *)
LEMMA RSInitInv == RSInit => RSInv
  BY ResultServerAssumption
  DEF RSInit, RSInv, RSTypeOK, Bound, Expected, Tabled, HandlersLive, StoredRight,
      Registered, NoConn, ConnType, ConnPC

(* add_task for an address that has none disturbs nothing that is tracked. *)
LEMMA AddTaskInv ==
  ASSUME RSInv, NEW m \in Machines, NEW t \in TaskIds, tracked[m] = NoTask, AddTask(m, t)
  PROVE  RSInv'
  BY ResultServerAssumption
  DEF RSInv, RSTypeOK, Bound, Expected, Tabled, HandlersLive, StoredRight, Registered,
      AddTask, ConnType

(* del_task shuts down every handler it takes off the table, and the          *)
(* connections still to be accepted are late from then on.                    *)
LEMMA DelTaskInv ==
  ASSUME RSInv, NEW m \in Machines, tracked[m] # NoTask, DelTask(m, tracked[m])
  PROVE  RSInv'
<1> DEFINE t == tracked[m]
<1>1. t \in TaskIds /\ RSTypeOK
  BY DEF RSInv, RSTypeOK
<1>2. /\ tracked' = [tracked EXCEPT ![m] = NoTask]
      /\ handlers' = [handlers EXCEPT ![t] = {}]
      /\ UNCHANGED <<stored, vm>>
  BY DEF DelTask
<1>3. ASSUME NEW c \in Conns
      PROVE  /\ conn'[c] \in ConnType
             /\ conn'[c].pc = conn[c].pc /\ conn'[c].at = conn[c].at
             /\ conn'[c].from = conn[c].from /\ conn'[c].task = conn[c].task
             /\ c \in handlers[t] => conn'[c].shut /\ conn'[c].late = conn[c].late
             /\ c \notin handlers[t] => conn'[c].shut = conn[c].shut
             /\ conn[c].late => conn'[c].late
             /\ conn[c].pc = "backlog" /\ conn[c].at = m /\ c \notin handlers[t]
                  => conn'[c].late
  BY <1>1 DEF RSTypeOK, ConnType, DelTask, Cancel
<1>4. RSTypeOK'
  BY <1>1, <1>2, <1>3, Zenon DEF RSTypeOK, DelTask, Cancel
<1> QED
  <2>1. ASSUME NEW c \in Conns PROVE Bound(c)'
    BY <1>3 DEF RSInv, Bound
  <2>2. ASSUME NEW c \in Conns PROVE Expected(c)'
    BY <1>1, <1>2, <1>3 DEF RSInv, Expected, Bound, HandlersLive, Registered, RSTypeOK
  <2>3. ASSUME NEW c \in Conns PROVE Tabled(c)'
    BY <1>1, <1>2, <1>3 DEF RSInv, Tabled, Bound, Registered, RSTypeOK
  <2>4. HandlersLive'
    BY <1>1, <1>2, <1>3, ResultServerAssumption
    DEF RSInv, HandlersLive, Registered, RSTypeOK, Bound
  <2>5. StoredRight'
    BY <1>2 DEF RSInv, StoredRight
  <2> QED BY <1>4, <2>1, <2>2, <2>3, <2>4, <2>5 DEF RSInv

(* Switching a machine on or off leaves the server as it is. *)
LEMMA PowerInv ==
  ASSUME RSInv, NEW m \in Machines, NEW t \in TaskIds \cup {NoTask},
         PowerOn(m, t) \/ PowerOff(m)
  PROVE  RSInv'
  BY DEF RSInv, RSTypeOK, Bound, Expected, Tabled, HandlersLive, StoredRight, Registered,
         PowerOn, PowerOff

(* A step that turns one connection to r, and only it, preserves the          *)
(* invariant if it does so for that connection: the other handlers, and what  *)
(* the tables say of them, are as before.                                     *)
LEMMA TurnInv ==
  ASSUME RSInv, NEW c \in Conns, NEW r \in ConnType, Turn(c, r),
         tracked' = tracked, vm' = vm,
         handlers' \in [TaskIds -> SUBSET Conns],
         \A t \in TaskIds : \A d \in Conns \ {c} : d \in handlers'[t] <=> d \in handlers[t],
         stored' \in SUBSET [folder : TaskIds, from : TaskIds, late : BOOLEAN],
         StoredRight',
         Bound(c)', Expected(c)', Tabled(c)',
         \A t \in TaskIds : c \in handlers'[t] =>
             Registered(c)' /\ r.task = t /\ tracked[r.at] = t
  PROVE  RSInv'
<1>1. conn' = [conn EXCEPT ![c] = r] /\ conn'[c] = r /\ conn' \in [Conns -> ConnType]
  BY DEF RSInv, RSTypeOK, Turn
<1>2. \A d \in Conns \ {c} : conn'[d] = conn[d]
  BY <1>1 DEF RSInv, RSTypeOK
<1>3. RSTypeOK'
  BY <1>1 DEF RSInv, RSTypeOK
<1>4. ASSUME NEW d \in Conns PROVE Bound(d)' /\ Expected(d)' /\ Tabled(d)'
  <2>1. CASE d = c
    BY <2>1
  <2>2. CASE d # c
    BY <1>2, <2>2 DEF RSInv, Bound, Expected, Tabled, Registered
  <2> QED BY <2>1, <2>2
<1>5. HandlersLive'
  BY <1>1, <1>2 DEF RSInv, HandlersLive, Registered, RSTypeOK
<1> QED BY <1>3, <1>4, <1>5 DEF RSInv

(* What the guest does: only Connect makes a connection, and it notes whether *)
(* the address is tracked for the guest's task.                               *)
LEMMA GuestInv ==
  ASSUME RSInv, NEW c \in Conns, (\E m \in Machines : Connect(m, c)) \/ Send(c) \/ Close(c)
  PROVE  RSInv'
<1> USE DEF RSInv
<1>1. ASSUME NEW m \in Machines, Connect(m, c) PROVE RSInv'
  <2>1. PICK u \in BOOLEAN :
          Turn(c, [NoConn EXCEPT !.pc = "backlog", !.at = m, !.from = vm[m], !.upload = u,
                                 !.late = tracked[m] # vm[m]])
    BY <1>1 DEF Connect
  <2> DEFINE r == [NoConn EXCEPT !.pc = "backlog", !.at = m, !.from = vm[m], !.upload = u,
                                 !.late = tracked[m] # vm[m]]
  <2>2. vm[m] \in TaskIds /\ conn[c].pc = "free"
    BY <1>1 DEF Connect, RSTypeOK
  <2>3. /\ r \in ConnType /\ r.pc = "backlog" /\ r.at = m /\ r.from = vm[m]
        /\ ~r.late => tracked[m] = vm[m]
    BY <2>2 DEF NoConn, ConnType, ConnPC
  <2>4. conn'[c] = r
    BY <2>1 DEF Turn, RSTypeOK
  <2>5. Bound(c)' /\ Expected(c)' /\ Tabled(c)'
    BY <1>1, <2>2, <2>3, <2>4 DEF Bound, Expected, Tabled, Registered, Connect
  <2>6. \A t \in TaskIds : c \notin handlers[t]
    BY <2>2 DEF HandlersLive, Registered
  <2> HIDE DEF r
  <2> QED BY <1>1, <2>1, <2>3, <2>5, <2>6, TurnInv DEF Connect, RSTypeOK, StoredRight, r
<1>2. ASSUME Send(c) \/ Close(c) PROVE RSInv'
  <2> DEFINE r == conn'[c]
  <2>1. /\ r \in ConnType /\ Turn(c, r)
        /\ r.pc = conn[c].pc /\ r.at = conn[c].at /\ r.from = conn[c].from
        /\ r.task = conn[c].task /\ r.shut = conn[c].shut /\ r.late = conn[c].late
    <3>1. conn[c] \in ConnType
      BY DEF RSTypeOK
    <3>2. CASE Send(c)
      <4>1. r = [conn[c] EXCEPT !.sent = TRUE] /\ Turn(c, r)
        BY <3>2 DEF Send, Turn, RSTypeOK
      <4> QED BY <3>1, <4>1 DEF ConnType
    <3>3. CASE Close(c)
      <4>1. r = [conn[c] EXCEPT !.closed = TRUE] /\ Turn(c, r)
        BY <3>3 DEF Close, Turn, RSTypeOK
      <4> QED BY <3>1, <4>1 DEF ConnType
    <3> QED BY <1>2, <3>2, <3>3
  <2>2. UNCHANGED <<tracked, handlers, stored, vm>>
    BY <1>2 DEF Send, Close
  <2>3. Bound(c)' /\ Expected(c)' /\ Tabled(c)'
    BY <2>1, <2>2 DEF Bound, Expected, Tabled, Registered
  <2>4. \A t \in TaskIds : c \in handlers[t] =>
            Registered(c)' /\ r.task = t /\ tracked[r.at] = t
    BY <2>1 DEF HandlersLive, Registered
  <2> HIDE DEF r
  <2> QED BY <2>1, <2>2, <2>3, <2>4, TurnInv DEF RSTypeOK, StoredRight
<1> QED BY <1>1, <1>2

(* A handler that ends leaves nothing behind that the invariant speaks of. *)
LEMMA EndInv ==
  ASSUME RSInv, NEW c \in Conns, Turn(c, NoConn), UNCHANGED <<tracked, stored, vm>>,
         handlers' \in [TaskIds -> SUBSET Conns],
         \A t \in TaskIds : handlers'[t] = handlers[t] \ {c}
  PROVE  RSInv'
<1>1. NoConn \in ConnType /\ NoConn.pc = "free" /\ conn'[c] = NoConn
  BY DEF NoConn, ConnType, ConnPC, Turn, RSInv, RSTypeOK
<1>2. Bound(c)' /\ Expected(c)' /\ Tabled(c)'
  BY <1>1 DEF Bound, Expected, Tabled, Registered
<1> QED BY <1>1, <1>2, TurnInv DEF RSInv, RSTypeOK, StoredRight

(* A step of a handler: what it is taken for is settled when it is accepted,  *)
(* registering looks at the table again, and nothing is written but by a      *)
(* registered one.                                                            *)
LEMMA HandleInv ==
  ASSUME RSInv, NEW c \in Conns, Handle(c)
  PROVE  RSInv'
<1> USE DEF RSInv
<1> DEFINE k == conn[c]
<1>0. k \in ConnType /\ RSTypeOK
  BY DEF RSTypeOK
<1>1. CASE Accept(c)
  <2>1. CASE tracked[k.at] = NoTask
    <3>1. \A t \in TaskIds : c \notin handlers[t]
      BY <1>1 DEF Accept, HandlersLive, Registered
    <3> QED BY <1>1, <2>1, <3>1, EndInv DEF Accept, RSTypeOK
  <2>2. CASE tracked[k.at] # NoTask
    <3> DEFINE r == [k EXCEPT !.pc = "negotiate", !.task = tracked[k.at]]
    <3>1. /\ k.pc = "backlog" /\ Turn(c, r) /\ UNCHANGED <<tracked, handlers, stored, vm>>
      BY <1>1, <2>2 DEF Accept
    <3>2. k.at \in Machines /\ k.from \in TaskIds /\ tracked[k.at] \in TaskIds
      BY <2>2, <3>1 DEF Bound, RSTypeOK
    <3>3. /\ r \in ConnType /\ r.pc = "negotiate" /\ r.at = k.at /\ r.from = k.from
          /\ r.late = k.late /\ r.task = tracked[k.at]
      BY <1>0, <3>2 DEF ConnType, ConnPC
    <3>4. conn'[c] = r
      BY <3>1 DEF Turn, RSTypeOK
    <3> HIDE DEF r
    <3>5. Bound(c)' /\ Expected(c)' /\ Tabled(c)'
      BY <3>1, <3>2, <3>3, <3>4 DEF Bound, Expected, Tabled, Registered
    <3>6. \A t \in TaskIds : c \notin handlers[t]
      BY <3>1 DEF HandlersLive, Registered
    <3> QED BY <3>1, <3>3, <3>5, <3>6, TurnInv DEF RSTypeOK, StoredRight
  <2> QED BY <2>1, <2>2
<1>2. CASE Negotiate(c)
  <2>0. \A t \in TaskIds : c \notin handlers[t]
    BY <1>2 DEF Negotiate, HandlersLive, Registered
  <2>1. CASE Turn(c, NoConn)
    BY <1>2, <2>0, <2>1, EndInv DEF Negotiate, RSTypeOK
  <2>2. CASE Turn(c, [k EXCEPT !.pc = "register", !.sent = FALSE])
    <3> DEFINE r == [k EXCEPT !.pc = "register", !.sent = FALSE]
    <3>1. k.pc = "negotiate" /\ UNCHANGED <<tracked, handlers, stored, vm>>
      BY <1>2 DEF Negotiate
    <3>2. /\ r \in ConnType /\ r.pc = "register" /\ r.at = k.at /\ r.from = k.from
          /\ r.late = k.late /\ r.task = k.task
      BY <1>0 DEF ConnType, ConnPC
    <3>3. conn'[c] = r
      BY <2>2 DEF Turn, RSTypeOK
    <3> HIDE DEF r
    <3>4. Bound(c)' /\ Expected(c)' /\ Tabled(c)'
      BY <3>1, <3>2, <3>3 DEF Bound, Expected, Tabled, Registered
    <3> QED BY <2>0, <2>2, <3>1, <3>2, <3>4, TurnInv DEF RSTypeOK, StoredRight, r
  <2> QED BY <1>2, <2>1, <2>2 DEF Negotiate
<1>3. CASE Register(c)
  <2>0. /\ k.pc = "register" /\ k.task \in TaskIds /\ UNCHANGED <<tracked, stored, vm>>
        /\ \A t \in TaskIds : c \notin handlers[t]
    BY <1>3 DEF Register, Bound, HandlersLive, Registered
  <2>1. CASE tracked[k.at] # k.task
    BY <1>3, <2>0, <2>1, EndInv DEF Register, RSTypeOK
  <2>2. CASE tracked[k.at] = k.task
    <3> DEFINE r == [k EXCEPT !.pc = "open"]
    <3>1. Turn(c, r) /\ handlers' = [handlers EXCEPT ![k.task] = @ \cup {c}]
      BY <1>3, <2>2 DEF Register
    <3>2. /\ r \in ConnType /\ r.pc = "open" /\ r.at = k.at /\ r.from = k.from
          /\ r.late = k.late /\ r.task = k.task
      BY <1>0 DEF ConnType, ConnPC
    <3>3. conn'[c] = r
      BY <3>1 DEF Turn, RSTypeOK
    <3> HIDE DEF r
    <3>4. Bound(c)' /\ Expected(c)' /\ Tabled(c)' /\ Registered(c)'
      BY <2>0, <2>2, <3>1, <3>2, <3>3 DEF Bound, Expected, Tabled, Registered, RSTypeOK
    <3>5. /\ handlers' \in [TaskIds -> SUBSET Conns]
          /\ \A t \in TaskIds : \A d \in Conns \ {c} : d \in handlers'[t] <=> d \in handlers[t]
          /\ \A t \in TaskIds : c \in handlers'[t] => t = k.task
      BY <2>0, <3>1 DEF RSTypeOK
    <3> QED BY <2>0, <2>2, <3>1, <3>2, <3>4, <3>5, TurnInv DEF RSTypeOK, StoredRight
  <2> QED BY <2>1, <2>2
<1>4. CASE Open(c)
  <2>0. k.pc = "open" /\ UNCHANGED <<tracked, handlers, stored, vm>>
    BY <1>4 DEF Open
  <2>1. ASSUME NEW r, Turn(c, r), r \in ConnType, r.pc \in {"copy", "end"}, r.at = k.at,
               r.from = k.from, r.late = k.late, r.task = k.task, r.shut = k.shut
        PROVE  RSInv'
    <3>1. conn'[c] = r
      BY <2>1 DEF Turn, RSTypeOK
    <3>2. Bound(c)' /\ Expected(c)' /\ Tabled(c)' /\ Registered(c)'
      BY <2>0, <2>1, <3>1 DEF Bound, Expected, Tabled, Registered
    <3>3. \A t \in TaskIds : c \in handlers[t] => r.task = t /\ tracked[r.at] = t
      BY <2>1 DEF HandlersLive
    <3> QED BY <2>0, <2>1, <3>2, <3>3, TurnInv DEF RSTypeOK, StoredRight
  <2>2. CASE Turn(c, [k EXCEPT !.pc = "end"])
    BY <1>0, <2>1, <2>2 DEF ConnType, ConnPC
  <2>3. CASE Turn(c, [k EXCEPT !.pc = "copy", !.sent = @ /\ ~k.upload])
    BY <1>0, <2>1, <2>3 DEF ConnType, ConnPC
  <2> QED BY <1>4, <2>2, <2>3 DEF Open
<1>5. CASE Copy(c)
  <2>0. /\ k.pc = "copy" /\ UNCHANGED <<tracked, handlers, vm>>
        /\ k.task \in TaskIds /\ k.from \in TaskIds /\ (k.late \/ k.task = k.from)
    BY <1>5 DEF Copy, Bound
  <2>1. ASSUME NEW r, Turn(c, r), r \in ConnType, r.pc \in {"copy", "end"}, r.at = k.at,
               r.from = k.from, r.late = k.late, r.task = k.task, r.shut = k.shut,
               stored' \in SUBSET [folder : TaskIds, from : TaskIds, late : BOOLEAN],
               StoredRight'
        PROVE  RSInv'
    <3>1. conn'[c] = r
      BY <2>1 DEF Turn, RSTypeOK
    <3>2. Bound(c)' /\ Expected(c)' /\ Tabled(c)' /\ Registered(c)'
      BY <2>0, <2>1, <3>1 DEF Bound, Expected, Tabled, Registered
    <3>3. \A t \in TaskIds : c \in handlers[t] => r.task = t /\ tracked[r.at] = t
      BY <2>1 DEF HandlersLive
    <3> QED BY <2>0, <2>1, <3>2, <3>3, TurnInv DEF RSTypeOK
  <2>2. CASE AtEnd(c) /\ Turn(c, [k EXCEPT !.pc = "end"]) /\ UNCHANGED stored
    <3>1. StoredRight' /\ stored' \in SUBSET [folder : TaskIds, from : TaskIds, late : BOOLEAN]
      BY <2>2 DEF StoredRight, RSTypeOK
    <3> QED BY <1>0, <2>1, <2>2, <3>1 DEF ConnType, ConnPC
  <2>3. CASE /\ Turn(c, [k EXCEPT !.sent = FALSE])
             /\ stored' = stored \cup {[folder |-> k.task, from |-> k.from, late |-> k.late]}
    <3>1. StoredRight'
      BY <2>0, <2>3 DEF StoredRight
    <3>2. stored' \in SUBSET [folder : TaskIds, from : TaskIds, late : BOOLEAN]
      BY <1>0, <2>0, <2>3 DEF RSTypeOK, ConnType
    <3>3. [k EXCEPT !.sent = FALSE].pc = "copy"
      BY <1>0, <2>0 DEF ConnType
    <3> QED BY <1>0, <2>1, <2>3, <3>1, <3>2, <3>3 DEF ConnType
  <2> QED BY <1>5, <2>2, <2>3 DEF Copy
<1>6. CASE Finish(c)
  <2>1. k.task \in TaskIds
    BY <1>6 DEF Finish, Bound
  <2>2. \A t \in TaskIds : handlers'[t] = handlers[t] \ {c}
    BY <1>6, <2>1 DEF Finish, HandlersLive, RSTypeOK
  <2>3. handlers' \in [TaskIds -> SUBSET Conns]
    BY <1>6, <2>1 DEF Finish, RSTypeOK
  <2> QED BY <1>6, <2>2, <2>3, EndInv DEF Finish
<1> QED BY <1>1, <1>2, <1>3, <1>4, <1>5, <1>6 DEF Handle

(* The invariant of the server holds with any managers that keep to RSSpec. *)
LEMMA RSInvariant == RSSpec => []RSInv
<1>1. RSInv /\ UNCHANGED rsVars => RSInv'
  BY DEF RSInv, RSTypeOK, Bound, Expected, Tabled, HandlersLive, StoredRight, Registered,
         rsVars
<1>2. RSInv /\ RSNext => RSInv'
  <2> SUFFICES ASSUME RSInv, RSNext PROVE RSInv'
    OBVIOUS
  <2>1. ASSUME NEW m \in Machines, Managed(m) PROVE RSInv'
    <3>1. tracked[m] \in TaskIds \cup {NoTask}
      BY DEF RSInv, RSTypeOK
    <3>2. CASE \E t \in TaskIds : Untracked(m, t) /\ AddTask(m, t)
      BY <3>2, AddTaskInv DEF Untracked
    <3>3. CASE tracked[m] # NoTask /\ DelTask(m, tracked[m])
      BY <3>3, DelTaskInv
    <3>4. CASE PowerOn(m, tracked[m]) \/ PowerOff(m)
      BY <3>1, <3>4, PowerInv
    <3> QED BY <2>1, <3>2, <3>3, <3>4 DEF Managed
  <2> QED BY <2>1, GuestInv, HandleInv DEF RSNext
<1> QED BY RSInitInv, <1>1, <1>2, PTL DEF RSSpec

-----------------------------------------------------------------------------
(* The managers of Session keep to RSSpec. *)

Busy(m) == mpc[m] \notin {"idle", "dead"}

(* What is tracked is what the managers are working on, each task once. *)
Assigned ==
    /\ tracked \in [Machines -> TaskIds \cup {NoTask}]
    /\ mpc \in [Machines -> ManagerPC]
    /\ job \in [Machines -> TaskIds \cup {NoTask}]
    /\ todo \subseteq TaskIds
    /\ \A m \in Machines : IF Busy(m) THEN job[m] \in TaskIds /\ tracked[m] = job[m]
                                      ELSE tracked[m] = NoTask
    /\ \A m, n \in Machines : tracked[m] = tracked[n] /\ tracked[m] # NoTask => m = n
    /\ \A m \in Machines : tracked[m] \notin todo

(* A step that leaves the server as it is, or what it does for a handler,     *)
(* keeps Assigned if no manager comes to an end or starts by it.              *)
LEMMA StillAssigned ==
  ASSUME Assigned, UNCHANGED <<tracked, job, todo>>,
         mpc' \in [Machines -> ManagerPC],
         \A m \in Machines : Busy(m) <=> Busy(m)'
  PROVE  Assigned'
  BY DEF Assigned

(* Every step of a manager is one that the server expects. *)
LEMMA ManagerKeeps ==
  ASSUME Assigned, NEW m \in Machines, ManagerSteps(m)
  PROVE  Assigned' /\ (Managed(m) \/ UNCHANGED rsVars)
<1> USE DEF Assigned
<1>1. CASE Launch(m)
  <2>1. PICK t \in todo :
          /\ AddTask(m, t) /\ todo' = todo \ {t}
          /\ job' = [job EXCEPT ![m] = t] /\ mpc' = [mpc EXCEPT ![m] = "boot"]
    BY <1>1 DEF Launch, Goto
  <2>2. tracked[m] = NoTask /\ t \in TaskIds /\ t # NoTask
    BY <1>1, ResultServerAssumption DEF Launch, Busy
  <2>3. Managed(m)
    BY <2>1, <2>2 DEF Managed, Untracked
  <2>4. tracked' = [tracked EXCEPT ![m] = t]
    BY <2>1 DEF AddTask
  <2>5. Assigned'
    BY <2>1, <2>2, <2>4, ResultServerAssumption DEF Busy, ManagerPC
  <2> QED BY <2>3, <2>5
<1>2. CASE Boot(m)
  <2>1. Busy(m) /\ tracked[m] = job[m] /\ tracked[m] # NoTask
    BY <1>2, ResultServerAssumption DEF Boot, Busy
  <2>2. /\ mpc' = [mpc EXCEPT ![m] = "starting"] \/ mpc' = [mpc EXCEPT ![m] = "halt"]
        /\ UNCHANGED <<tracked, job, todo>>
    BY <1>2 DEF Boot, Goto, PowerOn, rsVars
  <2>3. Managed(m) \/ UNCHANGED rsVars
    BY <1>2, <2>1 DEF Boot, Managed
  <2>4. mpc' \in [Machines -> ManagerPC] /\ \A n \in Machines : Busy(n) <=> Busy(n)'
    BY <2>1, <2>2 DEF Busy, ManagerPC
  <2> QED BY <2>2, <2>3, <2>4, StillAssigned
<1>3. CASE MachineryStop(m)
  <2>1. Busy(m) /\ mpc' = [mpc EXCEPT ![m] = "gstop"] /\ UNCHANGED <<tracked, job, todo>>
    BY <1>3 DEF MachineryStop, Goto, PowerOff, rsVars, Busy
  <2>2. Managed(m) \/ UNCHANGED rsVars
    BY <1>3 DEF MachineryStop, Managed
  <2>3. mpc' \in [Machines -> ManagerPC] /\ \A n \in Machines : Busy(n) <=> Busy(n)'
    BY <2>1 DEF Busy, ManagerPC
  <2> QED BY <2>1, <2>2, <2>3, StillAssigned
<1>4. CASE Forget(m)
  <2>1. tracked[m] = job[m] /\ job[m] \in TaskIds /\ tracked[m] # NoTask
    BY <1>4, ResultServerAssumption DEF Forget, Busy
  <2>2. Managed(m)
    BY <1>4, <2>1 DEF Forget, Managed
  <2>3. /\ tracked' = [tracked EXCEPT ![m] = NoTask] /\ job' = job
        /\ mpc' = [mpc EXCEPT ![m] = IF m \in dead THEN "dead" ELSE "idle"]
        /\ todo' = todo
    BY <1>4 DEF Forget, Release, DelTask, Goto
  <2>4. Assigned'
    BY <2>1, <2>3, ResultServerAssumption DEF Busy, ManagerPC
  <2> QED BY <2>2, <2>4
<1>5. CASE \/ Starting(m) \/ WaitAvailable(m) \/ Index(m) \/ Request(m, "pinning", "upload")
           \/ Request(m, "upload", "execpy") \/ ExecPy(m) \/ Started(m)
           \/ WaitForCompletion(m) \/ Stopping(m) \/ GuestStop(m)
  <2>1. /\ Busy(m) /\ UNCHANGED <<rsVars, job, todo>>
        /\ \E p \in ManagerPC \ {"idle", "dead"} : mpc' = [mpc EXCEPT ![m] = p]
    <3>1. CASE Starting(m) \/ Stopping(m) \/ WaitAvailable(m) \/ Index(m)
      BY <3>1 DEF Starting, Stopping, WaitAvailable, Index, Goto, Busy, ManagerPC
    <3>2. CASE Request(m, "pinning", "upload") \/ Request(m, "upload", "execpy")
      BY <3>2 DEF Request, Goto, Busy, ManagerPC
    <3>3. CASE ExecPy(m) \/ Started(m)
      BY <3>3 DEF ExecPy, Started, Goto, Busy, ManagerPC
    <3>4. CASE WaitForCompletion(m) \/ GuestStop(m)
      BY <3>4 DEF WaitForCompletion, GuestStop, Goto, Busy, ManagerPC
    <3> QED BY <1>5, <3>1, <3>2, <3>3, <3>4
  <2>2. mpc' \in [Machines -> ManagerPC] /\ \A n \in Machines : Busy(n) <=> Busy(n)'
    BY <2>1 DEF Busy
  <2> QED BY <2>1, <2>2, StillAssigned DEF rsVars
<1> QED BY <1>1, <1>2, <1>3, <1>4, <1>5 DEF ManagerSteps

(* The guests and the handlers leave the managers alone, and do to the server *)
(* what RSNext has guests and handlers do.                                    *)
LEMMA OthersKeep ==
  ASSUME Assigned,
         \/ \E m \in Machines : GuestSteps(m)
         \/ \E t \in TaskIds : DeleteTask(t)
         \/ \E c \in Conns : Server(c)
  PROVE  Assigned' /\ (RSNext \/ UNCHANGED rsVars)
<1>1. ASSUME UNCHANGED <<tracked, mpc, job, todo>> PROVE Assigned'
  BY <1>1 DEF Assigned, Busy
<1>2. ASSUME NEW m \in Machines, AgentUp(m) \/ AnalyzerEnds(m) \/ Reboot(m) \/ Hang(m)
      PROVE  UNCHANGED <<rsVars, tracked, mpc, job, todo>>
  BY <1>2 DEF AgentUp, AnalyzerEnds, Reboot, Hang, mgrVars, rsVars
<1>3. ASSUME NEW m \in Machines, Netlog(m)
      PROVE  RSNext /\ UNCHANGED <<tracked, mpc, job, todo>>
  BY <1>3 DEF Netlog, RSNext, Connect, Send, Close, mgrVars
<1>4. ASSUME NEW t \in TaskIds, DeleteTask(t)
      PROVE  UNCHANGED <<rsVars, tracked, mpc, job, todo>>
  BY <1>4 DEF DeleteTask, rsVars
<1>5. ASSUME NEW c \in Conns, Server(c)
      PROVE  RSNext /\ UNCHANGED <<tracked, mpc, job, todo>>
  BY <1>5 DEF Server, RSNext, Handle, Accept, Negotiate, Register, Open, Copy, Finish, mgrVars
<1> QED BY <1>1, <1>2, <1>3, <1>4, <1>5 DEF GuestSteps

(* The session starts with nothing assigned, and each of its steps is one of  *)
(* the server's specification, or leaves the server as it is.                 *)
LEMMA InitAssigned == Init => RSInit /\ Assigned
  BY ResultServerAssumption DEF Init, RSInit, Assigned, Busy, ManagerPC

LEMMA StepKeeps ==
  ASSUME Assigned, [Next]_vars
  PROVE  Assigned' /\ [RSNext]_rsVars
<1>1. CASE UNCHANGED vars
  BY <1>1 DEF vars, rsVars, mgrVars, Assigned, Busy
<1>2. ASSUME NEW m \in Machines, ManagerSteps(m) PROVE Assigned' /\ [RSNext]_rsVars
  BY <1>2, ManagerKeeps DEF RSNext
<1> QED BY <1>1, <1>2, OthersKeep DEF Next

(* The session implements the specification of the ResultServer: every        *)
(* analysis tracks its address before its machine is booted and until after   *)
(* it was stopped, and no other does meanwhile (launch_analysis).             *)
THEOREM SessionKeepsToServer == Spec => ServerAsSpecified
  BY InitAssigned, StepKeeps, PTL DEF Spec, ServerAsSpecified, RSSpec

(* In every session, what a guest sends goes to its own task, unless the      *)
(* connection missed it.                                                      *)
THEOREM ResultsGoHome == Spec => []StoredRight
<1>1. RSInv => StoredRight
  BY DEF RSInv
<1> QED BY <1>1, RSInvariant, SessionKeepsToServer, PTL DEF ServerAsSpecified

(* In every session, del_task leaves no registered handler reading. *)
THEOREM NoHandlerLeftReading == Spec => []AbandonedShut
<1>1. RSInv => AbandonedShut
  BY DEF RSInv, Tabled, AbandonedShut
<1> QED BY <1>1, RSInvariant, SessionKeepsToServer, PTL DEF ServerAsSpecified

(* In every session, the table of handlers is of the running ones. *)
THEOREM TableIsOfTheRunning == Spec => []HandlersLive
<1>1. RSInv => HandlersLive
  BY DEF RSInv
<1> QED BY <1>1, RSInvariant, SessionKeepsToServer, PTL DEF ServerAsSpecified

-----------------------------------------------------------------------------
(* What the managers and the guests keep of their own. *)

(* guest_set_status keeps the rows what they are. *)
LEMMA SetStatusType ==
  ASSUME gstatus \in [TaskIds -> GuestStatus], NEW t, NEW s \in GuestStatus, SetStatus(t, s)
  PROVE  gstatus' \in [TaskIds -> GuestStatus]
  BY DEF SetStatus, GuestStatus

(* A failure uses one up. *)
LEMMA FaultsType ==
  ASSUME faults \in 0..MaxFaults, (\E k \in FaultKinds : Fault(k)) \/ NoFault
  PROVE  faults' \in 0..MaxFaults
  BY SessionAssumption DEF Fault, NoFault

(* The steps of the manager, as far as the types of its own state go. *)
LEMMA ManagerType ==
  ASSUME TypeOK, RSTypeOK', Assigned, NEW m \in Machines, ManagerSteps(m)
  PROVE  TypeOK'
<1> USE DEF TypeOK
<1>1. (\E k \in FaultKinds : Fault(k)) \/ NoFault
  BY DEF ManagerSteps, Launch, Boot, Starting, WaitAvailable, Index, Request, ExecPy,
         Started, WaitForCompletion, Stopping, MachineryStop, GuestStop, Forget, Release,
         Refused, FaultKinds
<1>2. faults' \in 0..MaxFaults
  BY <1>1, FaultsType
<1>3. CASE Launch(m)
  BY <1>2, <1>3 DEF Launch, Goto, ManagerPC, GuestStatus, guestVars
<1>4. CASE Boot(m)
  BY <1>2, <1>4 DEF Boot, GuestGone, Goto, ManagerPC, AgentStatus, guestVars
<1>5. CASE Starting(m) \/ Stopping(m) \/ Started(m) \/ WaitForCompletion(m) \/ Index(m)
  <2>1. gstatus' \in [TaskIds -> GuestStatus]
    BY <1>5, SetStatusType
    DEF Starting, Stopping, Started, WaitForCompletion, Poll, Index, GuestStatus
  <2>2. mpc' \in [Machines -> ManagerPC] /\ UNCHANGED <<job, todo, dead, guestVars>>
    BY <1>5 DEF Starting, Stopping, Started, WaitForCompletion, Index, Goto, ManagerPC
  <2> QED BY <1>2, <2>1, <2>2 DEF guestVars
<1>6. CASE WaitAvailable(m) \/ GuestStop(m)
  BY <1>2, <1>6 DEF WaitAvailable, GuestStop, Goto, ManagerPC, guestVars
<1>7. CASE Request(m, "pinning", "upload") \/ Request(m, "upload", "execpy")
  BY <1>2, <1>7 DEF Request, Goto, ManagerPC, guestVars
<1>8. CASE ExecPy(m)
  BY <1>2, <1>8 DEF ExecPy, RunAnalyzer, Goto, ManagerPC, AgentStatus
<1>9. CASE MachineryStop(m)
  BY <1>2, <1>9 DEF MachineryStop, GuestGone, Goto, ManagerPC, AgentStatus, guestVars
<1>10. CASE Forget(m)
  <2>1. job[m] \in TaskIds
    BY <1>10 DEF Assigned, Busy, Forget
  <2> QED BY <1>2, <1>10, <2>1
          DEF Forget, Release, Goto, ManagerPC, GuestStatus, guestVars
<1> QED BY <1>3, <1>4, <1>5, <1>6, <1>7, <1>8, <1>9, <1>10 DEF ManagerSteps

(* The steps of the guest, of a user and of the handlers. *)
LEMMA OthersType ==
  ASSUME TypeOK, RSTypeOK',
         \/ \E m \in Machines : GuestSteps(m)
         \/ \E t \in TaskIds : DeleteTask(t)
         \/ \E c \in Conns : Server(c)
  PROVE  TypeOK'
<1> USE DEF TypeOK
<1>1. ASSUME NEW m \in Machines, GuestSteps(m) PROVE TypeOK'
  <2>1. faults' \in 0..MaxFaults
    BY <1>1, FaultsType DEF GuestSteps, AgentUp, AnalyzerEnds, Reboot, Hang, Netlog, FaultKinds
  <2>2. CASE Reboot(m)
    BY <2>1, <2>2 DEF Reboot, GuestGone, mgrVars, AgentStatus
  <2> QED BY <1>1, <2>1, <2>2 DEF GuestSteps, AgentUp, AnalyzerEnds, Hang, Netlog,
                                  mgrVars, guestVars, AgentStatus
<1>2. ASSUME NEW t \in TaskIds, DeleteTask(t) PROVE TypeOK'
  <2>1. faults' \in 0..MaxFaults
    BY <1>2, FaultsType DEF DeleteTask, FaultKinds
  <2> QED BY <1>2, <2>1 DEF DeleteTask, guestVars, GuestStatus
<1>3. ASSUME NEW c \in Conns, Server(c) PROVE TypeOK'
  BY <1>3 DEF Server, NoFault, mgrVars, guestVars
<1> QED BY <1>1, <1>2, <1>3

(* Every variable of the session keeps its type. *)
THEOREM SessionTypeCorrect == Spec => []TypeOK
<1>1. Init /\ RSTypeOK => TypeOK
  BY SessionAssumption DEF Init, TypeOK, ManagerPC, GuestStatus, AgentStatus
<1>2. TypeOK /\ RSTypeOK' /\ Assigned /\ [Next]_vars => TypeOK'
  <2> SUFFICES ASSUME TypeOK, RSTypeOK', Assigned, [Next]_vars PROVE TypeOK'
    OBVIOUS
  <2>1. CASE UNCHANGED vars
    BY <2>1 DEF TypeOK, vars, mgrVars, guestVars
  <2> QED BY <2>1, ManagerType, OthersType DEF Next
<1>3. RSInv => RSTypeOK
  BY DEF RSInv
<1> QED BY <1>1, <1>2, <1>3, RSInvariant, SessionKeepsToServer, InitAssigned, StepKeeps, PTL
        DEF Spec, ServerAsSpecified

(* The agent says "complete" only when this boot's analyzer has. *)
Truthful == \A m \in Machines : agent[m] = "complete" => reported[m] = "complete"

(* What the agent says and what the analyzer has ended with go together, and   *)
(* are gone together when the guest boots.                                    *)
LEMMA TruthfulStep ==
  ASSUME TypeOK, Truthful, [Next]_vars
  PROVE  Truthful'
<1> USE DEF TypeOK, Truthful
<1>1. ASSUME NEW m \in Machines, ManagerSteps(m) PROVE Truthful'
  <2>1. CASE Boot(m) \/ MachineryStop(m)
    BY <2>1 DEF Boot, MachineryStop, GuestGone, guestVars
  <2>2. CASE ExecPy(m)
    BY <2>2 DEF ExecPy, RunAnalyzer
  <2>3. CASE UNCHANGED guestVars
    BY <2>3 DEF guestVars
  <2> QED BY <1>1, <2>1, <2>2, <2>3
          DEF ManagerSteps, Launch, Starting, WaitAvailable, Index, Request, Started,
              WaitForCompletion, Stopping, GuestStop, Forget, Release
<1>2. ASSUME NEW m \in Machines, GuestSteps(m) PROVE Truthful'
  <2>1. CASE Reboot(m)
    BY <2>1 DEF Reboot, GuestGone
  <2>2. CASE AgentUp(m) \/ AnalyzerEnds(m)
    BY <2>2 DEF AgentUp, AnalyzerEnds
  <2>3. CASE Hang(m) \/ Netlog(m)
    BY <2>3 DEF Hang, Netlog, guestVars
  <2> QED BY <1>2, <2>1, <2>2, <2>3 DEF GuestSteps
<1>3. CASE (\E t \in TaskIds : DeleteTask(t)) \/ (\E c \in Conns : Server(c)) \/ UNCHANGED vars
  BY <1>3 DEF DeleteTask, Server, vars, guestVars
<1> QED BY <1>1, <1>2, <1>3 DEF Next

(* guest_set_status writes the row of its task, and only what it is given.     *)
LEMMA StatusWritten ==
  ASSUME TypeOK, NEW t \in TaskIds, NEW u, NEW s, SetStatus(u, s),
         gstatus[t] # "complete", gstatus'[t] = "complete"
  PROVE  u = t /\ s = "complete"
BY DEF TypeOK, SetStatus

(* Only an answer of the agent makes a row "complete". *)
LEMMA CompletionStep ==
  ASSUME TypeOK, Truthful, [Next]_vars, NEW t \in TaskIds,
         gstatus[t] # "complete", gstatus'[t] = "complete"
  PROVE  \E m \in Machines : job[m] = t /\ mpc[m] = "completion" /\ reported[m] = "complete"
<1>0. gstatus' # gstatus
  OBVIOUS
<1>1. ASSUME NEW m \in Machines, ManagerSteps(m)
      PROVE  job[m] = t /\ mpc[m] = "completion" /\ reported[m] = "complete"
  <2>1. CASE WaitForCompletion(m)
    <3>1. PICK s \in {"complete", "failed"} :
             /\ SetStatus(job[m], s) /\ mpc[m] = "completion"
             /\ s = "complete" => agent[m] = "complete"
      BY <1>0, <2>1 DEF WaitForCompletion, Poll
    <3>2. job[m] = t /\ s = "complete"
      BY <3>1, StatusWritten
    <3> QED BY <3>1, <3>2 DEF Truthful
  <2>2. CASE Launch(m)
    <3>1. \E u \in todo : gstatus' = [gstatus EXCEPT ![u] = "init"]
      BY <2>2 DEF Launch
    <3> QED BY <3>1 DEF TypeOK
  <2>3. CASE Forget(m)
    <3>1. gstatus' = gstatus \/ gstatus' = [gstatus EXCEPT ![job[m]] = "none"]
      BY <2>3 DEF Forget, Release
    <3> QED BY <3>1 DEF TypeOK
  <2>4. CASE \E s \in {"starting", "running", "stopping", "failed"} : SetStatus(job[m], s)
    BY <2>4, StatusWritten
  <2> QED BY <1>0, <1>1, <2>1, <2>2, <2>3, <2>4
          DEF ManagerSteps, Boot, Starting, WaitAvailable, Index, Request, ExecPy, Started,
              Stopping, MachineryStop, GuestStop
<1>2. ASSUME NEW m \in Machines, GuestSteps(m) PROVE FALSE
  BY <1>0, <1>2 DEF GuestSteps, AgentUp, AnalyzerEnds, Reboot, Hang, Netlog, mgrVars
<1>3. ASSUME NEW u \in TaskIds, DeleteTask(u) PROVE FALSE
  BY <1>3 DEF DeleteTask, TypeOK
<1>4. CASE (\E c \in Conns : Server(c)) \/ UNCHANGED vars
  BY <1>0, <1>4 DEF Server, vars, mgrVars
<1> QED BY <1>1, <1>2, <1>3, <1>4 DEF Next

(* In every session, the row of a guest becomes complete only when the analyzer *)
(* of its task, started since the guest has last booted, has reported it.      *)
THEOREM CompletionIsTrue == Spec => CompleteIsReported
<1>1. Init => Truthful
  BY DEF Init, Truthful
<1>2. TypeOK /\ Truthful /\ [Next]_vars => Truthful'
  BY TruthfulStep
<1>3. TypeOK /\ Truthful /\ [Next]_vars =>
        [\A t \in TaskIds :
            gstatus[t] # "complete" /\ gstatus'[t] = "complete" =>
                \E m \in Machines : job[m] = t /\ mpc[m] = "completion"
                                    /\ reported[m] = "complete"]_vars
  BY CompletionStep
<1> QED BY <1>1, <1>2, <1>3, SessionTypeCorrect, PTL DEF Spec, CompleteIsReported
=============================================================================
