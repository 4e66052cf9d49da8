------------------------------- MODULE Rooter -------------------------------
(***************************************************************************)
(* Network routing: AnalysisManager.route_network and unroute_network        *)
(* (lib/cuckoo/core/scheduler.py), the client rooter() they call             *)
(* (lib/cuckoo/core/rooter.py), init_rooter and init_routing at start-up     *)
(* (lib/cuckoo/core/startup.py), and the root process utils/rooter.py that   *)
(* carries the commands out.                                                 *)
(*                                                                           *)
(* A machine has one analysis at a time (Scheduler), so the managers are     *)
(* named by their machines, and rules by the machine whose address they      *)
(* are for.  Abstracted: the rules of one command are one kind of rule, and  *)
(* a rule is how often it is in the tables; interfaces, ports and routing    *)
(* tables are given by the route; the tables of init_rttable and the shared  *)
(* rules against INVALID packets are left out.  The dirty line stands for    *)
(* the VPNs too, and its NAT rule for those of the other interfaces.  The    *)
(* commands of the start-up are taken to succeed, and its forward_disable    *)
(* for the address of every machine is one command.                          *)
(***************************************************************************)
EXTENDS Integers, Sequences

CONSTANTS
    Machines,    \* the machines, with an analysis manager each
    Routes,      \* the routes tasks ask for
    NoOne,       \* nobody holds the lock of the client
    Boot,        \* the start-up of CAPE, as a caller of rooter()
    Required,    \* vpn, tor, inetsim or socks5 is enabled, or the default route
                 \* is not none: what init_rooter tests; not so by default
    Line,        \* routing.internet names an interface, the dirty line
    Faults,      \* the failures that may happen
    MaxFaults    \* bound: how many failures happen

ASSUME RooterAssumption ==
    /\ NoOne \notin Machines /\ Boot \notin Machines /\ NoOne # Boot
    /\ Routes \subseteq {"none", "inetsim", "tor", "internet", "false"}
    /\ Required \in BOOLEAN /\ Line \in BOOLEAN
    /\ Faults \subseteq {"stop", "cape", "exception", "interface"}
    /\ MaxFaults \in Nat

VARIABLES
    cape,     \* CAPE is "down", in its start-up ("boot") or "ready"
    pc,       \* where a manager is
    route,    \* self.route
    cmds,     \* the commands it, or the start-up, has still to call
    lock,     \* who holds the lock of the client
    answer,   \* what it has been answered
    up,       \* rooter.py runs
    inbox,    \* the requests in its socket; the first is being carried out
    rules,    \* rules[m][k]: how often rule k is there for the address of m
    nat,      \* how often the NAT rule of the interface is there
    ended,    \* how rooter.py has ended since CAPE was started: "crashed" when
              \* a command was carried out, and cleanup_rooter not, or before
    left,     \* CAPE has ended since cleanup_rooter was last carried out
    faults    \* how many failures are still to come

clientVars == <<cape, pc, route, cmds, lock, answer>>
rootVars   == <<up, inbox, rules, nat>>
vars       == <<clientVars, rootVars, ended, left, faults>>

Callers == Machines \cup {Boot}

(* The forwarding to the dirty line is a kind of its own, "line". *)
Kinds == {"forward", "line", "srcroute", "inetsim", "ports", "socks5", "drop"}

(* The rules that carry the comment CAPE-rooter: inetsim_redirect_port calls   *)
(* run, not run_iptables, and srcroute is not a rule of iptables.              *)
Tagged == {"forward", "line", "inetsim", "socks5", "drop"}

Commands == {"nic_available", "rt_available", "forward_enable", "forward_disable",
             "line_enable", "line_disable", "srcroute_enable",
             "srcroute_disable", "inetsim_enable", "inetsim_disable", "socks5_enable",
             "socks5_disable", "drop_enable", "drop_disable", "cleanup_rooter",
             "forward_drop", "state_disable", "state_enable", "disable_nat", "enable_nat"}

NoRules == [k \in Kinds |-> 0]

-----------------------------------------------------------------------------
(* route_network and unroute_network: the commands of a route, in order.      *)
(* Without a dirty line, "internet" is an unknown destination and ignored.     *)

HasTable(r)     == r = "internet" /\ Line
HasInterface(r) == r \in {"inetsim", "tor"} \/ HasTable(r)

(* forward_enable and forward_disable, with the interface of the route. *)
ForwardEnable(r)  == IF HasTable(r) THEN "line_enable" ELSE "forward_enable"
ForwardDisable(r) == IF HasTable(r) THEN "line_disable" ELSE "forward_disable"

When(c, s) == IF c THEN s ELSE <<>>

EnableRoute(r) ==
    When(r = "inetsim", <<"inetsim_enable">>) \o When(r = "tor", <<"socks5_enable">>)
        \o When(r = "none", <<"drop_enable">>)

RouteNetwork(r) ==
    When(HasInterface(r), <<"nic_available">>) \o EnableRoute(r)
        \o When(HasInterface(r), <<ForwardEnable(r)>>)
        \o When(HasTable(r), <<"srcroute_enable">>)

(* Mutant: a route with an interface returns after its forwarding. *)
UnrouteNetworkEarly(r) ==
    IF HasInterface(r) THEN <<ForwardDisable(r)>> \o When(HasTable(r), <<"srcroute_disable">>)
                       ELSE When(r = "none", <<"drop_disable">>)

UnrouteNetwork(r) ==
    When(HasInterface(r), <<ForwardDisable(r)>>)
        \o When(HasTable(r), <<"srcroute_disable">>)
        \o When(r = "inetsim", <<"inetsim_disable">>) \o When(r = "tor", <<"socks5_disable">>)
        \o When(r = "none", <<"drop_disable">>)

(* What is to be in the tables for an analysis that runs. *)
RulesOf(r) == {k \in Kinds :
    \/ k = "forward" /\ HasInterface(r) /\ ~HasTable(r)
    \/ k \in {"line", "srcroute"} /\ HasTable(r)
    \/ k \in {"inetsim", "ports"} /\ r = "inetsim"
    \/ k = "socks5" /\ r = "tor"
    \/ k = "drop" /\ r = "none"}

(* Mutant: the forwarding of a CAPE that was killed is not deleted. *)
InitLineKept == <<"nic_available", "rt_available", "disable_nat", "enable_nat">>

(* init_routing for the dirty line, then Scheduler.initialize. *)
InitLine == <<"nic_available", "rt_available", "disable_nat", "enable_nat", "line_disable">>

(* init_rooter, which returns at once when the rooter is not required, then the   *)
(* dirty line.                                                                *)
InitCommands ==
    When(Required, <<"cleanup_rooter", "forward_drop", "state_disable", "state_enable">>)
        \o When(Line, InitLine)

-----------------------------------------------------------------------------
TypeOK ==
    /\ cape \in {"down", "boot", "ready"}
    /\ pc \in [Machines -> {"idle", "routing", "running", "unrouting", "stuck"}]
    /\ route \in [Machines -> Routes \cup {"none"}]
    /\ cmds \in [Callers -> Seq(Commands)]
    /\ lock \in Callers \cup {NoOne}
    /\ answer \in {"none", "output", "exception"}
    /\ up \in BOOLEAN
    /\ inbox \in Seq([command : Commands, from : Callers, live : BOOLEAN])
    /\ rules \in [Machines -> [Kinds -> Nat]]
    /\ nat \in Nat
    /\ ended \in {"no", "stopped", "crashed"}
    /\ left \in BOOLEAN
    /\ faults \in 0..MaxFaults

Init ==
    /\ cape = "down"
    /\ pc = [m \in Machines |-> "idle"]
    /\ route = [m \in Machines |-> "none"]
    /\ cmds = [c \in Callers |-> <<>>]
    /\ lock = NoOne
    /\ answer = "none"
    /\ up = TRUE
    /\ inbox = <<>>
    /\ rules = [m \in Machines |-> NoRules]
    /\ nat = 0
    /\ ended = "no"
    /\ left = FALSE
    /\ faults = MaxFaults

Fault(f) == f \in Faults /\ faults > 0 /\ faults' = faults - 1

-----------------------------------------------------------------------------
(* utils/rooter.py.                                                          *)

(* -A and -I add a rule once more, -D deletes one if there is one; ip rule has  *)
(* no rule twice.                                                            *)
More(n) == n + 1

(* Mutant of Less: deleting what is not there is counted. *)
LessAlways(n) == n - 1

Less(n) == IF n = 0 THEN 0 ELSE n - 1

RulesAfter(c, R) ==
    CASE c = "forward_enable"   -> [R EXCEPT !["forward"] = More(@)]
      [] c = "forward_disable"  -> [R EXCEPT !["forward"] = Less(@)]
      [] c = "line_enable"      -> [R EXCEPT !["line"] = More(@)]
      [] c = "line_disable"     -> [R EXCEPT !["line"] = Less(@)]
      [] c = "srcroute_enable"  -> [R EXCEPT !["srcroute"] = 1]
      [] c = "srcroute_disable" -> [R EXCEPT !["srcroute"] = 0]
      [] c = "inetsim_enable"   -> [R EXCEPT !["inetsim"] = More(@), !["ports"] = More(@)]
      [] c = "inetsim_disable"  -> [R EXCEPT !["inetsim"] = Less(@), !["ports"] = Less(@)]
      [] c = "socks5_enable"    -> [R EXCEPT !["socks5"] = More(@)]
      [] c = "socks5_disable"   -> [R EXCEPT !["socks5"] = Less(@)]
      [] c = "drop_enable"      -> [R EXCEPT !["drop"] = More(@)]
      [] c = "drop_disable"     -> [R EXCEPT !["drop"] = Less(@)]
      [] OTHER                  -> R

(* cleanup_rooter: what carries the comment goes, the NAT rule too. *)
Clean(R) == [m \in Machines |-> [k \in Kinds |-> IF k \in Tagged THEN 0 ELSE R[m][k]]]

(* One command on the tables R with n NAT rules, for the address of the machine   *)
(* whose manager calls, or of every machine at start-up.                         *)
Carried(q, R) ==
    IF q.command = "cleanup_rooter" THEN Clean(R)
    ELSE [m \in Machines |->
            IF q.from \in {m, Boot} THEN RulesAfter(q.command, R[m]) ELSE R[m]]

CarriedNat(q, n) ==
    CASE q.command = "cleanup_rooter" -> 0
      [] q.command = "enable_nat"     -> More(n)
      [] q.command = "disable_nat"    -> Less(n)
      [] OTHER                        -> n

(* The handler, and sendto.  When CAPE is gone, sendto raises outside of the    *)
(* try and rooter.py ends, without cleanup_rooter.                            *)
Serve ==
    /\ up
    /\ inbox # <<>>
    /\ LET q == Head(inbox) IN
       \/ /\ rules' = Carried(q, rules)
          /\ nat' = CarriedNat(q, nat)
          /\ left' = (left /\ q.command # "cleanup_rooter")
          /\ IF q.live
             THEN /\ answer' = "output"
                  /\ inbox' = Tail(inbox)
                  /\ UNCHANGED <<up, ended>>
             ELSE /\ up' = FALSE
                  /\ inbox' = <<>>
                  /\ ended' = "crashed"
                  /\ UNCHANGED answer
          /\ UNCHANGED faults
       \/ /\ Fault("exception")
          /\ q.live /\ q.from # Boot
          /\ answer' = "exception"
          /\ inbox' = Tail(inbox)
          /\ UNCHANGED <<up, rules, nat, ended, left>>
    /\ UNCHANGED <<cape, pc, route, cmds, lock>>

(* handle_sigterm: the socket is closed, then cleanup_rooter.  It may interrupt  *)
(* a handler, which goes on afterwards; either way the answer is never sent.    *)
StopRooter ==
    /\ up
    /\ Fault("stop")
    /\ up' = FALSE
    /\ inbox' = <<>>
    /\ \/ /\ rules' = Clean(rules)
          /\ nat' = 0
          /\ ended' = IF ended = "crashed" THEN ended ELSE "stopped"
          /\ left' = FALSE
       \/ /\ inbox # <<>>
          /\ ended' = "crashed"
          /\ rules' = Carried(Head(inbox), Clean(rules))
          /\ nat' = CarriedNat(Head(inbox), 0)
          /\ UNCHANGED left

Stop == StopRooter /\ UNCHANGED clientVars

(* The service is started again (Restart=always). *)
Start ==
    /\ ~up
    /\ up' = TRUE
    /\ UNCHANGED <<clientVars, inbox, rules, nat, ended, left, faults>>

-----------------------------------------------------------------------------
(* rooter(): the client.                                                     *)

(* The caller sends, and waits for the answer with the lock held and without a  *)
(* time-out.                                                                  *)
Send(c) ==
    /\ lock = NoOne
    /\ up
    /\ cmds[c] # <<>>
    /\ lock' = c
    /\ answer' = "none"
    /\ inbox' = Append(inbox, [command |-> Head(cmds[c]), from |-> c, live |-> TRUE])
    /\ UNCHANGED <<cape, pc, route, cmds, up, rules, nat, ended, left, faults>>

(* Mutant: after an exception the machine is released without unroute_network. *)
RaisedReleases(m) ==
    /\ pc' = [pc EXCEPT ![m] = IF @ = "routing" THEN "idle" ELSE "stuck"]
    /\ cmds' = [cmds EXCEPT ![m] = <<>>]

(* An exception in a manager: route_network's is caught in launch_analysis, whose *)
(* finally clause calls unroute_network; after one in unroute_network the machine  *)
(* is not released.                                                             *)
Raised(m) ==
    IF pc[m] = "routing"
    THEN /\ pc' = [pc EXCEPT ![m] = "unrouting"]
         /\ cmds' = [cmds EXCEPT ![m] = UnrouteNetwork(route[m])]
    ELSE /\ pc' = [pc EXCEPT ![m] = "stuck"]
         /\ cmds' = [cmds EXCEPT ![m] = <<>>]

(* The rooter is stopped between connect and send: send raises, and the lock is     *)
(* given back.  In the start-up this is the end of CAPE.                          *)
StopBeforeSend(c) ==
    /\ lock = NoOne
    /\ cmds[c] # <<>>
    /\ StopRooter
    /\ IF c = Boot
       THEN cape' = "down" /\ cmds' = [cmds EXCEPT ![Boot] = <<>>] /\ UNCHANGED pc
       ELSE Raised(c) /\ UNCHANGED cape
    /\ UNCHANGED <<route, lock, answer>>

(* The rooter cannot be reached: the call returns nothing, which passes for      *)
(* success, but for the interface: route_network switches to route none.        *)
NoRooter(m) ==
    /\ lock = NoOne
    /\ ~up
    /\ cmds[m] # <<>>
    /\ IF Head(cmds[m]) = "nic_available"
       THEN /\ route' = [route EXCEPT ![m] = "none"]
            /\ cmds' = [cmds EXCEPT ![m] = RouteNetwork("none")]
       ELSE /\ cmds' = [cmds EXCEPT ![m] = Tail(@)]
            /\ UNCHANGED route
    /\ UNCHANGED <<cape, pc, lock, answer, rootVars, ended, left, faults>>

(* At start-up: an interface or a table that cannot be asked for ends CAPE. *)
BootNoRooter ==
    /\ lock = NoOne
    /\ ~up
    /\ cmds[Boot] # <<>>
    /\ IF Head(cmds[Boot]) \in {"nic_available", "rt_available"}
       THEN cape' = "down" /\ cmds' = [cmds EXCEPT ![Boot] = <<>>] /\ left' = TRUE
       ELSE cmds' = [cmds EXCEPT ![Boot] = Tail(@)] /\ UNCHANGED <<cape, left>>
    /\ UNCHANGED <<pc, route, lock, answer, rootVars, ended, faults>>


(* The answer of rooter() to a manager.  _rooter_response_check raises at an      *)
(* exception.  The answer about an interface is not empty, whatever it says.      *)
Answered(m) ==
    /\ lock = m
    /\ answer # "none"
    /\ lock' = NoOne
    /\ answer' = "none"
    /\ \/ /\ answer = "output" \/ Head(cmds[m]) = "nic_available"
          /\ cmds' = [cmds EXCEPT ![m] = Tail(@)]
          /\ UNCHANGED pc
       \/ /\ answer = "exception" /\ Head(cmds[m]) # "nic_available"
          /\ Raised(m)
    /\ UNCHANGED <<cape, route, rootVars, ended, left, faults>>

(* At start-up nothing looks at the answers. *)
BootAnswered ==
    /\ lock = Boot
    /\ answer # "none"
    /\ lock' = NoOne
    /\ answer' = "none"
    /\ cmds' = [cmds EXCEPT ![Boot] = Tail(@)]
    /\ UNCHANGED <<cape, pc, route, rootVars, ended, left, faults>>

-----------------------------------------------------------------------------
(* The analysis managers.                                                    *)

StartAnalysis(m, r) ==
    /\ cape = "ready"
    /\ pc[m] = "idle"
    /\ pc' = [pc EXCEPT ![m] = "routing"]
    /\ route' = [route EXCEPT ![m] = r]
    /\ cmds' = [cmds EXCEPT ![m] = RouteNetwork(r)]
    /\ UNCHANGED <<cape, lock, answer, rootVars, ended, left, faults>>

(* The interface of the route is not among those that were there when CAPE started: *)
(* CuckooNetworkError.                                                           *)
InterfaceGone(m) ==
    /\ pc[m] = "routing"
    /\ lock # m
    /\ cmds[m] # <<>> /\ Head(cmds[m]) \in {"forward_enable", "line_enable"}
    /\ Fault("interface")
    /\ Raised(m)
    /\ UNCHANGED <<cape, route, lock, answer, rootVars, ended, left>>

Routed(m) ==
    /\ pc[m] = "routing"
    /\ cmds[m] = <<>>
    /\ pc' = [pc EXCEPT ![m] = "running"]
    /\ UNCHANGED <<cape, route, cmds, lock, answer, rootVars, ended, left, faults>>

EndAnalysis(m) ==
    /\ pc[m] = "running"
    /\ pc' = [pc EXCEPT ![m] = "unrouting"]
    /\ cmds' = [cmds EXCEPT ![m] = UnrouteNetwork(route[m])]
    /\ UNCHANGED <<cape, route, lock, answer, rootVars, ended, left, faults>>

Unrouted(m) ==
    /\ pc[m] = "unrouting"
    /\ cmds[m] = <<>>
    /\ pc' = [pc EXCEPT ![m] = "idle"]
    /\ route' = [route EXCEPT ![m] = "none"]
    /\ UNCHANGED <<cape, cmds, lock, answer, rootVars, ended, left, faults>>

-----------------------------------------------------------------------------
(* CAPE itself.                                                              *)

(* The caller waits for an answer nobody will send: the rooter it asked has ended. *)
Hung ==
    /\ lock # NoOne
    /\ answer = "none"
    /\ ended # "no"
    /\ \A i \in DOMAIN inbox : ~inbox[i].live

(* CAPE ends, killed or by an operator who finds it hung. *)
CapeEnds ==
    /\ cape # "down"
    /\ \/ Fault("cape")
       \/ /\ Hung \/ \A m \in Machines : pc[m] = "stuck"
          /\ UNCHANGED faults
    /\ cape' = "down"
    /\ pc' = [m \in Machines |-> "idle"]
    /\ route' = [m \in Machines |-> "none"]
    /\ cmds' = [c \in Callers |-> <<>>]
    /\ lock' = NoOne
    /\ answer' = "none"
    /\ inbox' = [i \in DOMAIN inbox |-> [inbox[i] EXCEPT !.live = FALSE]]
    /\ left' = TRUE
    /\ UNCHANGED <<up, rules, nat, ended>>

(* init_rooter refuses to start without the rooter, if it is required. *)
CapeStarts ==
    /\ cape = "down"
    /\ up \/ ~Required
    /\ cape' = "boot"
    /\ cmds' = [cmds EXCEPT ![Boot] = InitCommands]
    /\ ended' = IF up THEN "no" ELSE ended
    /\ UNCHANGED <<pc, route, lock, answer, rootVars, left, faults>>

CapeReady ==
    /\ cape = "boot"
    /\ cmds[Boot] = <<>>
    /\ cape' = "ready"
    /\ UNCHANGED <<pc, route, cmds, lock, answer, rootVars, ended, left, faults>>

-----------------------------------------------------------------------------
Manager(m) ==
    \/ \E r \in Routes : StartAnalysis(m, r)
    \/ Routed(m) \/ EndAnalysis(m) \/ Unrouted(m)
    \/ InterfaceGone(m) \/ NoRooter(m) \/ Answered(m)

Next ==
    \/ \E m \in Machines : Manager(m)
    \/ \E c \in Callers : Send(c) \/ StopBeforeSend(c)
    \/ BootNoRooter \/ BootAnswered \/ CapeEnds \/ CapeStarts \/ CapeReady
    \/ Serve \/ Stop \/ Start

Spec == Init /\ [][Next]_vars

(* rooter.py and the managers run, and no manager is kept from the lock of the     *)
(* client for ever.                                                             *)
Fairness ==
    /\ WF_vars(Serve)
    /\ \A m \in Machines :
          /\ SF_vars(Send(m) \/ NoRooter(m))
          /\ WF_vars(Answered(m)) /\ WF_vars(Routed(m) \/ Unrouted(m))

FairSpec == Spec /\ Fairness

-----------------------------------------------------------------------------
(* Properties. *)

(* What is in the tables is known: cleanup_rooter is sent at every start of CAPE,   *)
(* or CAPE has not ended since it was carried out.                                *)
Known == Required \/ ~left

(* While an analysis runs, and the rooter has run since CAPE was started, the      *)
(* rules of its route are there for its address, and the NAT rule of the dirty     *)
(* line.  Where the tables were cleaned up, those with the comment are exactly     *)
(* these, each once: whatever analyses used the machine before, or were cut off    *)
(* by the end of CAPE or by an error.  (In the default configuration init_rooter   *)
(* returns at once, and the rules of a CAPE that was killed are still there.)       *)
RoutedAsAsked ==
    \A m \in Machines :
        (pc[m] = "running" /\ ended = "no") =>
            /\ \A k \in RulesOf(route[m]) : rules[m][k] >= 1
            /\ Line => nat >= 1
            /\ Known => /\ \A k \in Tagged : rules[m][k] = IF k \in RulesOf(route[m]) THEN 1 ELSE 0
                        /\ nat = IF Line THEN 1 ELSE 0

(* A machine that is free has no rule with the comment left, also when the rooter  *)
(* was stopped or a command failed, and where start-up cleans up, when CAPE was    *)
(* killed: unroute_network takes back what route_network did, wherever that was    *)
(* interrupted, or the machine is not given to another analysis.  (Not when the    *)
(* rooter ends on a command of the CAPE before, while the next one is starting up.) *)
NothingLeft ==
    (cape = "ready" /\ ended # "crashed" /\ Known) =>
        \A m \in Machines : pc[m] = "idle" => \A k \in Tagged : rules[m][k] = 0

(* Whatever is configured and however often CAPE was killed: a machine that is     *)
(* free is not forwarded to the dirty line, and its NAT rule is there once at most, *)
(* because Scheduler.initialize deletes the forwarding once for every machine and  *)
(* init_routing the NAT rule before it is added.                                  *)
LineReset ==
    cape = "ready" =>
        /\ nat <= 1
        /\ \A m \in Machines : pc[m] = "idle" => rules[m]["line"] = 0


=============================================================================
