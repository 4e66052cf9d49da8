---------------------------- MODULE RooterProofs ----------------------------
(***************************************************************************)
(* For any number of machines, routes and failures, and for every            *)
(* configuration: an analysis that runs has the rules of its route, and      *)
(* where the tables were cleaned up, each once and no other; a machine that  *)
(* is free then has none left.                                               *)
(*                                                                           *)
(* Neither is inductive: what is in the tables in the middle of              *)
(* route_network or unroute_network is told by the commands that are left    *)
(* (There, Still), where the command at hand may be carried out already and  *)
(* its answer not read (Left).  That a request is carried out for the        *)
(* manager that waits for it, and none of a CAPE that is gone while another  *)
(* one runs, rests on what is known of the socket's queue (Requests), and    *)
(* that a start-up which sends cleanup_rooter leaves nothing behind on Kept. *)
(***************************************************************************)
EXTENDS Rooter, SequenceTheorems, TLAPS

AllRoutes == {"none", "inetsim", "tor", "internet", "false"}

(* What may be left of the commands of a route. *)
RouteTails(r) ==
    CASE r = "none"     -> {<<"drop_enable">>, <<>>}
      [] r = "inetsim"  -> {<<"nic_available", "inetsim_enable", "forward_enable">>,
                            <<"inetsim_enable", "forward_enable">>, <<"forward_enable">>, <<>>}
      [] r = "tor"      -> {<<"nic_available", "socks5_enable", "forward_enable">>,
                            <<"socks5_enable", "forward_enable">>, <<"forward_enable">>, <<>>}
      [] r = "internet" /\ Line -> {<<"nic_available", "line_enable", "srcroute_enable">>,
                            <<"line_enable", "srcroute_enable">>, <<"srcroute_enable">>, <<>>}
      [] OTHER          -> {<<>>}

UnrouteTails(r) ==
    CASE r = "none"     -> {<<"drop_disable">>, <<>>}
      [] r = "inetsim"  -> {<<"forward_disable", "inetsim_disable">>, <<"inetsim_disable">>, <<>>}
      [] r = "tor"      -> {<<"forward_disable", "socks5_disable">>, <<"socks5_disable">>, <<>>}
      [] r = "internet" /\ Line -> {<<"line_disable", "srcroute_disable">>, <<"srcroute_disable">>, <<>>}
      [] OTHER          -> {<<>>}

(* What may be left of the start-up: of init_rooter before the dirty line, of     *)
(* init_rooter without one, and of the dirty line.                               *)
RooterLineTails ==
    {<<"cleanup_rooter", "forward_drop", "state_disable", "state_enable",
       "nic_available", "rt_available", "disable_nat", "enable_nat", "line_disable">>,
     <<"forward_drop", "state_disable", "state_enable",
       "nic_available", "rt_available", "disable_nat", "enable_nat", "line_disable">>,
     <<"state_disable", "state_enable",
       "nic_available", "rt_available", "disable_nat", "enable_nat", "line_disable">>,
     <<"state_enable",
       "nic_available", "rt_available", "disable_nat", "enable_nat", "line_disable">>}

RooterTails ==
    {<<"cleanup_rooter", "forward_drop", "state_disable", "state_enable">>,
     <<"forward_drop", "state_disable", "state_enable">>,
     <<"state_disable", "state_enable">>, <<"state_enable">>, <<>>}

LineTails ==
    {<<"nic_available", "rt_available", "disable_nat", "enable_nat", "line_disable">>,
     <<"rt_available", "disable_nat", "enable_nat", "line_disable">>,
     <<"disable_nat", "enable_nat", "line_disable">>,
     <<"enable_nat", "line_disable">>, <<"line_disable">>, <<>>}

BootTails ==
    IF Line THEN (IF Required THEN RooterLineTails \cup LineTails ELSE LineTails)
            ELSE (IF Required THEN RooterTails ELSE {<<>>})

(* enable_nat was called when s is left of the start-up. *)
NatDue(s) == Line /\ (s = <<>> \/ s = <<"line_disable">>)

(* The command that adds a kind of rule, and the one that takes it away. *)
EnableOf(k) ==
    CASE k = "forward"  -> "forward_enable"
      [] k = "line"     -> "line_enable"
      [] k = "srcroute" -> "srcroute_enable"
      [] k = "socks5"   -> "socks5_enable"
      [] k = "drop"     -> "drop_enable"
      [] OTHER          -> "inetsim_enable"

DisableOf(k) ==
    CASE k = "forward"  -> "forward_disable"
      [] k = "line"     -> "line_disable"
      [] k = "srcroute" -> "srcroute_disable"
      [] k = "socks5"   -> "socks5_disable"
      [] k = "drop"     -> "drop_disable"
      [] OTHER          -> "inetsim_disable"

(* The rules of route r that are there when the commands s are left of          *)
(* route_network, and those that may be there when s is left of unroute_network. *)
There(r, s) == {k \in RulesOf(r) : \A i \in DOMAIN s : s[i] # EnableOf(k)}
Still(r, s) == {k \in RulesOf(r) : \E i \in DOMAIN s : s[i] = DisableOf(k)}

(* A datagram in the socket. *)
Request == [command : Commands, from : Callers, live : BOOLEAN]

(* The commands a caller has left that are not carried out. *)
Left(c) == IF lock = c /\ answer = "output" THEN Tail(cmds[c]) ELSE cmds[c]

(* Only rules of S with the comment, each once; and all rules of S. *)
Only(R, S) == \A k \in Tagged : R[k] <= IF k \in S THEN 1 ELSE 0

Least(R, S) == \A k \in S : R[k] >= 1

AllClear == \A m \in Machines, k \in Tagged : rules[m][k] = 0

(* Where the callers are. *)
Phase(m) ==
    /\ pc[m] \in {"idle", "running", "stuck"} => cmds[m] = <<>>
    /\ pc[m] = "routing" => cmds[m] \in RouteTails(route[m])
    /\ pc[m] = "unrouting" => cmds[m] \in UnrouteTails(route[m])
    /\ cape # "ready" => pc[m] = "idle"

Phases ==
    /\ \A m \in Machines : Phase(m)
    /\ cmds[Boot] \in BootTails
    /\ cape # "boot" => cmds[Boot] = <<>>

Client ==
    /\ lock # NoOne => cmds[lock] # <<>>
    /\ lock = NoOne => answer = "none"
    /\ lock = Boot => answer # "exception"

(* Where CAPE is while there may be requests of the one before. *)
Stale == cape = "down" \/ (cape = "boot" /\ cmds[Boot] = InitCommands) \/ InitCommands = <<>>

Requests ==
    /\ \A i \in DOMAIN inbox :
          /\ inbox[i].live => /\ i = Len(inbox) /\ lock = inbox[i].from /\ answer = "none"
                              /\ inbox[i].command = Head(cmds[lock])
          /\ ~inbox[i].live => left /\ answer = "none" /\ Stale
    /\ ~up => inbox = <<>>
    /\ ended = "no" => up

ControlInv == TypeOK /\ Phases /\ Client /\ Requests

(* What is in the tables, as long as the rooter did not crash and the tables were   *)
(* cleaned up ...                                                                *)
MachineClear(m) ==
    /\ pc[m] = "idle" => Only(rules[m], {})
    /\ pc[m] = "routing" => Only(rules[m], There(route[m], Left(m)))
    /\ pc[m] = "running" => Only(rules[m], RulesOf(route[m]))
    /\ pc[m] = "unrouting" => Only(rules[m], Still(route[m], Left(m)))

NoneLeft ==
    /\ cape = "down" /\ ~left => AllClear /\ nat = 0
    /\ ended # "crashed" =>
          /\ ~up => AllClear
          /\ cape = "boot" /\ ~left => AllClear
          /\ cape = "ready" /\ ~left => \A m \in Machines : MachineClear(m)

(* ... which they were, if the rooter is required ...                              *)
Kept ==
    Required =>
        /\ ended = "stopped" /\ cape # "down" => ~left
        /\ ended = "no" /\ cape = "boot" /\ Left(Boot) # InitCommands => ~left
        /\ ended = "no" /\ cape = "ready" => ~left

(* ... and as long as it runs. *)
MachineRouted(m) ==
    /\ pc[m] = "routing" => Least(rules[m], There(route[m], Left(m)))
    /\ pc[m] = "running" => Least(rules[m], RulesOf(route[m]))

(* The NAT rule, when enable_nat was called or not. *)
NatIs(due) == (due => nat >= 1) /\ (~left => nat = IF due THEN 1 ELSE 0)

AllThere ==
    ended = "no" =>
        /\ cape = "boot" => NatIs(NatDue(Left(Boot)))
        /\ cape = "ready" => NatIs(Line) /\ \A m \in Machines : MachineRouted(m)

RuleInv == NoneLeft /\ Kept /\ AllThere

-----------------------------------------------------------------------------
(* The commands of the routes. *)

(* Heads and tails of the short sequences the commands come in. *)
LEMMA SeqFacts ==
  /\ \A a : /\ Head(<<a>>) = a /\ Tail(<<a>>) = <<>>
            /\ <<a>> # <<>>
  /\ \A a, b : /\ Head(<<a, b>>) = a /\ Tail(<<a, b>>) = <<b>>
               /\ <<a, b>> # <<>>
  /\ \A a, b, c : /\ Head(<<a, b, c>>) = a /\ Tail(<<a, b, c>>) = <<b, c>>
                  /\ <<a, b, c>> # <<>>
<1>1. ASSUME NEW a PROVE Head(<<a>>) = a /\ Tail(<<a>>) = <<>> /\ <<a>> # <<>>
  OBVIOUS
<1>2. ASSUME NEW a, NEW b
      PROVE  Head(<<a, b>>) = a /\ Tail(<<a, b>>) = <<b>> /\ <<a, b>> # <<>>
  OBVIOUS
<1>3. ASSUME NEW a, NEW b, NEW c
      PROVE  Head(<<a, b, c>>) = a /\ Tail(<<a, b, c>>) = <<b, c>> /\ <<a, b, c>> # <<>>
  OBVIOUS
<1> QED BY <1>1, <1>2, <1>3

(* Concatenating them. *)
LEMMA ConcatFacts ==
  /\ \A s \in Seq(Commands) : <<>> \o s = s /\ s \o <<>> = s
  /\ \A a, b \in Commands : <<a>> \o <<b>> = <<a, b>>
  /\ \A a, b, c \in Commands : <<a, b>> \o <<c>> = <<a, b, c>>
<1>1. ASSUME NEW s \in Seq(Commands) PROVE <<>> \o s = s /\ s \o <<>> = s
  BY ConcatEmptySeq
<1>2. ASSUME NEW a \in Commands, NEW b \in Commands PROVE <<a>> \o <<b>> = <<a, b>>
  <2>1. <<a>> \in Seq(Commands) /\ <<b>> \in Seq(Commands) /\ <<a, b>> \in Seq(Commands)
    OBVIOUS
  <2>2. /\ <<a>> \o <<b>> \in Seq(Commands)
        /\ Len(<<a>> \o <<b>>) = 2
        /\ \A i \in 1 .. 2 : (<<a>> \o <<b>>)[i] = IF i <= 1 THEN <<a>>[i] ELSE <<b>>[i - 1]
    BY <2>1, ConcatProperties
  <2>3. \A i \in 1 .. 2 : (<<a>> \o <<b>>)[i] = <<a, b>>[i]
    BY <2>2
  <2> QED BY <2>1, <2>2, <2>3, SeqEqual
<1>3. ASSUME NEW a \in Commands, NEW b \in Commands, NEW c \in Commands
      PROVE  <<a, b>> \o <<c>> = <<a, b, c>>
  <2>1. <<a, b>> \in Seq(Commands) /\ <<c>> \in Seq(Commands) /\ <<a, b, c>> \in Seq(Commands)
    OBVIOUS
  <2>2. /\ <<a, b>> \o <<c>> \in Seq(Commands)
        /\ Len(<<a, b>> \o <<c>>) = 3
        /\ \A i \in 1 .. 3 : (<<a, b>> \o <<c>>)[i] = IF i <= 2 THEN <<a, b>>[i] ELSE <<c>>[i - 2]
    BY <2>1, ConcatProperties
  <2>3. \A i \in 1 .. 3 : (<<a, b>> \o <<c>>)[i] = <<a, b, c>>[i]
    BY <2>2
  <2> QED BY <2>1, <2>2, <2>3, SeqEqual
<1> QED BY <1>1, <1>2, <1>3

(* The concatenations route_network makes. *)
LEMMA ConcatThree ==
  ASSUME NEW a \in Commands, NEW b \in Commands, NEW c \in Commands
  PROVE  /\ ((<<a>> \o <<b>>) \o <<c>>) \o <<>> = <<a, b, c>>
         /\ ((<<a>> \o <<>>) \o <<b>>) \o <<c>> = <<a, b, c>>
<1>1. <<a>> \in Seq(Commands) /\ <<a, b, c>> \in Seq(Commands)
  OBVIOUS
<1>2. <<a>> \o <<>> = <<a>> /\ <<a, b, c>> \o <<>> = <<a, b, c>>
  BY <1>1, ConcatFacts, Zenon
<1>3. <<a>> \o <<b>> = <<a, b>> /\ <<a, b>> \o <<c>> = <<a, b, c>>
  BY ConcatFacts, Zenon
<1> QED BY <1>2, <1>3, Zenon

(* The concatenations unroute_network makes. *)
LEMMA ConcatTwo ==
  ASSUME NEW a \in Commands, NEW b \in Commands
  PROVE  /\ (((<<a>> \o <<b>>) \o <<>>) \o <<>>) \o <<>> = <<a, b>>
         /\ (((<<a>> \o <<>>) \o <<b>>) \o <<>>) \o <<>> = <<a, b>>
         /\ (((<<a>> \o <<>>) \o <<>>) \o <<b>>) \o <<>> = <<a, b>>
<1>1. <<a>> \in Seq(Commands) /\ <<a, b>> \in Seq(Commands)
  OBVIOUS
<1>2. <<a>> \o <<>> = <<a>> /\ <<a, b>> \o <<>> = <<a, b>>
  BY <1>1, ConcatFacts, Zenon
<1>3. <<a>> \o <<b>> = <<a, b>>
  BY ConcatFacts, Zenon
<1> QED BY <1>2, <1>3, Zenon

(* The kinds of rules of every route, and the commands for them. *)
LEMMA RulesOfRoutes ==
  /\ RulesOf("none") = {"drop"}
  /\ RulesOf("inetsim") = {"forward", "inetsim", "ports"}
  /\ RulesOf("tor") = {"forward", "socks5"}
  /\ RulesOf("internet") = IF Line THEN {"line", "srcroute"} ELSE {}
  /\ RulesOf("false") = {}
BY DEF RulesOf, Kinds, HasInterface, HasTable

(* The command that adds a rule of a kind, and the one that takes it away. *)
LEMMA CommandsOfKinds ==
  /\ EnableOf("forward") = "forward_enable" /\ DisableOf("forward") = "forward_disable"
  /\ EnableOf("line") = "line_enable" /\ DisableOf("line") = "line_disable"
  /\ EnableOf("srcroute") = "srcroute_enable" /\ DisableOf("srcroute") = "srcroute_disable"
  /\ EnableOf("inetsim") = "inetsim_enable" /\ DisableOf("inetsim") = "inetsim_disable"
  /\ EnableOf("ports") = "inetsim_enable" /\ DisableOf("ports") = "inetsim_disable"
  /\ EnableOf("socks5") = "socks5_enable" /\ DisableOf("socks5") = "socks5_disable"
  /\ EnableOf("drop") = "drop_enable" /\ DisableOf("drop") = "drop_disable"
BY DEF EnableOf, DisableOf

(* The sequences that route_network and unroute_network call. *)
LEMMA WholeRoute ==
  ASSUME NEW r \in AllRoutes
  PROVE  /\ RouteNetwork(r) \in RouteTails(r) /\ UnrouteNetwork(r) \in UnrouteTails(r)
         /\ There(r, RouteNetwork(r)) = {} /\ Still(r, UnrouteNetwork(r)) = RulesOf(r)
<1>0. /\ \A a \in Commands : <<a>> \in Seq(Commands)
      /\ \A a, b \in Commands : <<a, b>> \in Seq(Commands)
      /\ \A a, b, c \in Commands : <<a, b, c>> \in Seq(Commands)
      /\ <<>> \in Seq(Commands)
      /\ "nic_available" \in Commands /\ "forward_enable" \in Commands
      /\ "line_enable" \in Commands /\ "line_disable" \in Commands
      /\ "forward_disable" \in Commands /\ "inetsim_enable" \in Commands
      /\ "inetsim_disable" \in Commands /\ "socks5_enable" \in Commands
      /\ "socks5_disable" \in Commands /\ "srcroute_enable" \in Commands
      /\ "srcroute_disable" \in Commands
  BY DEF Commands
<1>1. CASE r = "none"
  BY <1>1, RulesOfRoutes, CommandsOfKinds DEF RouteTails, UnrouteTails, RouteNetwork, UnrouteNetwork, EnableRoute, When,
              HasInterface, HasTable, There, Still
<1>5. CASE r = "false"
  BY <1>5, RulesOfRoutes, CommandsOfKinds DEF RouteTails, UnrouteTails, RouteNetwork, UnrouteNetwork, EnableRoute, When,
              HasInterface, HasTable, There, Still
<1>2. CASE r = "inetsim"
  <2>0. /\ When(HasInterface(r), <<"nic_available">>) = <<"nic_available">>
        /\ When(HasInterface(r), <<ForwardEnable(r)>>) = <<"forward_enable">>
        /\ When(HasInterface(r), <<ForwardDisable(r)>>) = <<"forward_disable">>
        /\ When(HasTable(r), <<"srcroute_enable">>) = <<>>
        /\ When(HasTable(r), <<"srcroute_disable">>) = <<>>
        /\ When(r = "inetsim", <<"inetsim_disable">>) = <<"inetsim_disable">>
        /\ When(r = "tor", <<"socks5_disable">>) = <<>>
        /\ When(r = "none", <<"drop_disable">>) = <<>>
    BY <1>2 DEF When, HasInterface, HasTable, ForwardEnable, ForwardDisable
  <2>1. EnableRoute(r) = (<<"inetsim_enable">> \o <<>>) \o <<>>
    BY <1>2 DEF EnableRoute, When
  <2>2. EnableRoute(r) = <<"inetsim_enable">>
    BY <2>1, <1>0, ConcatFacts, Zenon
  <2>3. RouteNetwork(r) = ((<<"nic_available">> \o <<"inetsim_enable">>) \o <<"forward_enable">>) \o <<>>
    BY <2>0, <2>2, Zenon DEF RouteNetwork
  <2>4. RouteNetwork(r) = <<"nic_available", "inetsim_enable", "forward_enable">>
    BY <2>3, <1>0, ConcatThree, Zenon
  <2>5. UnrouteNetwork(r) = (((<<"forward_disable">> \o <<>>) \o <<"inetsim_disable">>) \o <<>>) \o <<>>
    BY <2>0, Zenon DEF UnrouteNetwork
  <2>6. UnrouteNetwork(r) = <<"forward_disable", "inetsim_disable">>
    BY <2>5, <1>0, ConcatTwo, Zenon
  <2> QED BY <1>2, <2>4, <2>6, RulesOfRoutes, CommandsOfKinds DEF RouteTails, UnrouteTails, There, Still
<1>3. CASE r = "tor"
  <2>0. /\ When(HasInterface(r), <<"nic_available">>) = <<"nic_available">>
        /\ When(HasInterface(r), <<ForwardEnable(r)>>) = <<"forward_enable">>
        /\ When(HasInterface(r), <<ForwardDisable(r)>>) = <<"forward_disable">>
        /\ When(HasTable(r), <<"srcroute_enable">>) = <<>>
        /\ When(HasTable(r), <<"srcroute_disable">>) = <<>>
        /\ When(r = "inetsim", <<"inetsim_disable">>) = <<>>
        /\ When(r = "tor", <<"socks5_disable">>) = <<"socks5_disable">>
        /\ When(r = "none", <<"drop_disable">>) = <<>>
    BY <1>3 DEF When, HasInterface, HasTable, ForwardEnable, ForwardDisable
  <2>1. EnableRoute(r) = (<<>> \o <<"socks5_enable">>) \o <<>>
    BY <1>3 DEF EnableRoute, When
  <2>2. EnableRoute(r) = <<"socks5_enable">>
    BY <2>1, <1>0, ConcatFacts, Zenon
  <2>3. RouteNetwork(r) = ((<<"nic_available">> \o <<"socks5_enable">>) \o <<"forward_enable">>) \o <<>>
    BY <2>0, <2>2, Zenon DEF RouteNetwork
  <2>4. RouteNetwork(r) = <<"nic_available", "socks5_enable", "forward_enable">>
    BY <2>3, <1>0, ConcatThree, Zenon
  <2>5. UnrouteNetwork(r) = (((<<"forward_disable">> \o <<>>) \o <<>>) \o <<"socks5_disable">>) \o <<>>
    BY <2>0, Zenon DEF UnrouteNetwork
  <2>6. UnrouteNetwork(r) = <<"forward_disable", "socks5_disable">>
    BY <2>5, <1>0, ConcatTwo, Zenon
  <2> QED BY <1>3, <2>4, <2>6, RulesOfRoutes, CommandsOfKinds DEF RouteTails, UnrouteTails, There, Still
<1>4. CASE r = "internet" /\ Line
  <2>0. /\ When(HasInterface(r), <<"nic_available">>) = <<"nic_available">>
        /\ When(HasInterface(r), <<ForwardEnable(r)>>) = <<"line_enable">>
        /\ When(HasInterface(r), <<ForwardDisable(r)>>) = <<"line_disable">>
        /\ When(HasTable(r), <<"srcroute_enable">>) = <<"srcroute_enable">>
        /\ When(HasTable(r), <<"srcroute_disable">>) = <<"srcroute_disable">>
        /\ When(r = "inetsim", <<"inetsim_disable">>) = <<>>
        /\ When(r = "tor", <<"socks5_disable">>) = <<>>
        /\ When(r = "none", <<"drop_disable">>) = <<>>
    BY <1>4 DEF When, HasInterface, HasTable, ForwardEnable, ForwardDisable
  <2>1. EnableRoute(r) = (<<>> \o <<>>) \o <<>>
    BY <1>4 DEF EnableRoute, When
  <2>2. EnableRoute(r) = <<>>
    BY <2>1, <1>0, ConcatFacts, Zenon
  <2>3. RouteNetwork(r) = ((<<"nic_available">> \o <<>>) \o <<"line_enable">>) \o <<"srcroute_enable">>
    BY <2>0, <2>2, Zenon DEF RouteNetwork
  <2>4. RouteNetwork(r) = <<"nic_available", "line_enable", "srcroute_enable">>
    BY <2>3, <1>0, ConcatThree, Zenon
  <2>5. UnrouteNetwork(r) = (((<<"line_disable">> \o <<"srcroute_disable">>) \o <<>>) \o <<>>) \o <<>>
    BY <2>0, Zenon DEF UnrouteNetwork
  <2>6. UnrouteNetwork(r) = <<"line_disable", "srcroute_disable">>
    BY <2>5, <1>0, ConcatTwo, Zenon
  <2> QED BY <1>4, <2>4, <2>6, RulesOfRoutes, CommandsOfKinds DEF RouteTails, UnrouteTails, There, Still
<1>6. CASE r = "internet" /\ ~Line
  BY <1>6, RulesOfRoutes, CommandsOfKinds DEF RouteTails, UnrouteTails, RouteNetwork, UnrouteNetwork, EnableRoute, When,
              HasInterface, HasTable, There, Still
<1> QED BY <1>1, <1>2, <1>3, <1>4, <1>5, <1>6 DEF AllRoutes

(* One command of route_network adds what it is for. *)
LEMMA RouteStep ==
  ASSUME NEW r \in AllRoutes, NEW s \in RouteTails(r), s # <<>>
  PROVE  /\ s \in Seq(Commands) /\ Tail(s) \in RouteTails(r)
         /\ Head(s) \in Commands \ {"cleanup_rooter", "enable_nat", "disable_nat"}
         /\ \A k \in Kinds : Head(s) # DisableOf(k)
         /\ \A k \in Kinds : k \in There(r, Tail(s)) <=> k \in There(r, s) \/ EnableOf(k) = Head(s)
         /\ \A k \in Kinds : EnableOf(k) = Head(s) => k \notin There(r, s)
<1> USE SeqFacts, RulesOfRoutes, CommandsOfKinds DEF RouteTails, There, Kinds, Commands
<1>1. CASE r = "none"
  <2>1. CASE s = <<"drop_enable">>
    BY <1>1, <2>1
  <2> QED BY <1>1, <2>1
<1>2. CASE r = "inetsim"
  <2>1. CASE s = <<"nic_available", "inetsim_enable", "forward_enable">>
    BY <1>2, <2>1
  <2>2. CASE s = <<"inetsim_enable", "forward_enable">>
    BY <1>2, <2>2
  <2>3. CASE s = <<"forward_enable">>
    BY <1>2, <2>3
  <2> QED BY <1>2, <2>1, <2>2, <2>3
<1>3. CASE r = "tor"
  <2>1. CASE s = <<"nic_available", "socks5_enable", "forward_enable">>
    BY <1>3, <2>1
  <2>2. CASE s = <<"socks5_enable", "forward_enable">>
    BY <1>3, <2>2
  <2>3. CASE s = <<"forward_enable">>
    BY <1>3, <2>3
  <2> QED BY <1>3, <2>1, <2>2, <2>3
<1>4. CASE r = "internet" /\ Line
  <2>1. CASE s = <<"nic_available", "line_enable", "srcroute_enable">>
    BY <1>4, <2>1
  <2>2. CASE s = <<"line_enable", "srcroute_enable">>
    BY <1>4, <2>2
  <2>3. CASE s = <<"srcroute_enable">>
    BY <1>4, <2>3
  <2> QED BY <1>4, <2>1, <2>2, <2>3
<1>5. CASE r = "false"
  BY <1>5
<1>6. CASE r = "internet" /\ ~Line
  BY <1>6
<1> QED BY <1>1, <1>2, <1>3, <1>4, <1>5, <1>6 DEF AllRoutes

(* One command of unroute_network takes away what it is for. *)
LEMMA UnrouteStep ==
  ASSUME NEW r \in AllRoutes, NEW s \in UnrouteTails(r), s # <<>>
  PROVE  /\ s \in Seq(Commands) /\ Tail(s) \in UnrouteTails(r)
         /\ Head(s) \in Commands \ {"cleanup_rooter", "enable_nat", "disable_nat", "nic_available"}
         /\ \A k \in Kinds : Head(s) # EnableOf(k)
         /\ \A k \in Kinds : k \in Still(r, Tail(s)) <=> k \in Still(r, s) /\ DisableOf(k) # Head(s)
<1> USE SeqFacts, RulesOfRoutes, CommandsOfKinds DEF UnrouteTails, Still, Kinds, Commands
<1>1. CASE r = "none"
  <2>1. CASE s = <<"drop_disable">>
    BY <1>1, <2>1
  <2> QED BY <1>1, <2>1
<1>2. CASE r = "inetsim"
  <2>1. CASE s = <<"forward_disable", "inetsim_disable">>
    BY <1>2, <2>1
  <2>2. CASE s = <<"inetsim_disable">>
    BY <1>2, <2>2
  <2> QED BY <1>2, <2>1, <2>2
<1>3. CASE r = "tor"
  <2>1. CASE s = <<"forward_disable", "socks5_disable">>
    BY <1>3, <2>1
  <2>2. CASE s = <<"socks5_disable">>
    BY <1>3, <2>2
  <2> QED BY <1>3, <2>1, <2>2
<1>4. CASE r = "internet" /\ Line
  <2>1. CASE s = <<"line_disable", "srcroute_disable">>
    BY <1>4, <2>1
  <2>2. CASE s = <<"srcroute_disable">>
    BY <1>4, <2>2
  <2> QED BY <1>4, <2>1, <2>2
<1>5. CASE r = "false"
  BY <1>5
<1>6. CASE r = "internet" /\ ~Line
  BY <1>6
<1> QED BY <1>1, <1>2, <1>3, <1>4, <1>5, <1>6 DEF AllRoutes

(* What is left of a route are commands. *)
LEMMA TailsAreCommands ==
  ASSUME NEW r \in AllRoutes
  PROVE  RouteTails(r) \subseteq Seq(Commands) /\ UnrouteTails(r) \subseteq Seq(Commands)
<1>1. <<>> \in Seq(Commands)
  OBVIOUS
<1>2. ASSUME NEW s \in RouteTails(r) PROVE s \in Seq(Commands)
  BY <1>1, RouteStep
<1>3. ASSUME NEW s \in UnrouteTails(r) PROVE s \in Seq(Commands)
  BY <1>1, UnrouteStep
<1> QED BY <1>2, <1>3

(* With no command left, all rules of the route are there, or none. *)
LEMMA RouteEnds ==
  ASSUME NEW r \in AllRoutes
  PROVE  /\ <<>> \in RouteTails(r) /\ <<>> \in UnrouteTails(r)
         /\ There(r, <<>>) = RulesOf(r) /\ Still(r, <<>>) = {}
BY DEF AllRoutes, RouteTails, UnrouteTails, There, Still

(* What the start-up calls, in each configuration. *)
LEMMA StartUp ==
  /\ Line /\ Required => InitCommands =
       <<"cleanup_rooter", "forward_drop", "state_disable", "state_enable",
         "nic_available", "rt_available", "disable_nat", "enable_nat", "line_disable">>
  /\ Line /\ ~Required => InitCommands =
       <<"nic_available", "rt_available", "disable_nat", "enable_nat", "line_disable">>
  /\ ~Line /\ Required => InitCommands =
       <<"cleanup_rooter", "forward_drop", "state_disable", "state_enable">>
  /\ ~Line /\ ~Required => InitCommands = <<>>
<1> DEFINE a == <<"cleanup_rooter", "forward_drop", "state_disable", "state_enable">>
           b == <<"nic_available", "rt_available", "disable_nat", "enable_nat", "line_disable">>
           c == <<"cleanup_rooter", "forward_drop", "state_disable", "state_enable",
                  "nic_available", "rt_available", "disable_nat", "enable_nat", "line_disable">>
<1>1. a \in Seq(Commands) /\ b \in Seq(Commands) /\ c \in Seq(Commands) /\ <<>> \in Seq(Commands)
  BY DEF Commands
<1>2. Len(a) = 4 /\ Len(b) = 5 /\ Len(c) = 9
  OBVIOUS
<1>3. \A i \in 1 .. 9 : c[i] = IF i <= 4 THEN a[i] ELSE b[i - 4]
  OBVIOUS
<1>4. InitCommands = (IF Required THEN a ELSE <<>>) \o (IF Line THEN b ELSE <<>>)
  BY DEF InitCommands, When, InitLine
<1> HIDE DEF a, b, c
<1>5. a \o b = c
  <2>0. /\ a \o b \in Seq(Commands) /\ Len(a \o b) = Len(a) + Len(b)
        /\ \A i \in 1 .. Len(a) + Len(b) : (a \o b)[i] = IF i <= Len(a) THEN a[i] ELSE b[i - Len(a)]
    BY <1>1, ConcatProperties, Zenon
  <2>1. /\ a \o b \in Seq(Commands) /\ Len(a \o b) = 9
        /\ \A i \in 1 .. 9 : (a \o b)[i] = IF i <= 4 THEN a[i] ELSE b[i - 4]
    BY <1>2, <2>0
  <2>2. \A i \in 1 .. 9 : (a \o b)[i] = c[i]
    BY <2>1, <1>3
  <2> QED BY <1>1, <1>2, <2>1, <2>2, SeqEqual
<1>6. a \o <<>> = a /\ <<>> \o b = b /\ <<>> \o <<>> = <<>>
  BY <1>1, ConcatEmptySeq
<1>7. /\ Line /\ Required => InitCommands = c
      /\ Line /\ ~Required => InitCommands = b
      /\ ~Line /\ Required => InitCommands = a
      /\ ~Line /\ ~Required => InitCommands = <<>>
  BY <1>4, <1>5, <1>6
<1> QED BY <1>7 DEF a, b, c

(* The start-up with a dirty line, with init_rooter's commands before it or not. *)
LEMMA LineStep ==
  ASSUME Line, NEW s \in RooterLineTails \cup LineTails, s # <<>>
  PROVE  /\ s \in Seq(Commands) /\ Head(s) \in Commands
         /\ s \in LineTails => Tail(s) \in LineTails /\ Head(s) # "cleanup_rooter" /\ Len(Tail(s)) # 5
         /\ Tail(s) \in RooterLineTails \cup LineTails
         /\ Len(Tail(s)) # 9
         /\ Head(s) = "cleanup_rooter" <=> Len(s) = 9
         /\ Len(s) = 9 => s = <<"cleanup_rooter", "forward_drop", "state_disable", "state_enable",
                                 "nic_available", "rt_available", "disable_nat", "enable_nat", "line_disable">>
         /\ NatDue(Tail(s)) <=> NatDue(s) \/ Head(s) = "enable_nat"
         /\ Head(s) \in {"enable_nat", "disable_nat", "cleanup_rooter"} => ~NatDue(s)
<1> USE DEF LineTails, RooterLineTails, Commands, NatDue
<1>1. CASE s = <<"cleanup_rooter", "forward_drop", "state_disable", "state_enable",
                 "nic_available", "rt_available", "disable_nat", "enable_nat", "line_disable">>
  BY <1>1
<1>2. CASE s = <<"forward_drop", "state_disable", "state_enable",
                 "nic_available", "rt_available", "disable_nat", "enable_nat", "line_disable">>
  BY <1>2
<1>3. CASE s = <<"state_disable", "state_enable",
                 "nic_available", "rt_available", "disable_nat", "enable_nat", "line_disable">>
  BY <1>3
<1>4. CASE s = <<"state_enable",
                 "nic_available", "rt_available", "disable_nat", "enable_nat", "line_disable">>
  BY <1>4
<1>5. CASE s = <<"nic_available", "rt_available", "disable_nat", "enable_nat", "line_disable">>
  BY <1>5
<1>6. CASE s = <<"rt_available", "disable_nat", "enable_nat", "line_disable">>
  BY <1>6
<1>7. CASE s = <<"disable_nat", "enable_nat", "line_disable">>
  BY <1>7
<1>8. CASE s = <<"enable_nat", "line_disable">>
  BY <1>8
<1>9. CASE s = <<"line_disable">>
  BY <1>9
<1> QED BY <1>1, <1>2, <1>3, <1>4, <1>5, <1>6, <1>7, <1>8, <1>9

(* The start-up without one. *)
LEMMA RooterStep ==
  ASSUME NEW s \in RooterTails, s # <<>>
  PROVE  /\ s \in Seq(Commands) /\ Head(s) \in Commands \ {"enable_nat", "disable_nat"}
         /\ Tail(s) \in RooterTails
         /\ Len(Tail(s)) # 4
         /\ Head(s) = "cleanup_rooter" <=> Len(s) = 4
         /\ Len(s) = 4 => s = <<"cleanup_rooter", "forward_drop", "state_disable", "state_enable">>
<1> USE DEF RooterTails, Commands
<1>1. CASE s = <<"cleanup_rooter", "forward_drop", "state_disable", "state_enable">>
  BY <1>1
<1>2. CASE s = <<"forward_drop", "state_disable", "state_enable">>
  BY <1>2
<1>3. CASE s = <<"state_disable", "state_enable">>
  BY <1>3
<1>4. CASE s = <<"state_enable">>
  BY <1>4
<1> QED BY <1>1, <1>2, <1>3, <1>4

(* The commands of the start-up: cleanup_rooter, if at all, first. *)
LEMMA BootStep ==
  ASSUME NEW s \in BootTails, s # <<>>
  PROVE  /\ s \in Seq(Commands) /\ Tail(s) \in BootTails /\ Tail(s) # InitCommands
         /\ Head(s) \in Commands
         /\ Head(s) = "cleanup_rooter" <=> s = InitCommands /\ Required
         /\ NatDue(Tail(s)) <=> NatDue(s) \/ Head(s) = "enable_nat"
         /\ Head(s) \in {"enable_nat", "disable_nat", "cleanup_rooter"} => ~NatDue(s)
<1>1. CASE Line /\ Required
  <2>1. s \in RooterLineTails \cup LineTails /\ Len(InitCommands) = 9
    BY <1>1, StartUp DEF BootTails
  <2>2. Len(s) = 9 => s = InitCommands
    BY <1>1, <2>1, StartUp, LineStep
  <2>3. /\ s \in Seq(Commands) /\ Head(s) \in Commands
        /\ Tail(s) \in RooterLineTails \cup LineTails
        /\ Head(s) = "cleanup_rooter" <=> Len(s) = 9
        /\ NatDue(Tail(s)) <=> NatDue(s) \/ Head(s) = "enable_nat"
        /\ Head(s) \in {"enable_nat", "disable_nat", "cleanup_rooter"} => ~NatDue(s)
    BY <1>1, <2>1, LineStep
  <2>4. Len(Tail(s)) # 9
    BY <1>1, <2>1, LineStep
  <2>5. Tail(s) # InitCommands
    BY <2>1, <2>4, Zenon
  <2>6. Head(s) = "cleanup_rooter" <=> s = InitCommands /\ Required
    <3>1. s = InitCommands => Len(s) = 9
      BY <2>1
    <3> QED BY <1>1, <2>2, <2>3, <3>1, Zenon
  <2>7. Tail(s) \in BootTails
    BY <1>1, <2>3 DEF BootTails
  <2> QED BY <2>3, <2>5, <2>6, <2>7, Zenon
<1>2. CASE Line /\ ~Required
  <2>1. s \in LineTails /\ Len(InitCommands) = 5
    BY <1>2, StartUp DEF BootTails
  <2>3. /\ s \in Seq(Commands) /\ Head(s) \in Commands
        /\ Tail(s) \in LineTails /\ Head(s) # "cleanup_rooter"
        /\ NatDue(Tail(s)) <=> NatDue(s) \/ Head(s) = "enable_nat"
        /\ Head(s) \in {"enable_nat", "disable_nat", "cleanup_rooter"} => ~NatDue(s)
    BY <1>2, <2>1, LineStep
  <2>4. Len(Tail(s)) # 5
    BY <1>2, <2>1, LineStep
  <2>5. Tail(s) # InitCommands
    BY <2>1, <2>4, Zenon
  <2>7. Tail(s) \in BootTails
    BY <1>2, <2>3 DEF BootTails
  <2> QED BY <1>2, <2>3, <2>5, <2>7, Zenon
<1>3. CASE ~Line /\ Required
  <2>1. s \in RooterTails /\ Len(InitCommands) = 4
    BY <1>3, StartUp DEF BootTails
  <2>2. Len(s) = 4 => s = InitCommands
    BY <1>3, <2>1, StartUp, RooterStep
  <2>3. /\ s \in Seq(Commands) /\ Head(s) \in Commands \ {"enable_nat", "disable_nat"}
        /\ Tail(s) \in RooterTails
        /\ Head(s) = "cleanup_rooter" <=> Len(s) = 4
    BY <2>1, RooterStep
  <2>4. Len(Tail(s)) # 4
    BY <2>1, RooterStep
  <2>5. Tail(s) # InitCommands
    BY <2>1, <2>4, Zenon
  <2>6. Head(s) = "cleanup_rooter" <=> s = InitCommands /\ Required
    <3>1. s = InitCommands => Len(s) = 4
      BY <2>1
    <3> QED BY <1>3, <2>2, <2>3, <3>1, Zenon
  <2>7. Tail(s) \in BootTails
    BY <1>3, <2>3 DEF BootTails
  <2>8. ~NatDue(s) /\ ~NatDue(Tail(s)) /\ Head(s) # "enable_nat"
    BY <1>3, <2>3 DEF NatDue
  <2> QED BY <2>3, <2>5, <2>6, <2>7, <2>8
<1>4. CASE ~Line /\ ~Required
  BY <1>4 DEF BootTails
<1> QED BY <1>1, <1>2, <1>3, <1>4

(* The start-up begins with all its commands, and ends when none is left. *)
LEMMA StartUpTails ==
  /\ InitCommands \in BootTails /\ <<>> \in BootTails /\ BootTails \subseteq Seq(Commands)
  /\ Required => InitCommands # <<>>
  /\ NatDue(<<>>) <=> Line
  /\ ~NatDue(InitCommands)
<1>1. InitCommands \in BootTails /\ <<>> \in BootTails
  BY StartUp DEF BootTails, RooterLineTails, LineTails, RooterTails
<1>2. Required => InitCommands # <<>>
  BY StartUp
<1>3. BootTails \subseteq Seq(Commands)
  <2>1. <<>> \in Seq(Commands)
    OBVIOUS
  <2> QED BY <2>1, BootStep
<1>4. ~NatDue(InitCommands)
  <2>1. CASE Line
    <3>1. InitCommands \in RooterLineTails \cup LineTails /\ InitCommands # <<>>
      BY <2>1, StartUp DEF RooterLineTails, LineTails
    <3>2. Head(InitCommands) # "line_disable"
      BY <2>1, StartUp
    <3> QED BY <3>1, <3>2 DEF NatDue
  <2> QED BY <2>1 DEF NatDue
<1> QED BY <1>1, <1>2, <1>3, <1>4 DEF NatDue

(* What a command does to the rules for one address. *)
LEMMA RulesAfterCommand ==
  ASSUME NEW c \in Commands, NEW R \in [Kinds -> Nat]
  PROVE  /\ RulesAfter(c, R) \in [Kinds -> Nat]
         /\ \A k \in Kinds :
              /\ c = EnableOf(k) => RulesAfter(c, R)[k] = IF k = "srcroute" THEN 1 ELSE R[k] + 1
              /\ c = DisableOf(k) => RulesAfter(c, R)[k] = IF k = "srcroute" THEN 0 ELSE Less(R[k])
              /\ c # EnableOf(k) /\ c # DisableOf(k) => RulesAfter(c, R)[k] = R[k]
<1> USE CommandsOfKinds DEF RulesAfter, More, Less, Kinds
<1>1. CASE c \in {"forward_enable", "forward_disable"}
  BY <1>1
<1>8. CASE c \in {"line_enable", "line_disable"}
  BY <1>8
<1>2. CASE c \in {"srcroute_enable", "srcroute_disable"}
  BY <1>2
<1>3. CASE c = "inetsim_enable"
  BY <1>3
<1>4. CASE c = "inetsim_disable"
  BY <1>4
<1>5. CASE c \in {"socks5_enable", "socks5_disable"}
  BY <1>5
<1>6. CASE c \in {"drop_enable", "drop_disable"}
  BY <1>6
<1>7. CASE c \notin {"forward_enable", "forward_disable", "line_enable", "line_disable",
                     "srcroute_enable", "srcroute_disable", "inetsim_enable", "inetsim_disable",
                     "socks5_enable", "socks5_disable", "drop_enable", "drop_disable"}
  <2>1. RulesAfter(c, R) = R
    BY <1>7
  <2> QED BY <1>7, <2>1
<1> QED BY <1>1, <1>2, <1>3, <1>4, <1>5, <1>6, <1>7, <1>8

-----------------------------------------------------------------------------
(* The control: who calls what, and which requests are in the socket. *)

(* A machine's route is one of the five. *)
LEMMA RouteKnown == ASSUME TypeOK, NEW m \in Machines PROVE route[m] \in AllRoutes
BY RooterAssumption DEF TypeOK, AllRoutes

(* What the queue of the socket holds. *)
LEMMA Inbox ==
  ASSUME TypeOK
  PROVE  /\ inbox \in Seq(Request) /\ Len(inbox) \in Nat /\ DOMAIN inbox = 1 .. Len(inbox)
         /\ \A i \in DOMAIN inbox : inbox[i] \in Request /\ inbox[i].from \in Callers
         /\ inbox # <<>> => 1 \in DOMAIN inbox /\ Head(inbox) = inbox[1]
         /\ Len(inbox) = 1 => Tail(inbox) = <<>>
<1>1. inbox \in Seq(Request)
  BY DEF TypeOK, Request
<1>2. Len(inbox) \in Nat /\ DOMAIN inbox = 1 .. Len(inbox)
  BY <1>1
<1>3. \A i \in DOMAIN inbox : inbox[i] \in Request
  BY <1>1
<1>4. \A q \in Request : q.from \in Callers
  BY DEF Request
<1>5. inbox # <<>> => 1 \in DOMAIN inbox /\ Head(inbox) = inbox[1]
  BY <1>1
<1>6. Len(inbox) = 1 => Tail(inbox) = <<>>
  <2>1. ASSUME Len(inbox) = 1 PROVE Tail(inbox) \in Seq(Request) /\ Len(Tail(inbox)) = 0
    <3>1. inbox # <<>>
      BY <2>1
    <3> QED BY <1>1, <2>1, <3>1, HeadTailProperties
  <2> QED BY <2>1, EmptySeq
<1> QED BY <1>1, <1>2, <1>3, <1>4, <1>5, <1>6

(* A caller that has something to call. *)
LEMMA Calling ==
  ASSUME ControlInv, NEW c \in Callers, cmds[c] # <<>>
  PROVE  /\ Head(cmds[c]) \in Commands /\ Tail(cmds[c]) \in Seq(Commands)
         /\ cape # "down"
         /\ c = Boot => cape = "boot" /\ Tail(cmds[c]) \in BootTails
         /\ c # Boot => /\ c \in Machines /\ cape = "ready"
                        /\ \/ /\ pc[c] = "routing" /\ cmds[c] \in RouteTails(route[c])
                              /\ Tail(cmds[c]) \in RouteTails(route[c])
                           \/ /\ pc[c] = "unrouting" /\ cmds[c] \in UnrouteTails(route[c])
                              /\ Tail(cmds[c]) \in UnrouteTails(route[c])
<1>1. cmds[c] \in Seq(Commands)
  BY DEF ControlInv, TypeOK
<1>2. Head(cmds[c]) \in Commands /\ Tail(cmds[c]) \in Seq(Commands)
  BY <1>1
<1>3. CASE c = Boot
  BY <1>2, <1>3, BootStep DEF ControlInv, Phases, Phase
<1>4. CASE c # Boot
  <2>1. c \in Machines
    BY <1>4 DEF Callers
  <2>2. pc[c] \in {"idle", "routing", "running", "unrouting", "stuck"}
    BY <2>1 DEF ControlInv, TypeOK
  <2>3. route[c] \in AllRoutes
    BY <2>1, RouteKnown DEF ControlInv
  <2>6. /\ pc[c] \in {"idle", "running", "stuck"} => cmds[c] = <<>>
        /\ pc[c] = "routing" => cmds[c] \in RouteTails(route[c])
        /\ pc[c] = "unrouting" => cmds[c] \in UnrouteTails(route[c])
    BY <2>1 DEF ControlInv, Phases, Phase
  <2>4. \/ pc[c] = "routing" /\ cmds[c] \in RouteTails(route[c])
        \/ pc[c] = "unrouting" /\ cmds[c] \in UnrouteTails(route[c])
    BY <2>2, <2>6
  <2>5. cape = "ready"
    BY <2>1, <2>4 DEF ControlInv, Phases, Phase
  <2> QED BY <1>2, <1>4, <2>1, <2>3, <2>4, <2>5, RouteStep, UnrouteStep
<1> QED BY <1>3, <1>4

(* While an answer is read, or nobody can be asked, there is no request. *)
LEMMA NoRequest ==
  ASSUME ControlInv, lock # NoOne, answer # "none"
  PROVE  inbox = <<>>
<1>1. lock \in Callers /\ cmds[lock] # <<>>
  BY DEF ControlInv, TypeOK, Client
<1>2. cape # "down"
  BY <1>1, Calling
<1>3. inbox \in Seq(Request)
  BY Inbox DEF ControlInv
<1>4. \A i \in DOMAIN inbox : inbox[i].live \/ ~inbox[i].live
  BY Zenon
<1>5. \A i \in DOMAIN inbox : FALSE
  BY <1>4 DEF ControlInv, Requests
<1>6. Len(inbox) \in Nat /\ DOMAIN inbox = 1 .. Len(inbox)
  BY <1>3
<1>7. Len(inbox) = 0
  BY <1>5, <1>6
<1> QED BY <1>3, <1>7

(* Send keeps ControlInv. *)
LEMMA SendControl == ASSUME ControlInv, NEW c \in Callers, Send(c) PROVE ControlInv'
<1>0. /\ lock = NoOne /\ up /\ cmds[c] # <<>> /\ lock' = c /\ answer' = "none"
      /\ inbox' = Append(inbox, [command |-> Head(cmds[c]), from |-> c, live |-> TRUE])
      /\ cape' = cape /\ pc' = pc /\ route' = route /\ cmds' = cmds /\ up' = up
      /\ rules' = rules /\ nat' = nat /\ ended' = ended /\ left' = left /\ faults' = faults
  BY DEF Send
<1>1. Head(cmds[c]) \in Commands
  BY <1>0, Calling
<1>2. c # NoOne /\ NoOne \notin Callers
  BY RooterAssumption DEF Callers
<1>3. inbox \in Seq(Request)
  BY Inbox DEF ControlInv
<1>4. TypeOK'
  <2>1. [command |-> Head(cmds[c]), from |-> c, live |-> TRUE] \in Request
    BY <1>1 DEF Request
  <2>2. inbox' \in Seq(Request)
    BY <1>0, <1>3, <2>1, AppendProperties
  <2> QED BY <1>0, <2>2 DEF ControlInv, TypeOK, Request
<1>5. Phases'
  BY <1>0 DEF ControlInv, Phases, Phase
<1>6. Client'
  <2>1. c # Boot \/ answer' # "exception"
    BY <1>0
  <2> QED BY <1>0, <1>2 DEF Client
<1>7. Requests'
  <2>1. /\ Len(inbox') = Len(inbox) + 1 /\ DOMAIN inbox' = 1 .. Len(inbox')
        /\ Len(inbox) \in Nat /\ DOMAIN inbox = 1 .. Len(inbox)
        /\ \A i \in DOMAIN inbox : inbox'[i] = inbox[i]
        /\ inbox'[Len(inbox')] = [command |-> Head(cmds[c]), from |-> c, live |-> TRUE]
    <3> DEFINE q == [command |-> Head(cmds[c]), from |-> c, live |-> TRUE]
    <3>1. q \in Request
      BY <1>1 DEF Request
    <3>2. inbox' = Append(inbox, q)
      BY <1>0
    <3> HIDE DEF q
    <3>3. /\ Len(inbox') = Len(inbox) + 1 /\ DOMAIN inbox' = 1 .. Len(inbox')
          /\ Len(inbox) \in Nat /\ DOMAIN inbox = 1 .. Len(inbox)
          /\ \A i \in DOMAIN inbox : inbox'[i] = inbox[i]
          /\ inbox'[Len(inbox')] = q
      BY <1>3, <3>1, <3>2, AppendProperties
    <3> QED BY <3>3 DEF q
  <2>2. \A i \in DOMAIN inbox : inbox[i].from \in Callers
    BY Inbox DEF ControlInv
  <2>3. \A i \in DOMAIN inbox : ~inbox[i].live
    BY <1>0, <1>2, <2>2 DEF ControlInv, Requests
  <2>4. ASSUME NEW i \in DOMAIN inbox'
        PROVE  /\ inbox'[i].live => /\ i = Len(inbox') /\ lock' = inbox'[i].from /\ answer' = "none"
                                    /\ inbox'[i].command = Head(cmds'[lock'])
               /\ ~inbox'[i].live => left' /\ answer' = "none" /\ Stale'
    <3>1. i \in DOMAIN inbox \/ i = Len(inbox')
      BY <2>1
    <3>2. CASE i \in DOMAIN inbox
      <4>1. inbox'[i] = inbox[i] /\ ~inbox[i].live
        BY <3>2, <2>1, <2>3
      <4>2. left /\ Stale
        BY <3>2, <4>1 DEF ControlInv, Requests
      <4> QED BY <4>1, <4>2, <1>0 DEF Stale
    <3>3. CASE i = Len(inbox')
      BY <3>3, <2>1, <1>0
    <3> QED BY <3>1, <3>2, <3>3
  <2>5. up' /\ (ended' = "no" => up')
    BY <1>0
  <2> QED BY <2>4, <2>5 DEF Requests
<1> QED BY <1>4, <1>5, <1>6, <1>7 DEF ControlInv

(* What a request does to the tables. *)
LEMMA CarriedRules ==
  ASSUME NEW q \in Request,
         NEW R \in [Machines -> [Kinds -> Nat]], NEW n \in Nat
  PROVE  /\ Clean(R) \in [Machines -> [Kinds -> Nat]]
         /\ \A m \in Machines, k \in Tagged : Clean(R)[m][k] = 0
         /\ Carried(q, R) \in [Machines -> [Kinds -> Nat]]
         /\ q.command = "cleanup_rooter" => Carried(q, R) = Clean(R)
         /\ q.command # "cleanup_rooter" =>
              \A m \in Machines :
                 Carried(q, R)[m] = IF q.from \in {m, Boot} THEN RulesAfter(q.command, R[m]) ELSE R[m]
         /\ CarriedNat(q, n) \in Nat
         /\ q.command = "cleanup_rooter" => CarriedNat(q, n) = 0
         /\ q.command = "enable_nat" => CarriedNat(q, n) = n + 1
         /\ q.command \notin {"cleanup_rooter", "enable_nat", "disable_nat"} => CarriedNat(q, n) = n
         /\ n = 0 /\ q.command # "enable_nat" => CarriedNat(q, n) = 0
<1>1. /\ Clean(R) \in [Machines -> [Kinds -> Nat]]
      /\ \A m \in Machines, k \in Tagged : Clean(R)[m][k] = 0
  BY DEF Clean, Tagged, Kinds
<1>2. q.command \in Commands
  BY DEF Request
<1>3. \A m \in Machines : RulesAfter(q.command, R[m]) \in [Kinds -> Nat]
  BY <1>2, RulesAfterCommand
<1>4. CASE q.command = "cleanup_rooter"
  BY <1>1, <1>4 DEF Carried, CarriedNat
<1>5. CASE q.command # "cleanup_rooter"
  <2>1. Carried(q, R) = [m \in Machines |->
            IF q.from \in {m, Boot} THEN RulesAfter(q.command, R[m]) ELSE R[m]]
    BY <1>5 DEF Carried
  <2>2. Carried(q, R) \in [Machines -> [Kinds -> Nat]]
    BY <2>1, <1>3
  <2>3. \A m \in Machines :
           Carried(q, R)[m] = IF q.from \in {m, Boot} THEN RulesAfter(q.command, R[m]) ELSE R[m]
    BY <2>1
  <2>4. /\ CarriedNat(q, n) \in Nat
        /\ q.command = "enable_nat" => CarriedNat(q, n) = n + 1
        /\ q.command \notin {"cleanup_rooter", "enable_nat", "disable_nat"} => CarriedNat(q, n) = n
        /\ n = 0 /\ q.command # "enable_nat" => CarriedNat(q, n) = 0
    BY <1>5 DEF CarriedNat, More, Less
  <2> QED BY <1>1, <1>5, <2>2, <2>3, <2>4
<1> QED BY <1>4, <1>5

(* The request at the head of the queue. *)
LEMMA FirstRequest ==
  ASSUME ControlInv, inbox # <<>>
  PROVE  /\ Head(inbox) \in Request
         /\ Head(inbox).live => /\ Tail(inbox) = <<>> /\ lock = Head(inbox).from /\ answer = "none"
                                /\ Head(inbox).command = Head(cmds[lock])
                                /\ lock # NoOne /\ cmds[lock] # <<>>
         /\ ~Head(inbox).live => left /\ answer = "none" /\ Stale
<1>2. Head(inbox) \in Request /\ Head(inbox) = inbox[1]
  BY Inbox DEF ControlInv
<1>3. 1 \in DOMAIN inbox
  BY Inbox DEF ControlInv
<1>4. Head(inbox).from \in Callers /\ NoOne \notin Callers
  BY <1>2, RooterAssumption DEF Callers, Request
<1>5. Len(inbox) = 1 => Tail(inbox) = <<>>
  BY Inbox DEF ControlInv
<1>6. lock # NoOne => cmds[lock] # <<>>
  BY DEF ControlInv, Client
<1>7. ASSUME Head(inbox).live
      PROVE  /\ Tail(inbox) = <<>> /\ lock = Head(inbox).from /\ answer = "none"
             /\ Head(inbox).command = Head(cmds[lock])
             /\ lock # NoOne /\ cmds[lock] # <<>>
  <2>1. 1 = Len(inbox) /\ lock = inbox[1].from /\ answer = "none" /\ inbox[1].command = Head(cmds[lock])
    BY <1>2, <1>3, <1>7 DEF ControlInv, Requests
  <2> QED BY <2>1, <1>2, <1>4, <1>5, <1>6
<1>8. ASSUME ~Head(inbox).live
      PROVE  left /\ answer = "none" /\ Stale
  BY <1>2, <1>3, <1>8 DEF ControlInv, Requests
<1> QED BY <1>2, <1>7, <1>8

(* With an empty queue, little is left of Requests. *)
LEMMA EmptyQueue ==
  ASSUME inbox' = <<>>, ended' = "no" => up'
  PROVE  Requests'
BY DEF Requests

(* Serve keeps ControlInv. *)
LEMMA ServeControl == ASSUME ControlInv, Serve PROVE ControlInv'
<1>0. PICK q : q = Head(inbox)
  OBVIOUS
<1>1. /\ up /\ inbox # <<>>
      /\ cape' = cape /\ pc' = pc /\ route' = route /\ cmds' = cmds /\ lock' = lock
  BY DEF Serve
<1>2. /\ q \in Request
      /\ q.live => /\ Tail(inbox) = <<>> /\ lock = q.from /\ answer = "none"
                   /\ lock # NoOne
  BY <1>0, <1>1, FirstRequest
<1>3. rules \in [Machines -> [Kinds -> Nat]] /\ nat \in Nat /\ faults \in 0 .. MaxFaults /\ MaxFaults \in Nat
  BY RooterAssumption DEF ControlInv, TypeOK, Request
<1>4. Carried(q, rules) \in [Machines -> [Kinds -> Nat]] /\ CarriedNat(q, nat) \in Nat
  BY <1>2, <1>3, CarriedRules
<1>5. Phases'
  BY <1>1 DEF ControlInv, Phases, Phase
<1>6. <<>> \in Seq(Request)
  OBVIOUS
<1>7. CASE /\ rules' = Carried(q, rules) /\ nat' = CarriedNat(q, nat) /\ q.live
           /\ answer' = "output" /\ inbox' = Tail(inbox) /\ up' = up /\ ended' = ended
           /\ faults' = faults /\ left' \in BOOLEAN
  <2>1. inbox' = <<>> /\ lock # NoOne
    BY <1>2, <1>7
  <2>2. TypeOK'
    BY <1>1, <1>4, <1>6, <1>7, <2>1 DEF ControlInv, TypeOK, Request
  <2>3. Client'
    BY <1>1, <1>7, <2>1 DEF ControlInv, Client
  <2>4. ended' = "no" => up'
    BY <1>7 DEF ControlInv, Requests
  <2> QED BY <1>5, <2>1, <2>2, <2>3, <2>4, EmptyQueue DEF ControlInv
<1>8. CASE /\ rules' = Carried(q, rules) /\ nat' = CarriedNat(q, nat) /\ up' = FALSE
           /\ inbox' = <<>> /\ ended' = "crashed" /\ answer' = answer /\ faults' = faults
           /\ left' \in BOOLEAN
  <2>2. TypeOK'
    BY <1>1, <1>4, <1>6, <1>8 DEF ControlInv, TypeOK, Request
  <2>3. Client'
    BY <1>1, <1>8 DEF ControlInv, Client
  <2> QED BY <1>5, <1>8, <2>2, <2>3, EmptyQueue DEF ControlInv
<1>9. CASE /\ q.live /\ q.from # Boot /\ faults > 0 /\ faults' = faults - 1
           /\ answer' = "exception" /\ inbox' = Tail(inbox)
           /\ up' = up /\ rules' = rules /\ nat' = nat /\ ended' = ended /\ left' = left
  <2>1. inbox' = <<>> /\ lock # NoOne /\ lock # Boot
    BY <1>2, <1>9
  <2>5. faults' \in 0 .. MaxFaults
    BY <1>3, <1>9
  <2>2. TypeOK'
    BY <1>1, <1>6, <1>9, <2>1, <2>5 DEF ControlInv, TypeOK, Request
  <2>3. Client'
    BY <1>1, <1>9, <2>1 DEF ControlInv, Client
  <2>4. ended' = "no" => up'
    BY <1>9 DEF ControlInv, Requests
  <2> QED BY <1>5, <2>1, <2>2, <2>3, <2>4, EmptyQueue DEF ControlInv
<1>10. (left /\ q.command # "cleanup_rooter") \in BOOLEAN
  OBVIOUS
<1> QED BY <1>0, <1>7, <1>8, <1>9, <1>10 DEF Serve, Fault

(* What the end of the rooter leaves. *)
LEMMA Stopped ==
  ASSUME ControlInv, StopRooter
  PROVE  /\ up' = FALSE /\ inbox' = <<>> /\ faults' \in 0 .. MaxFaults
         /\ rules' \in [Machines -> [Kinds -> Nat]] /\ nat' \in Nat /\ left' \in BOOLEAN
         /\ ended' \in {"stopped", "crashed"}
         /\ \/ AllClear' /\ nat' = 0 /\ ~left'
            \/ ended' = "crashed" /\ inbox # <<>> /\ left' = left
<1>1. /\ up' = FALSE /\ inbox' = <<>> /\ faults > 0 /\ faults' = faults - 1
  BY DEF StopRooter, Fault
<1>2. rules \in [Machines -> [Kinds -> Nat]] /\ nat \in Nat /\ faults \in 0 .. MaxFaults /\ MaxFaults \in Nat
      /\ ended \in {"no", "stopped", "crashed"} /\ left \in BOOLEAN
  BY RooterAssumption DEF ControlInv, TypeOK, Request
<1>3. /\ Clean(rules) \in [Machines -> [Kinds -> Nat]]
      /\ \A m \in Machines, k \in Tagged : Clean(rules)[m][k] = 0
  BY <1>2 DEF Clean, Tagged, Kinds
<1>4. CASE /\ rules' = Clean(rules) /\ nat' = 0 /\ left' = FALSE
           /\ ended' = IF ended = "crashed" THEN ended ELSE "stopped"
  <2>1. AllClear'
    BY <1>3, <1>4 DEF AllClear
  <2>2. nat' \in Nat /\ left' \in BOOLEAN /\ ended' \in {"stopped", "crashed"}
        /\ rules' \in [Machines -> [Kinds -> Nat]]
    BY <1>2, <1>3, <1>4
  <2> QED BY <1>1, <1>2, <1>4, <2>1, <2>2
<1>5. CASE /\ inbox # <<>> /\ ended' = "crashed" /\ left' = left
           /\ rules' = Carried(Head(inbox), Clean(rules)) /\ nat' = CarriedNat(Head(inbox), 0)
  <2>1. Carried(Head(inbox), Clean(rules)) \in [Machines -> [Kinds -> Nat]] /\ CarriedNat(Head(inbox), 0) \in Nat
    BY <1>3, <1>5, FirstRequest, CarriedRules
  <2> QED BY <1>1, <1>2, <1>5, <2>1
<1> QED BY <1>4, <1>5 DEF StopRooter

(* Stop keeps ControlInv. *)
LEMMA StopControl == ASSUME ControlInv, Stop PROVE ControlInv'
<1>1. cape' = cape /\ pc' = pc /\ route' = route /\ cmds' = cmds /\ lock' = lock /\ answer' = answer
  BY DEF Stop, clientVars
<1>2. /\ up' = FALSE /\ inbox' = <<>> /\ faults' \in 0 .. MaxFaults
      /\ rules' \in [Machines -> [Kinds -> Nat]] /\ nat' \in Nat /\ left' \in BOOLEAN
      /\ ended' \in {"stopped", "crashed"}
  BY Stopped DEF Stop
<1>6. TypeOK'
  <2>1. <<>> \in Seq(Request)
    OBVIOUS
  <2> QED BY <1>1, <1>2, <2>1 DEF ControlInv, TypeOK, Request
<1>7. Phases' /\ Client'
  BY <1>1 DEF ControlInv, Phases, Phase, Client
<1> QED BY <1>2, <1>6, <1>7, EmptyQueue DEF ControlInv

(* Start keeps ControlInv. *)
LEMMA StartControl == ASSUME ControlInv, Start PROVE ControlInv'
<1>1. /\ ~up /\ up' = TRUE /\ cape' = cape /\ pc' = pc /\ route' = route /\ cmds' = cmds
      /\ lock' = lock /\ answer' = answer /\ inbox' = inbox /\ rules' = rules /\ nat' = nat
      /\ ended' = ended /\ left' = left /\ faults' = faults
  BY DEF Start, clientVars
<1>2. TypeOK'
  BY <1>1 DEF ControlInv, TypeOK, Request
<1>3. Phases' /\ Client'
  BY <1>1 DEF ControlInv, Phases, Phase, Client
<1>4. inbox' = <<>>
  BY <1>1 DEF ControlInv, Requests
<1> QED BY <1>1, <1>2, <1>3, <1>4, EmptyQueue DEF ControlInv

(* A step of one manager, that leaves the others and the start-up alone. *)
LEMMA ManagerControl ==
  ASSUME ControlInv, NEW m \in Machines, cape' = cape,
         pc' \in [Machines -> {"idle", "routing", "running", "unrouting", "stuck"}],
         route' \in [Machines -> Routes \cup {"none"}],
         cmds' \in [Callers -> Seq(Commands)],
         \A n \in Machines \ {m} : pc'[n] = pc[n] /\ route'[n] = route[n] /\ cmds'[n] = cmds[n],
         cmds'[Boot] = cmds[Boot],
         Phase(m)',
         lock' \in Callers \cup {NoOne}, answer' \in {"none", "output", "exception"},
         up' = up, inbox' = inbox, rules' = rules, nat' = nat, ended' = ended, left' = left,
         faults' \in 0 .. MaxFaults,
         \/ lock' = NoOne /\ answer' = "none" /\ inbox = <<>>
         \/ lock' = lock /\ answer' = answer /\ lock # m
  PROVE  ControlInv'
<1>1. TypeOK'
  BY DEF ControlInv, TypeOK
<1>2. Phases'
  <2>1. ASSUME NEW n \in Machines \ {m} PROVE Phase(n)'
    <3>1. Phase(n)
      BY DEF ControlInv, Phases
    <3> QED BY <3>1 DEF Phase
  <2>2. ASSUME NEW n \in Machines PROVE Phase(n)'
    BY <2>1, Zenon
  <2> QED BY <2>2 DEF ControlInv, Phases
<1>3. CASE lock' = NoOne /\ answer' = "none" /\ inbox = <<>>
  <2>1. Client'
    BY <1>3, RooterAssumption DEF Client
  <2>2. Requests'
    BY <1>3, EmptyQueue DEF ControlInv, Requests
  <2> QED BY <1>1, <1>2, <2>1, <2>2 DEF ControlInv
<1>4. CASE lock' = lock /\ answer' = answer /\ lock # m
  <2>1. lock # NoOne => cmds'[lock] = cmds[lock]
    BY <1>4 DEF ControlInv, TypeOK, Callers
  <2>2. Client'
    BY <1>4, <2>1 DEF ControlInv, Client
  <2>3. \A i \in DOMAIN inbox : inbox[i].live => lock # NoOne
    <3>1. \A i \in DOMAIN inbox : inbox[i].from \in Callers
      BY Inbox DEF ControlInv
    <3> QED BY <3>1, RooterAssumption DEF ControlInv, Requests, Callers
  <2>4. Requests'
    BY <1>4, <2>1, <2>3 DEF ControlInv, Requests, Stale
  <2> QED BY <1>1, <1>2, <2>2, <2>4 DEF ControlInv
<1> QED BY <1>3, <1>4

(* The holder of the lock has something to call. *)
LEMMA Holder ==
  ASSUME ControlInv, NEW m \in Machines, cmds[m] = <<>>
  PROVE  lock # m
BY RooterAssumption DEF ControlInv, Client, Callers

(* NoRooter keeps ControlInv. *)
LEMMA NoRooterControl == ASSUME ControlInv, NEW m \in Machines, NoRooter(m) PROVE ControlInv'
<1>f. faults \in 0 .. MaxFaults
  BY DEF ControlInv, TypeOK
<1>1. /\ lock = NoOne /\ ~up /\ cmds[m] # <<>>
      /\ cape' = cape /\ pc' = pc /\ lock' = lock /\ answer' = answer /\ up' = up /\ inbox' = inbox
      /\ rules' = rules /\ nat' = nat /\ ended' = ended /\ left' = left /\ faults' = faults
  BY DEF NoRooter, rootVars
<1>2. m \in Callers /\ m # Boot /\ Boot \in Callers
  BY RooterAssumption DEF Callers
<1>3. /\ Head(cmds[m]) \in Commands /\ Tail(cmds[m]) \in Seq(Commands) /\ cape = "ready"
      /\ \/ /\ pc[m] = "routing" /\ cmds[m] \in RouteTails(route[m])
            /\ Tail(cmds[m]) \in RouteTails(route[m])
         \/ /\ pc[m] = "unrouting" /\ cmds[m] \in UnrouteTails(route[m])
            /\ Tail(cmds[m]) \in UnrouteTails(route[m])
  BY <1>1, <1>2, Calling
<1>4. /\ pc \in [Machines -> {"idle", "routing", "running", "unrouting", "stuck"}]
      /\ route \in [Machines -> Routes \cup {"none"}] /\ cmds \in [Callers -> Seq(Commands)]
      /\ route[m] \in AllRoutes
      /\ lock \in Callers \cup {NoOne} /\ answer \in {"none", "output", "exception"}
      /\ lock # m
  BY <1>1, RouteKnown, RooterAssumption DEF ControlInv, TypeOK
<1>5. CASE /\ Head(cmds[m]) = "nic_available"
           /\ route' = [route EXCEPT ![m] = "none"]
           /\ cmds' = [cmds EXCEPT ![m] = RouteNetwork("none")]
  <2>1. pc[m] = "routing"
    BY <1>1, <1>3, <1>4, <1>5, UnrouteStep
  <2>2. RouteNetwork("none") \in RouteTails("none")
    BY WholeRoute DEF AllRoutes
  <2>3. RouteTails("none") \subseteq Seq(Commands)
    BY TailsAreCommands DEF AllRoutes
  <2>4. /\ route' \in [Machines -> Routes \cup {"none"}] /\ route'[m] = "none"
        /\ cmds'[m] = RouteNetwork("none")
        /\ \A n \in Machines \ {m} : route'[n] = route[n] /\ cmds'[n] = cmds[n]
        /\ cmds'[Boot] = cmds[Boot]
    BY <1>2, <1>4, <1>5
  <2>5. cmds' \in [Callers -> Seq(Commands)]
    BY <1>4, <1>5, <2>2, <2>3
  <2>6. Phase(m)'
    BY <1>1, <1>3, <2>1, <2>2, <2>4 DEF Phase
  <2> QED BY <1>1, <1>4, <2>4, <2>5, <2>6, <1>f, ManagerControl
<1>6. CASE cmds' = [cmds EXCEPT ![m] = Tail(cmds[m])] /\ route' = route
  <2>1. /\ cmds'[m] = Tail(cmds[m]) /\ cmds' \in [Callers -> Seq(Commands)]
        /\ \A n \in Machines \ {m} : cmds'[n] = cmds[n]
        /\ cmds'[Boot] = cmds[Boot]
    BY <1>2, <1>3, <1>4, <1>6
  <2>2. Phase(m)'
    BY <1>1, <1>3, <1>6, <2>1 DEF Phase
  <2> QED BY <1>1, <1>4, <1>6, <2>1, <2>2, <1>f, ManagerControl
<1> QED BY <1>5, <1>6 DEF NoRooter

(* A manager after an exception. *)
LEMMA RaisedControl ==
  ASSUME ControlInv, NEW m \in Machines, cmds[m] # <<>>, Raised(m), cape' = cape, route' = route
  PROVE  /\ pc' \in [Machines -> {"idle", "routing", "running", "unrouting", "stuck"}]
         /\ cmds' \in [Callers -> Seq(Commands)]
         /\ \A n \in Machines \ {m} : pc'[n] = pc[n] /\ cmds'[n] = cmds[n]
         /\ cmds'[Boot] = cmds[Boot]
         /\ \/ pc[m] = "routing" /\ pc'[m] = "unrouting" /\ cmds'[m] = UnrouteNetwork(route[m])
            \/ pc'[m] = "stuck" /\ cmds'[m] = <<>>
         /\ Phase(m)'
<1>0. m \in Callers /\ m # Boot /\ Boot \in Callers /\ Machines \subseteq Callers
  BY RooterAssumption DEF Callers
<1>1. cape = "ready"
  BY <1>0, Calling
<1>2. /\ pc \in [Machines -> {"idle", "routing", "running", "unrouting", "stuck"}]
      /\ cmds \in [Callers -> Seq(Commands)] /\ route[m] \in AllRoutes
  BY RouteKnown DEF ControlInv, TypeOK
<1>3. CASE /\ pc[m] = "routing" /\ pc' = [pc EXCEPT ![m] = "unrouting"]
           /\ cmds' = [cmds EXCEPT ![m] = UnrouteNetwork(route[m])]
  <2>1. /\ UnrouteNetwork(route[m]) \in UnrouteTails(route[m])
        /\ UnrouteTails(route[m]) \subseteq Seq(Commands)
    BY <1>2, WholeRoute, TailsAreCommands
  <2>2. /\ cmds'[m] = UnrouteNetwork(route[m]) /\ cmds' \in [Callers -> Seq(Commands)]
        /\ \A n \in Machines \ {m} : cmds'[n] = cmds[n]
        /\ cmds'[Boot] = cmds[Boot]
    BY <1>0, <1>2, <1>3, <2>1
  <2>3. /\ pc' \in [Machines -> {"idle", "routing", "running", "unrouting", "stuck"}]
        /\ pc'[m] = "unrouting" /\ \A n \in Machines \ {m} : pc'[n] = pc[n]
    BY <1>2, <1>3
  <2>4. Phase(m)'
    BY <1>1, <2>1, <2>2, <2>3 DEF Phase
  <2> QED BY <1>3, <2>2, <2>3, <2>4
<1>4. CASE pc' = [pc EXCEPT ![m] = "stuck"] /\ cmds' = [cmds EXCEPT ![m] = <<>>]
  <2>2. /\ cmds'[m] = <<>> /\ cmds' \in [Callers -> Seq(Commands)]
        /\ \A n \in Machines \ {m} : cmds'[n] = cmds[n]
        /\ cmds'[Boot] = cmds[Boot]
    BY <1>0, <1>2, <1>4
  <2>3. /\ pc' \in [Machines -> {"idle", "routing", "running", "unrouting", "stuck"}]
        /\ pc'[m] = "stuck" /\ \A n \in Machines \ {m} : pc'[n] = pc[n]
    BY <1>2, <1>4
  <2>4. Phase(m)'
    BY <1>1, <2>2, <2>3 DEF Phase
  <2> QED BY <2>2, <2>3, <2>4
<1> QED BY <1>3, <1>4 DEF Raised

(* Answered keeps ControlInv. *)
LEMMA AnsweredControl == ASSUME ControlInv, NEW m \in Machines, Answered(m) PROVE ControlInv'
<1>0. m \in Callers /\ m # Boot /\ Boot \in Callers /\ m # NoOne
  BY RooterAssumption DEF Callers
<1>f. faults \in 0 .. MaxFaults
  BY DEF ControlInv, TypeOK
<1>1. /\ lock = m /\ answer # "none" /\ lock' = NoOne /\ answer' = "none"
      /\ cape' = cape /\ route' = route /\ up' = up /\ inbox' = inbox
      /\ rules' = rules /\ nat' = nat /\ ended' = ended /\ left' = left /\ faults' = faults
  BY DEF Answered, rootVars
<1>2. inbox = <<>> /\ cmds[m] # <<>>
  BY <1>0, <1>1, NoRequest DEF ControlInv, Client
<1>3. /\ Head(cmds[m]) \in Commands /\ Tail(cmds[m]) \in Seq(Commands) /\ cape = "ready"
      /\ \/ /\ pc[m] = "routing" /\ cmds[m] \in RouteTails(route[m])
            /\ Tail(cmds[m]) \in RouteTails(route[m])
         \/ /\ pc[m] = "unrouting" /\ cmds[m] \in UnrouteTails(route[m])
            /\ Tail(cmds[m]) \in UnrouteTails(route[m])
  BY <1>0, <1>2, Calling
<1>4. /\ pc \in [Machines -> {"idle", "routing", "running", "unrouting", "stuck"}]
      /\ route \in [Machines -> Routes \cup {"none"}] /\ cmds \in [Callers -> Seq(Commands)]
      /\ route[m] \in AllRoutes
      /\ lock' \in Callers \cup {NoOne} /\ answer' \in {"none", "output", "exception"}
  BY <1>1, RouteKnown DEF ControlInv, TypeOK
<1>5. CASE cmds' = [cmds EXCEPT ![m] = Tail(cmds[m])] /\ pc' = pc
  <2>1. /\ cmds'[m] = Tail(cmds[m]) /\ cmds' \in [Callers -> Seq(Commands)]
        /\ \A n \in Machines \ {m} : cmds'[n] = cmds[n]
        /\ cmds'[Boot] = cmds[Boot]
    BY <1>0, <1>3, <1>4, <1>5
  <2>2. Phase(m)'
    BY <1>1, <1>3, <1>5, <2>1 DEF Phase
  <2> QED BY <1>1, <1>2, <1>4, <1>5, <2>1, <2>2, <1>f, ManagerControl
<1>6. CASE Raised(m)
  BY <1>1, <1>2, <1>4, <1>6, <1>f, RaisedControl, ManagerControl
<1> QED BY <1>5, <1>6 DEF Answered

(* InterfaceGone keeps ControlInv. *)
LEMMA InterfaceGoneControl == ASSUME ControlInv, NEW m \in Machines, InterfaceGone(m) PROVE ControlInv'
<1>1. /\ lock # m /\ cmds[m] # <<>> /\ Raised(m) /\ faults > 0 /\ faults' = faults - 1
      /\ cape' = cape /\ route' = route /\ lock' = lock /\ answer' = answer /\ up' = up /\ inbox' = inbox
      /\ rules' = rules /\ nat' = nat /\ ended' = ended /\ left' = left
  BY DEF InterfaceGone, Fault, rootVars
<1>2. /\ route \in [Machines -> Routes \cup {"none"}] /\ faults' \in 0 .. MaxFaults
      /\ lock \in Callers \cup {NoOne} /\ answer \in {"none", "output", "exception"}
  BY <1>1, RooterAssumption DEF ControlInv, TypeOK
<1> QED BY <1>1, <1>2, RaisedControl, ManagerControl

(* StartAnalysis keeps ControlInv. *)
LEMMA StartAnalysisControl ==
  ASSUME ControlInv, NEW m \in Machines, NEW r \in Routes, StartAnalysis(m, r)
  PROVE  ControlInv'
<1>0. m \in Callers /\ m # Boot /\ Boot \in Callers
  BY RooterAssumption DEF Callers
<1>f. faults \in 0 .. MaxFaults
  BY DEF ControlInv, TypeOK
<1>1. /\ cape = "ready" /\ pc[m] = "idle" /\ pc' = [pc EXCEPT ![m] = "routing"]
      /\ route' = [route EXCEPT ![m] = r] /\ cmds' = [cmds EXCEPT ![m] = RouteNetwork(r)]
      /\ cape' = cape /\ lock' = lock /\ answer' = answer /\ up' = up /\ inbox' = inbox
      /\ rules' = rules /\ nat' = nat /\ ended' = ended /\ left' = left /\ faults' = faults
  BY DEF StartAnalysis, rootVars
<1>2. lock # m
  BY <1>1, Holder DEF ControlInv, Phases, Phase
<1>3. r \in AllRoutes
  BY RooterAssumption DEF AllRoutes
<1>4. RouteNetwork(r) \in RouteTails(r) /\ RouteTails(r) \subseteq Seq(Commands)
  BY <1>3, WholeRoute, TailsAreCommands
<1>5. /\ pc \in [Machines -> {"idle", "routing", "running", "unrouting", "stuck"}]
      /\ route \in [Machines -> Routes \cup {"none"}] /\ cmds \in [Callers -> Seq(Commands)]
      /\ lock \in Callers \cup {NoOne} /\ answer \in {"none", "output", "exception"}
  BY DEF ControlInv, TypeOK
<1>6. /\ cmds'[m] = RouteNetwork(r) /\ cmds' \in [Callers -> Seq(Commands)]
      /\ \A n \in Machines \ {m} : cmds'[n] = cmds[n]
      /\ cmds'[Boot] = cmds[Boot]
  BY <1>0, <1>1, <1>4, <1>5
<1>7. /\ pc' \in [Machines -> {"idle", "routing", "running", "unrouting", "stuck"}]
      /\ pc'[m] = "routing" /\ \A n \in Machines \ {m} : pc'[n] = pc[n]
  BY <1>1, <1>5
<1>8. /\ route' \in [Machines -> Routes \cup {"none"}]
      /\ route'[m] = r /\ \A n \in Machines \ {m} : route'[n] = route[n]
  BY <1>1, <1>5
<1>9. Phase(m)'
  BY <1>1, <1>4, <1>6, <1>7, <1>8 DEF Phase
<1> QED BY <1>1, <1>2, <1>5, <1>6, <1>7, <1>8, <1>9, <1>f, ManagerControl

(* Routed keeps ControlInv. *)
LEMMA RoutedControl == ASSUME ControlInv, NEW m \in Machines, Routed(m) PROVE ControlInv'
<1>f. faults \in 0 .. MaxFaults
  BY DEF ControlInv, TypeOK
<1>1. /\ pc[m] = "routing" /\ cmds[m] = <<>> /\ pc' = [pc EXCEPT ![m] = "running"]
      /\ route' = route /\ cmds' = cmds
      /\ cape' = cape /\ lock' = lock /\ answer' = answer /\ up' = up /\ inbox' = inbox
      /\ rules' = rules /\ nat' = nat /\ ended' = ended /\ left' = left /\ faults' = faults
  BY DEF Routed, rootVars
<1>2. lock # m
  BY <1>1, Holder
<1>3. /\ pc \in [Machines -> {"idle", "routing", "running", "unrouting", "stuck"}]
      /\ route \in [Machines -> Routes \cup {"none"}] /\ cmds \in [Callers -> Seq(Commands)]
      /\ lock \in Callers \cup {NoOne} /\ answer \in {"none", "output", "exception"}
  BY DEF ControlInv, TypeOK
<1>4. /\ pc' \in [Machines -> {"idle", "routing", "running", "unrouting", "stuck"}]
      /\ pc'[m] = "running" /\ \A n \in Machines \ {m} : pc'[n] = pc[n]
  BY <1>1, <1>3
<1>5. Phase(m)'
  BY <1>1, <1>4 DEF ControlInv, Phases, Phase
<1> QED BY <1>1, <1>2, <1>3, <1>4, <1>5, <1>f, ManagerControl

(* EndAnalysis keeps ControlInv. *)
LEMMA EndAnalysisControl == ASSUME ControlInv, NEW m \in Machines, EndAnalysis(m) PROVE ControlInv'
<1>0. m \in Callers /\ m # Boot /\ Boot \in Callers
  BY RooterAssumption DEF Callers
<1>f. faults \in 0 .. MaxFaults
  BY DEF ControlInv, TypeOK
<1>1. /\ pc[m] = "running" /\ pc' = [pc EXCEPT ![m] = "unrouting"]
      /\ cmds' = [cmds EXCEPT ![m] = UnrouteNetwork(route[m])] /\ route' = route
      /\ cape' = cape /\ lock' = lock /\ answer' = answer /\ up' = up /\ inbox' = inbox
      /\ rules' = rules /\ nat' = nat /\ ended' = ended /\ left' = left /\ faults' = faults
  BY DEF EndAnalysis, rootVars
<1>2. lock # m /\ cape = "ready"
  BY <1>1, Holder DEF ControlInv, Phases, Phase
<1>3. /\ pc \in [Machines -> {"idle", "routing", "running", "unrouting", "stuck"}]
      /\ route \in [Machines -> Routes \cup {"none"}] /\ cmds \in [Callers -> Seq(Commands)]
      /\ lock \in Callers \cup {NoOne} /\ answer \in {"none", "output", "exception"}
  BY DEF ControlInv, TypeOK
<1>4. /\ UnrouteNetwork(route[m]) \in UnrouteTails(route[m])
      /\ UnrouteTails(route[m]) \subseteq Seq(Commands)
  BY RouteKnown, WholeRoute, TailsAreCommands DEF ControlInv
<1>6. /\ cmds'[m] = UnrouteNetwork(route[m]) /\ cmds' \in [Callers -> Seq(Commands)]
      /\ \A n \in Machines \ {m} : cmds'[n] = cmds[n]
      /\ cmds'[Boot] = cmds[Boot]
  BY <1>0, <1>1, <1>3, <1>4
<1>7. /\ pc' \in [Machines -> {"idle", "routing", "running", "unrouting", "stuck"}]
      /\ pc'[m] = "unrouting" /\ \A n \in Machines \ {m} : pc'[n] = pc[n]
  BY <1>1, <1>3
<1>8. Phase(m)'
  BY <1>1, <1>2, <1>4, <1>6, <1>7 DEF Phase
<1> QED BY <1>1, <1>2, <1>3, <1>6, <1>7, <1>8, <1>f, ManagerControl

(* Unrouted keeps ControlInv. *)
LEMMA UnroutedControl == ASSUME ControlInv, NEW m \in Machines, Unrouted(m) PROVE ControlInv'
<1>f. faults \in 0 .. MaxFaults
  BY DEF ControlInv, TypeOK
<1>1. /\ pc[m] = "unrouting" /\ cmds[m] = <<>> /\ pc' = [pc EXCEPT ![m] = "idle"]
      /\ route' = [route EXCEPT ![m] = "none"] /\ cmds' = cmds
      /\ cape' = cape /\ lock' = lock /\ answer' = answer /\ up' = up /\ inbox' = inbox
      /\ rules' = rules /\ nat' = nat /\ ended' = ended /\ left' = left /\ faults' = faults
  BY DEF Unrouted, rootVars
<1>2. lock # m
  BY <1>1, Holder
<1>3. /\ pc \in [Machines -> {"idle", "routing", "running", "unrouting", "stuck"}]
      /\ route \in [Machines -> Routes \cup {"none"}] /\ cmds \in [Callers -> Seq(Commands)]
      /\ lock \in Callers \cup {NoOne} /\ answer \in {"none", "output", "exception"}
  BY DEF ControlInv, TypeOK
<1>4. /\ pc' \in [Machines -> {"idle", "routing", "running", "unrouting", "stuck"}]
      /\ pc'[m] = "idle" /\ \A n \in Machines \ {m} : pc'[n] = pc[n]
  BY <1>1, <1>3
<1>5. /\ route' \in [Machines -> Routes \cup {"none"}]
      /\ \A n \in Machines \ {m} : route'[n] = route[n]
  BY <1>1, <1>3
<1>6. Phase(m)'
  BY <1>1, <1>4 DEF Phase
<1> QED BY <1>1, <1>2, <1>3, <1>4, <1>5, <1>6, <1>f, ManagerControl

(* A step of the start-up, or of CAPE as a whole, leaves the idle managers alone. *)
LEMMA IdleManagers ==
  ASSUME ControlInv, cape # "ready"
  PROVE  \A m \in Machines : pc[m] = "idle" /\ cmds[m] = <<>>
BY DEF ControlInv, Phases, Phase

(* BootNoRooter keeps ControlInv. *)
LEMMA BootNoRooterControl == ASSUME ControlInv, BootNoRooter PROVE ControlInv'
<1>0. Boot \in Callers /\ Boot \notin Machines /\ Machines \subseteq Callers /\ NoOne # Boot
  BY RooterAssumption DEF Callers
<1>1. /\ lock = NoOne /\ ~up /\ cmds[Boot] # <<>> /\ pc' = pc /\ route' = route
      /\ lock' = lock /\ answer' = answer /\ up' = up /\ inbox' = inbox
      /\ rules' = rules /\ nat' = nat /\ ended' = ended /\ faults' = faults /\ left' \in BOOLEAN
  BY DEF BootNoRooter, rootVars, ControlInv, TypeOK
<1>2. inbox' = <<>> /\ (ended' = "no" => up')
  BY <1>1 DEF ControlInv, Requests
<1>3. Tail(cmds[Boot]) \in Seq(Commands) /\ cape = "boot" /\ Tail(cmds[Boot]) \in BootTails
  BY <1>0, <1>1, Calling
<1>4. \A m \in Machines : pc[m] = "idle" /\ cmds[m] = <<>>
  BY <1>3, IdleManagers
<1>5. PICK s \in {<<>>, Tail(cmds[Boot])} :
        /\ cmds' = [cmds EXCEPT ![Boot] = s]
        /\ (cape' = "down" /\ s = <<>>) \/ cape' = cape
  BY DEF BootNoRooter
<1>6. cmds \in [Callers -> Seq(Commands)]
  BY DEF ControlInv, TypeOK
<1>7. s \in BootTails /\ s \in Seq(Commands)
  BY <1>3, StartUpTails
<1>8. /\ cmds' \in [Callers -> Seq(Commands)] /\ cmds'[Boot] = s
      /\ \A m \in Machines : cmds'[m] = cmds[m]
  BY <1>0, <1>5, <1>6, <1>7
<1>9. TypeOK'
  BY <1>1, <1>5, <1>8 DEF ControlInv, TypeOK
<1>10. Phases'
  <2>1. ASSUME NEW m \in Machines PROVE Phase(m)'
    BY <1>1, <1>4, <1>8 DEF Phase
  <2> QED BY <1>3, <1>5, <1>7, <1>8, <2>1 DEF Phases
<1>11. Client'
  BY <1>0, <1>1 DEF ControlInv, Client
<1> QED BY <1>2, <1>9, <1>10, <1>11, EmptyQueue DEF ControlInv

(* BootAnswered keeps ControlInv. *)
LEMMA BootAnsweredControl == ASSUME ControlInv, BootAnswered PROVE ControlInv'
<1>0. Boot \in Callers /\ Boot \notin Machines /\ Machines \subseteq Callers /\ NoOne # Boot
  BY RooterAssumption DEF Callers
<1>1. /\ lock = Boot /\ answer # "none" /\ lock' = NoOne /\ answer' = "none"
      /\ cmds' = [cmds EXCEPT ![Boot] = Tail(cmds[Boot])]
      /\ cape' = cape /\ pc' = pc /\ route' = route /\ up' = up /\ inbox' = inbox
      /\ rules' = rules /\ nat' = nat /\ ended' = ended /\ left' = left /\ faults' = faults
  BY DEF BootAnswered, rootVars
<1>2. inbox' = <<>> /\ (ended' = "no" => up') /\ cmds[Boot] # <<>>
  BY <1>0, <1>1, NoRequest DEF ControlInv, Requests, Client
<1>3. Tail(cmds[Boot]) \in Seq(Commands) /\ cape = "boot" /\ Tail(cmds[Boot]) \in BootTails
  BY <1>0, <1>2, Calling
<1>4. \A m \in Machines : pc[m] = "idle" /\ cmds[m] = <<>>
  BY <1>3, IdleManagers
<1>6. cmds \in [Callers -> Seq(Commands)]
  BY DEF ControlInv, TypeOK
<1>8. /\ cmds' \in [Callers -> Seq(Commands)] /\ cmds'[Boot] = Tail(cmds[Boot])
      /\ \A m \in Machines : cmds'[m] = cmds[m]
  BY <1>0, <1>1, <1>3, <1>6
<1>9. TypeOK'
  BY <1>1, <1>8 DEF ControlInv, TypeOK
<1>10. Phases'
  <2>1. ASSUME NEW m \in Machines PROVE Phase(m)'
    BY <1>1, <1>4, <1>8 DEF Phase
  <2> QED BY <1>1, <1>3, <1>8, <2>1 DEF Phases
<1>11. Client'
  BY <1>0, <1>1 DEF Client
<1> QED BY <1>2, <1>9, <1>10, <1>11, EmptyQueue DEF ControlInv

(* CapeEnds keeps ControlInv. *)
LEMMA CapeEndsControl == ASSUME ControlInv, CapeEnds PROVE ControlInv'
<1>0. Boot \in Callers /\ Machines \subseteq Callers /\ NoOne # Boot
  BY RooterAssumption DEF Callers
<1>1. /\ cape' = "down" /\ pc' = [m \in Machines |-> "idle"]
      /\ route' = [m \in Machines |-> "none"] /\ cmds' = [c \in Callers |-> <<>>]
      /\ lock' = NoOne /\ answer' = "none"
      /\ inbox' = [i \in DOMAIN inbox |-> [inbox[i] EXCEPT !.live = FALSE]]
      /\ up' = up /\ rules' = rules /\ nat' = nat /\ ended' = ended /\ left' = TRUE
      /\ faults' = faults \/ (faults > 0 /\ faults' = faults - 1)
  BY DEF CapeEnds, Fault
<1>2. /\ inbox \in Seq(Request) /\ Len(inbox) \in Nat /\ DOMAIN inbox = 1 .. Len(inbox)
      /\ \A i \in DOMAIN inbox : inbox[i] \in Request
  BY Inbox DEF ControlInv
<1>3. \A q \in Request : [q EXCEPT !.live = FALSE] \in Request /\ ~([q EXCEPT !.live = FALSE]).live
  BY DEF Request
<1>4. inbox' \in [1 .. Len(inbox) -> Request] /\ \A i \in DOMAIN inbox' : ~inbox'[i].live
  BY <1>1, <1>2, <1>3
<1>5. inbox' \in Seq(Request)
  BY <1>2, <1>4, SeqDef
<1>6. TypeOK'
  <2>1. faults' \in 0 .. MaxFaults
    BY <1>1, RooterAssumption DEF ControlInv, TypeOK
  <2>2. /\ pc' \in [Machines -> {"idle", "routing", "running", "unrouting", "stuck"}]
        /\ route' \in [Machines -> Routes \cup {"none"}]
        /\ cmds' \in [Callers -> Seq(Commands)]
    BY <1>1
  <2> QED BY <1>1, <1>5, <2>1, <2>2 DEF ControlInv, TypeOK, Request
<1>7. Phases'
  <2>1. cmds'[Boot] = <<>> /\ cmds'[Boot] \in BootTails
    BY <1>0, <1>1, StartUpTails
  <2>2. ASSUME NEW m \in Machines PROVE Phase(m)'
    BY <1>0, <1>1 DEF Phase
  <2> QED BY <1>1, <2>1, <2>2 DEF Phases
<1>8. Client'
  BY <1>0, <1>1 DEF Client
<1>9. Requests'
  <2>1. ~up' => inbox' = <<>>
    <3>1. ASSUME ~up' PROVE inbox' = <<>>
      <4>1. inbox = <<>>
        BY <1>1, <3>1 DEF ControlInv, Requests
      <4>2. Len(inbox') = 0
        BY <1>4, <1>5, <4>1
      <4> QED BY <1>5, <4>2, EmptySeq
    <3> QED BY <3>1
  <2>2. ended' = "no" => up'
    BY <1>1 DEF ControlInv, Requests
  <2> QED BY <1>1, <1>4, <2>1, <2>2 DEF Requests, Stale
<1> QED BY <1>6, <1>7, <1>8, <1>9 DEF ControlInv

(* Nobody holds the lock while CAPE is down, and no request is waited for. *)
LEMMA NobodyCalls ==
  ASSUME ControlInv, cape = "down" \/ (cape = "boot" /\ cmds[Boot] = <<>>)
  PROVE  /\ lock = NoOne /\ answer = "none"
         /\ \A i \in DOMAIN inbox : ~inbox[i].live
<1>1. \A c \in Callers : cmds[c] = <<>>
  BY IdleManagers DEF ControlInv, Phases, Callers
<1>2. lock = NoOne
  BY <1>1 DEF ControlInv, TypeOK, Client
<1>3. answer = "none"
  BY <1>2 DEF ControlInv, Client
<1>4. \A i \in DOMAIN inbox : inbox[i].from \in Callers
  BY Inbox DEF ControlInv
<1>5. NoOne \notin Callers
  BY RooterAssumption DEF Callers
<1> QED BY <1>2, <1>3, <1>4, <1>5 DEF ControlInv, Requests

(* CapeStarts keeps ControlInv. *)
LEMMA CapeStartsControl == ASSUME ControlInv, CapeStarts PROVE ControlInv'
<1>0. Boot \in Callers /\ Boot \notin Machines /\ Machines \subseteq Callers /\ NoOne # Boot
  BY RooterAssumption DEF Callers
<1>1. /\ cape = "down" /\ cape' = "boot" /\ cmds' = [cmds EXCEPT ![Boot] = InitCommands]
      /\ ended' = (IF up THEN "no" ELSE ended) /\ left' = left /\ pc' = pc /\ route' = route /\ lock' = lock /\ answer' = answer
      /\ up' = up /\ inbox' = inbox /\ rules' = rules /\ nat' = nat /\ faults' = faults
  BY DEF CapeStarts, rootVars
<1>2. /\ lock = NoOne /\ answer = "none" /\ \A i \in DOMAIN inbox : ~inbox[i].live
  BY <1>1, NobodyCalls
<1>3. \A m \in Machines : pc[m] = "idle" /\ cmds[m] = <<>>
  BY <1>1, IdleManagers
<1>4. InitCommands \in BootTails /\ InitCommands \in Seq(Commands)
  BY StartUpTails
<1>5. cmds \in [Callers -> Seq(Commands)]
  BY DEF ControlInv, TypeOK
<1>6. /\ cmds' \in [Callers -> Seq(Commands)] /\ cmds'[Boot] = InitCommands
      /\ \A m \in Machines : cmds'[m] = cmds[m]
  BY <1>0, <1>1, <1>4, <1>5
<1>7. TypeOK'
  BY <1>1, <1>6 DEF ControlInv, TypeOK
<1>8. Phases'
  <2>1. ASSUME NEW m \in Machines PROVE Phase(m)'
    BY <1>1, <1>3, <1>6 DEF Phase
  <2> QED BY <1>1, <1>4, <1>6, <2>1 DEF Phases
<1>9. Client'
  BY <1>0, <1>1, <1>2 DEF Client
<1>10. Requests'
  <2>1. \A i \in DOMAIN inbox : left
    BY <1>2 DEF ControlInv, Requests
  <2>2. (~up' => inbox' = <<>>) /\ (ended' = "no" => up')
    BY <1>1 DEF ControlInv, Requests
  <2> QED BY <1>1, <1>2, <1>6, <2>1, <2>2 DEF Requests, Stale
<1> QED BY <1>7, <1>8, <1>9, <1>10 DEF ControlInv

(* CapeReady keeps ControlInv. *)
LEMMA CapeReadyControl == ASSUME ControlInv, CapeReady PROVE ControlInv'
<1>1. /\ cape = "boot" /\ cmds[Boot] = <<>> /\ cape' = "ready"
      /\ ended' = ended /\ left' = left /\ pc' = pc /\ route' = route /\ cmds' = cmds /\ lock' = lock /\ answer' = answer
      /\ up' = up /\ inbox' = inbox /\ rules' = rules /\ nat' = nat /\ faults' = faults
  BY DEF CapeReady, rootVars
<1>2. \A i \in DOMAIN inbox : ~inbox[i].live
  BY <1>1, NobodyCalls
<1>3. \A i \in DOMAIN inbox : left /\ answer = "none" /\ Stale
  BY <1>2 DEF ControlInv, Requests
<1>4. \A i \in DOMAIN inbox : Stale'
  BY <1>1, <1>3 DEF Stale
<1>5. TypeOK'
  BY <1>1 DEF ControlInv, TypeOK
<1>6. Phases'
  <2>1. ASSUME NEW m \in Machines PROVE Phase(m)'
    BY <1>1, IdleManagers DEF Phase
  <2> QED BY <1>1, <2>1 DEF ControlInv, Phases
<1>7. Client'
  BY <1>1 DEF ControlInv, Client
<1>8. Requests'
  BY <1>1, <1>2, <1>3, <1>4 DEF ControlInv, Requests
<1> QED BY <1>5, <1>6, <1>7, <1>8 DEF ControlInv

(* StopBeforeSend keeps ControlInv. *)
LEMMA StopBeforeSendControl ==
  ASSUME ControlInv, NEW c \in Callers, StopBeforeSend(c)
  PROVE  ControlInv'
<1>0. Boot \in Callers /\ Boot \notin Machines /\ Machines \subseteq Callers /\ NoOne # Boot
  BY RooterAssumption DEF Callers
<1>1. /\ lock = NoOne /\ cmds[c] # <<>> /\ route' = route /\ lock' = lock /\ answer' = answer
      /\ StopRooter
  BY DEF StopBeforeSend
<1>2. /\ up' = FALSE /\ inbox' = <<>> /\ faults' \in 0 .. MaxFaults
      /\ rules' \in [Machines -> [Kinds -> Nat]] /\ nat' \in Nat /\ left' \in BOOLEAN
      /\ ended' \in {"stopped", "crashed"}
  BY <1>1, Stopped
<1>3. Client' /\ Requests'
  BY <1>0, <1>1, <1>2, EmptyQueue DEF ControlInv, Client
<1>4. /\ inbox' \in Seq([command : Commands, from : Callers, live : BOOLEAN])
      /\ route' \in [Machines -> Routes \cup {"none"}]
      /\ lock' \in Callers \cup {NoOne} /\ answer' \in {"none", "output", "exception"}
  <2>1. <<>> \in Seq([command : Commands, from : Callers, live : BOOLEAN])
    OBVIOUS
  <2> QED BY <1>1, <1>2, <2>1 DEF ControlInv, TypeOK
<1>5. CASE c = Boot
  <2>1. cape' = "down" /\ cmds' = [cmds EXCEPT ![Boot] = <<>>] /\ pc' = pc
    BY <1>5 DEF StopBeforeSend
  <2>2. cape = "boot"
    BY <1>1, <1>5, Calling
  <2>3. \A m \in Machines : pc[m] = "idle" /\ cmds[m] = <<>>
    BY <2>2, IdleManagers
  <2>4. cmds \in [Callers -> Seq(Commands)] /\ pc \in [Machines -> {"idle", "routing", "running", "unrouting", "stuck"}]
    BY DEF ControlInv, TypeOK
  <2>5. /\ cmds' \in [Callers -> Seq(Commands)] /\ cmds'[Boot] = <<>>
        /\ \A m \in Machines : cmds'[m] = cmds[m]
    BY <1>0, <2>1, <2>4
  <2>6. TypeOK'
    BY <1>2, <1>4, <2>1, <2>4, <2>5 DEF TypeOK
  <2>7. Phases'
    <3>1. ASSUME NEW m \in Machines PROVE Phase(m)'
      BY <2>1, <2>3, <2>5 DEF Phase
    <3> QED BY <2>5, <3>1, StartUpTails DEF Phases
  <2> QED BY <1>3, <2>6, <2>7 DEF ControlInv
<1>6. CASE c # Boot
  <2>1. c \in Machines
    BY <1>6 DEF Callers
  <2>2. cape' = cape /\ Raised(c)
    BY <1>6 DEF StopBeforeSend
  <2>3. /\ pc' \in [Machines -> {"idle", "routing", "running", "unrouting", "stuck"}]
        /\ cmds' \in [Callers -> Seq(Commands)]
        /\ \A n \in Machines \ {c} : pc'[n] = pc[n] /\ cmds'[n] = cmds[n]
        /\ cmds'[Boot] = cmds[Boot] /\ Phase(c)'
    BY <1>1, <2>1, <2>2, RaisedControl
  <2>4. TypeOK'
    BY <1>2, <1>4, <2>2, <2>3 DEF ControlInv, TypeOK
  <2>5. Phases'
    <3>1. ASSUME NEW n \in Machines PROVE Phase(n)'
      <4>1. CASE n # c
        <5>1. Phase(n) /\ pc'[n] = pc[n] /\ cmds'[n] = cmds[n]
          BY <2>3, <4>1 DEF ControlInv, Phases
        <5> QED BY <5>1, <1>1, <2>2 DEF Phase
      <4> QED BY <2>3, <4>1
    <3> QED BY <2>2, <2>3, <3>1 DEF ControlInv, Phases
  <2> QED BY <1>3, <2>4, <2>5 DEF ControlInv
<1> QED BY <1>5, <1>6

-----------------------------------------------------------------------------
(* The tables. *)

(* The rules of a machine are counted. *)
LEMMA RulesType == ASSUME TypeOK, NEW m \in Machines
                   PROVE  rules[m] \in [Kinds -> Nat] /\ \A k \in Tagged : k \in Kinds /\ rules[m][k] \in Nat
<1>1. rules[m] \in [Kinds -> Nat]
  BY DEF TypeOK
<1> QED BY <1>1 DEF Tagged, Kinds

(* A command of route_network, carried out. *)
LEMMA RouteRules ==
  ASSUME NEW r \in AllRoutes, NEW s \in RouteTails(r), s # <<>>, NEW R \in [Kinds -> Nat]
  PROVE  /\ Only(R, There(r, s)) => Only(RulesAfter(Head(s), R), There(r, Tail(s)))
         /\ Least(R, There(r, s)) => Least(RulesAfter(Head(s), R), There(r, Tail(s)))
<1>1. /\ Head(s) \in Commands
      /\ \A k \in Kinds : Head(s) # DisableOf(k)
      /\ \A k \in Kinds : k \in There(r, Tail(s)) <=> k \in There(r, s) \/ EnableOf(k) = Head(s)
      /\ \A k \in Kinds : EnableOf(k) = Head(s) => k \notin There(r, s)
  BY RouteStep
<1>2. Tagged \subseteq Kinds /\ There(r, s) \subseteq Kinds /\ There(r, Tail(s)) \subseteq Kinds /\ "srcroute" \notin Tagged
  BY DEF Tagged, Kinds, There, RulesOf
<1>3. PICK Q : Q = RulesAfter(Head(s), R)
  OBVIOUS
<1>4. /\ Q \in [Kinds -> Nat]
      /\ \A k \in Kinds :
           /\ EnableOf(k) = Head(s) => Q[k] = IF k = "srcroute" THEN 1 ELSE R[k] + 1
           /\ EnableOf(k) # Head(s) => Q[k] = R[k]
  BY <1>1, <1>3, RulesAfterCommand
<1>5. ASSUME Only(R, There(r, s)) PROVE Only(Q, There(r, Tail(s)))
  <2>1. ASSUME NEW k \in Tagged PROVE Q[k] <= IF k \in There(r, Tail(s)) THEN 1 ELSE 0
    <3>1. k \in Kinds /\ R[k] \in Nat /\ R[k] <= IF k \in There(r, s) THEN 1 ELSE 0
      BY <1>2, <1>5 DEF Only
    <3>2. CASE EnableOf(k) = Head(s)
      BY <1>1, <1>2, <1>4, <3>1, <3>2
    <3>3. CASE EnableOf(k) # Head(s)
      BY <1>1, <1>4, <3>1, <3>3
    <3> QED BY <3>2, <3>3
  <2> QED BY <2>1 DEF Only
<1>6. ASSUME Least(R, There(r, s)) PROVE Least(Q, There(r, Tail(s)))
  <2>2. ASSUME NEW k \in There(r, Tail(s)) PROVE Q[k] >= 1
    <3>1. k \in Kinds /\ R[k] \in Nat
      BY <1>2
    <3>2. CASE EnableOf(k) = Head(s)
      BY <1>4, <3>1, <3>2
    <3>3. CASE EnableOf(k) # Head(s)
      <4>1. R[k] >= 1
        BY <1>1, <1>6, <3>1, <3>3 DEF Least
      <4> QED BY <1>4, <3>1, <3>3, <4>1
    <3> QED BY <3>2, <3>3
  <2> QED BY <2>2 DEF Least
<1> QED BY <1>3, <1>5, <1>6

(* A command of unroute_network, carried out. *)
LEMMA UnrouteRules ==
  ASSUME NEW r \in AllRoutes, NEW s \in UnrouteTails(r), s # <<>>, NEW R \in [Kinds -> Nat],
         Only(R, Still(r, s))
  PROVE  Only(RulesAfter(Head(s), R), Still(r, Tail(s)))
<1>1. /\ Head(s) \in Commands
      /\ \A k \in Kinds : Head(s) # EnableOf(k)
      /\ \A k \in Kinds : k \in Still(r, Tail(s)) <=> k \in Still(r, s) /\ DisableOf(k) # Head(s)
  BY UnrouteStep
<1>2. Tagged \subseteq Kinds /\ "srcroute" \notin Tagged
  BY DEF Tagged, Kinds
<1>3. PICK Q : Q = RulesAfter(Head(s), R)
  OBVIOUS
<1>4. \A k \in Kinds :
           /\ DisableOf(k) = Head(s) => Q[k] = IF k = "srcroute" THEN 0 ELSE Less(R[k])
           /\ DisableOf(k) # Head(s) => Q[k] = R[k]
  BY <1>1, <1>3, RulesAfterCommand
<1>5. ASSUME NEW k \in Tagged PROVE Q[k] <= IF k \in Still(r, Tail(s)) THEN 1 ELSE 0
  <2>1. k \in Kinds /\ R[k] \in Nat /\ R[k] <= IF k \in Still(r, s) THEN 1 ELSE 0
    BY <1>2 DEF Only
  <2>2. CASE DisableOf(k) = Head(s)
    BY <1>1, <1>2, <1>4, <2>1, <2>2 DEF Less
  <2>3. CASE DisableOf(k) # Head(s)
    BY <1>1, <1>4, <2>1, <2>3
  <2> QED BY <2>2, <2>3
<1> QED BY <1>3, <1>5 DEF Only

(* More may be left than is; without any rule, every bound is kept. *)
LEMMA OnlyMore ==
  ASSUME NEW R \in [Kinds -> Nat], NEW S, NEW T, S \subseteq T, Only(R, S)
  PROVE  Only(R, T)
<1>1. ASSUME NEW k \in Tagged PROVE R[k] <= IF k \in T THEN 1 ELSE 0
  <2>1. k \in Kinds /\ R[k] <= IF k \in S THEN 1 ELSE 0
    BY DEF Only, Tagged, Kinds
  <2> QED BY <2>1
<1> QED BY <1>1 DEF Only

(* Without rules there are only rules of any set. *)
LEMMA ClearBounds ==
  ASSUME NEW R, \A k \in Tagged : R[k] = 0, NEW S
  PROVE  Only(R, S)
BY DEF Only

(* When no rule is left, none is at any machine. *)
LEMMA ClearMachines == ASSUME AllClear PROVE \A m \in Machines : MachineClear(m)
BY ClearBounds DEF AllClear, MachineClear

(* What a step leaves alone. *)
LEMMA MachineKept ==
  ASSUME NEW m \in Machines, pc'[m] = pc[m], route'[m] = route[m], rules'[m] = rules[m],
         Left(m)' = Left(m)
  PROVE  (MachineClear(m) => MachineClear(m)') /\ (MachineRouted(m) => MachineRouted(m)')
BY DEF MachineClear, MachineRouted

(* A step that changes neither the tables nor what is left of anybody's commands. *)
LEMMA TablesKept ==
  ASSUME RuleInv, cape' = cape, pc' = pc, route' = route, rules' = rules, nat' = nat,
         up' = up, ended' = ended, left' = left, \A c \in Callers : Left(c)' = Left(c)
  PROVE  RuleInv'
<1>1. Left(Boot)' = Left(Boot)
  BY DEF Callers
<1>2. ASSUME NEW m \in Machines
      PROVE  (MachineClear(m) => MachineClear(m)') /\ (MachineRouted(m) => MachineRouted(m)')
  BY MachineKept DEF Callers
<1>3. AllClear => AllClear'
  BY DEF AllClear
<1>4. NoneLeft'
  BY <1>2, <1>3 DEF RuleInv, NoneLeft
<1>5. Kept'
  BY <1>1 DEF RuleInv, Kept
<1>6. AllThere'
  BY <1>1, <1>2 DEF RuleInv, AllThere, NatIs, NatDue
<1> QED BY <1>4, <1>5, <1>6 DEF RuleInv

(* A step of one manager, that does not touch the tables. *)
LEMMA ManagerRules ==
  ASSUME RuleInv, NEW m \in Machines, cape = "ready", cape' = cape, rules' = rules, nat' = nat,
         up' = up, ended' = ended, left' = left,
         \A n \in Machines \ {m} : pc'[n] = pc[n] /\ route'[n] = route[n] /\ Left(n)' = Left(n),
         ended # "crashed" /\ ~left => MachineClear(m)',
         ended = "no" => MachineRouted(m)'
  PROVE  RuleInv'
<1>1. ASSUME NEW n \in Machines \ {m}
      PROVE  (MachineClear(n) => MachineClear(n)') /\ (MachineRouted(n) => MachineRouted(n)')
  BY MachineKept
<1>2. AllClear => AllClear'
  BY DEF AllClear
<1>3. NoneLeft'
  <2>1. ASSUME ended # "crashed", ~left PROVE \A n \in Machines : MachineClear(n)'
    <3>1. \A n \in Machines : MachineClear(n)
      BY <2>1 DEF RuleInv, NoneLeft
    <3>2. ASSUME NEW n \in Machines PROVE MachineClear(n)'
      BY <1>1, <2>1, <3>1, Zenon
    <3> QED BY <3>2
  <2> QED BY <1>2, <2>1 DEF RuleInv, NoneLeft
<1>4. AllThere'
  <2>1. ASSUME ended = "no" PROVE \A n \in Machines : MachineRouted(n)'
    <3>1. \A n \in Machines : MachineRouted(n)
      BY <2>1 DEF RuleInv, AllThere
    <3>2. ASSUME NEW n \in Machines PROVE MachineRouted(n)'
      BY <1>1, <2>1, <3>1, Zenon
    <3> QED BY <3>2
  <2> QED BY <2>1 DEF RuleInv, AllThere, NatIs
<1>5. Kept'
  BY DEF RuleInv, Kept
<1> QED BY <1>3, <1>4, <1>5 DEF RuleInv

(* What a manager may rely on. *)
LEMMA ManagerHas ==
  ASSUME RuleInv, NEW m \in Machines, cape = "ready"
  PROVE  (ended # "crashed" /\ ~left => MachineClear(m)) /\ (ended = "no" => MachineRouted(m))
BY DEF RuleInv, NoneLeft, AllThere

(* Send keeps RuleInv. *)
LEMMA SendRules == ASSUME ControlInv, RuleInv, NEW c \in Callers, Send(c) PROVE RuleInv'
<1>1. /\ lock = NoOne /\ answer' = "none" /\ answer = "none"
      /\ cape' = cape /\ pc' = pc /\ route' = route /\ cmds' = cmds /\ up' = up
      /\ rules' = rules /\ nat' = nat /\ ended' = ended /\ left' = left
  BY DEF Send, ControlInv, Client
<1>2. \A d \in Callers : Left(d)' = Left(d)
  BY <1>1 DEF Left
<1> QED BY <1>1, <1>2, TablesKept

(* The start-up adds no rule for a machine. *)
LEMMA BootAdds ==
  ASSUME NEW s \in BootTails, s # <<>>, NEW k \in Kinds
  PROVE  Head(s) # EnableOf(k)
<1>1. EnableOf(k) \in {"forward_enable", "line_enable", "srcroute_enable", "socks5_enable", "drop_enable", "inetsim_enable"}
  BY DEF EnableOf
<1>2. s \in RooterLineTails \cup LineTails \cup RooterTails
  BY DEF BootTails
<1>3. Head(s) \in {"cleanup_rooter", "forward_drop", "state_disable", "state_enable",
                   "nic_available", "rt_available", "disable_nat", "enable_nat", "line_disable"}
  <2>1. CASE s \in RooterLineTails
    BY <2>1 DEF RooterLineTails
  <2>2. CASE s \in LineTails
    BY <2>2 DEF LineTails
  <2>3. CASE s \in RooterTails
    BY <2>3 DEF RooterTails
  <2> QED BY <1>2, <2>1, <2>2, <2>3
<1> QED BY <1>1, <1>3

(* The rooter carries out a command that its caller waits for. *)
LEMMA ServedRules ==
  ASSUME ControlInv, RuleInv, NEW q \in Request, inbox # <<>>, q = Head(inbox), q.live,
         rules' = Carried(q, rules), nat' = CarriedNat(q, nat), answer' = "output", up, up' = up,
         left' = (left /\ q.command # "cleanup_rooter"),
         ended' = ended, cape' = cape, pc' = pc, route' = route, cmds' = cmds, lock' = lock
  PROVE  RuleInv'
<1>1. /\ lock = q.from /\ answer = "none" /\ q.command = Head(cmds[lock])
      /\ lock # NoOne /\ cmds[lock] # <<>> /\ lock \in Callers
  BY FirstRequest DEF Request
<1>2. /\ Left(lock) = cmds[lock] /\ Left(lock)' = Tail(cmds[lock])
      /\ \A c \in Callers \ {lock} : Left(c)' = Left(c)
  BY <1>1 DEF Left
<1>3. rules \in [Machines -> [Kinds -> Nat]] /\ nat \in Nat
  BY DEF ControlInv, TypeOK
<1>4. CASE lock = Boot
  <2>1. cape = "boot" /\ cmds[Boot] \in BootTails
    BY <1>1, <1>4, Calling DEF ControlInv, Phases
  <2>2. /\ q.command = "cleanup_rooter" <=> cmds[Boot] = InitCommands /\ Required
        /\ NatDue(Tail(cmds[Boot])) <=> NatDue(cmds[Boot]) \/ q.command = "enable_nat"
        /\ q.command \in {"enable_nat", "disable_nat", "cleanup_rooter"} => ~NatDue(cmds[Boot])
        /\ Tail(cmds[Boot]) # InitCommands
    BY <1>1, <1>4, <2>1, BootStep
  <2>3. ended # "crashed" /\ ~left' => AllClear'
    <3>1. CASE q.command = "cleanup_rooter"
      <4>1. rules' = Clean(rules)
        BY <1>3, <3>1, CarriedRules
      <4>2. \A m \in Machines, k \in Tagged : rules'[m][k] = 0
        BY <1>3, <4>1 DEF Clean, Tagged, Kinds
      <4> QED BY <4>2 DEF AllClear
    <3>2. CASE q.command # "cleanup_rooter"
      <4>1. ended # "crashed" /\ ~left => AllClear
        BY <2>1 DEF RuleInv, NoneLeft
      <4>2. \A m \in Machines : rules'[m] = RulesAfter(q.command, rules[m])
        BY <1>1, <1>3, <1>4, <3>2, CarriedRules
      <4>3. ASSUME AllClear, NEW m \in Machines, NEW k \in Tagged PROVE rules'[m][k] = 0
        <5>1. rules[m][k] = 0 /\ rules[m] \in [Kinds -> Nat] /\ k \in Kinds /\ k # "srcroute"
          BY <1>3, <4>3 DEF AllClear, Tagged, Kinds
        <5>2. q.command \in Commands /\ q.command # EnableOf(k)
          BY <1>1, <1>4, <2>1, BootAdds, <5>1 DEF Request
        <5>3. RulesAfter(q.command, rules[m])[k] = 0
          BY <5>1, <5>2, RulesAfterCommand DEF Less
        <5> QED BY <4>2, <5>3
      <4> QED BY <3>2, <4>1, <4>3 DEF AllClear
    <3> QED BY <3>1, <3>2
  <2>4. ASSUME ended = "no" PROVE NatIs(NatDue(Left(Boot)))'
    <3>0. NatDue(Left(Boot))' = NatDue(Tail(cmds[Boot])) /\ Left(Boot) = cmds[Boot]
      BY <1>2, <1>4 DEF NatDue
    <3>1. NatIs(NatDue(cmds[Boot]))
      BY <2>1, <2>4, <3>0 DEF RuleInv, AllThere
    <3>2. CASE q.command = "cleanup_rooter"
      <4>1. nat' = 0 /\ ~NatDue(Tail(cmds[Boot]))
        BY <1>3, <2>2, <3>2, CarriedRules
      <4> QED BY <3>0, <4>1 DEF NatIs
    <3>3. CASE q.command = "enable_nat"
      <4>1. nat' = nat + 1 /\ NatDue(Tail(cmds[Boot])) /\ ~NatDue(cmds[Boot]) /\ left' = left
        BY <1>3, <2>2, <3>3, CarriedRules DEF ControlInv, TypeOK
      <4>2. ~left => nat = 0
        BY <3>1, <4>1 DEF NatIs
      <4> QED BY <1>3, <3>0, <4>1, <4>2 DEF NatIs
    <3>4. CASE q.command = "disable_nat"
      <4>1. ~NatDue(Tail(cmds[Boot])) /\ ~NatDue(cmds[Boot]) /\ left' = left
        BY <2>2, <3>4 DEF ControlInv, TypeOK
      <4>2. ~left => nat = 0
        BY <3>1, <4>1 DEF NatIs
      <4>3. nat = 0 => nat' = 0
        BY <1>3, <3>4, CarriedRules
      <4> QED BY <3>0, <4>1, <4>2, <4>3 DEF NatIs
    <3>5. CASE q.command \notin {"cleanup_rooter", "enable_nat", "disable_nat"}
      <4>1. nat' = nat /\ (NatDue(Tail(cmds[Boot])) <=> NatDue(cmds[Boot])) /\ left' = left
        BY <1>3, <2>2, <3>5, CarriedRules DEF ControlInv, TypeOK
      <4> QED BY <3>0, <3>1, <4>1 DEF NatIs
    <3> QED BY <3>2, <3>3, <3>4, <3>5
  <2>5. NoneLeft'
    BY <2>1, <2>3 DEF NoneLeft
  <2>6. AllThere'
    BY <2>1, <2>4 DEF AllThere
  <2>7. Kept'
    <3>1. ASSUME Required, ended = "no", left PROVE ~left'
      <4>1. cmds[Boot] = InitCommands
        BY <1>2, <1>4, <2>1, <3>1 DEF RuleInv, Kept
      <4> QED BY <2>2, <3>1, <4>1
    <3>2. ASSUME Required, ended = "stopped" PROVE ~left'
      BY <2>1, <3>2 DEF RuleInv, Kept
    <3> QED BY <2>1, <3>1, <3>2 DEF Kept
  <2> QED BY <2>5, <2>6, <2>7 DEF RuleInv
<1>5. CASE lock # Boot
  <2>1. PICK m \in Machines : m = lock
    BY <1>1, <1>5 DEF Callers
  <2>2. PICK s : s = cmds[m]
    OBVIOUS
  <2>3. /\ cape = "ready" /\ s # <<>>
        /\ \/ pc[m] = "routing" /\ s \in RouteTails(route[m])
           \/ pc[m] = "unrouting" /\ s \in UnrouteTails(route[m])
    BY <1>1, <1>5, <2>1, <2>2, Calling
  <2>4. route[m] \in AllRoutes
    BY RouteKnown DEF ControlInv
  <2>5. q.command \notin {"cleanup_rooter", "enable_nat", "disable_nat"} /\ q.command = Head(s)
    BY <1>1, <2>1, <2>2, <2>3, <2>4, RouteStep, UnrouteStep
  <2>6. /\ nat' = nat /\ rules'[m] = RulesAfter(Head(s), rules[m]) /\ left' = left
        /\ \A n \in Machines \ {m} : rules'[n] = rules[n]
    <3>1. /\ \A n \in Machines : Carried(q, rules)[n] =
                 IF q.from \in {n, Boot} THEN RulesAfter(q.command, rules[n]) ELSE rules[n]
          /\ CarriedNat(q, nat) = nat
      BY <1>3, <2>5, CarriedRules
    <3>2. q.from = m /\ m # Boot
      BY <1>1, <2>1, RooterAssumption
    <3>3. left' = left
      BY <2>5 DEF ControlInv, TypeOK
    <3> QED BY <2>5, <3>1, <3>2, <3>3
  <2>7. rules[m] \in [Kinds -> Nat]
    BY <1>3
  <2>8. Left(m) = s /\ Left(m)' = Tail(s)
    BY <1>2, <2>1, <2>2
  <2>9. ASSUME MachineClear(m) PROVE MachineClear(m)'
    <3>1. CASE pc[m] = "routing"
      <4>1. Only(rules'[m], There(route[m], Tail(s)))
        BY <2>3, <2>4, <2>6, <2>7, <2>8, <2>9, <3>1, RouteRules DEF MachineClear
      <4> QED BY <3>1, <4>1, <2>8 DEF MachineClear
    <3>2. CASE pc[m] = "unrouting"
      <4>1. Only(rules'[m], Still(route[m], Tail(s)))
        BY <2>3, <2>4, <2>6, <2>7, <2>8, <2>9, <3>2, UnrouteRules DEF MachineClear
      <4> QED BY <3>2, <4>1, <2>8 DEF MachineClear
    <3> QED BY <2>3, <3>1, <3>2
  <2>10. ASSUME MachineRouted(m) PROVE MachineRouted(m)'
    <3>1. CASE pc[m] = "routing"
      <4>1. Least(rules'[m], There(route[m], Tail(s)))
        BY <2>3, <2>4, <2>6, <2>7, <2>8, <2>10, <3>1, RouteRules DEF MachineRouted
      <4> QED BY <3>1, <4>1, <2>8 DEF MachineRouted
    <3>2. CASE pc[m] = "unrouting"
      BY <3>2 DEF MachineRouted
    <3> QED BY <2>3, <3>1, <3>2
  <2>11. ASSUME NEW n \in Machines \ {m}
         PROVE  (MachineClear(n) => MachineClear(n)') /\ (MachineRouted(n) => MachineRouted(n)')
    <3>1. Left(n)' = Left(n)
      BY <1>2, <2>1 DEF Callers
    <3> QED BY <2>6, <3>1, MachineKept
  <2>12. ASSUME NEW n \in Machines
         PROVE  (ended # "crashed" /\ ~left => MachineClear(n)') /\ (ended = "no" => MachineRouted(n)')
    <3>1. (ended # "crashed" /\ ~left => MachineClear(n)) /\ (ended = "no" => MachineRouted(n))
      BY <2>3, ManagerHas
    <3> QED BY <2>9, <2>10, <2>11, <3>1, Zenon
  <2>13. NoneLeft'
    BY <2>3, <2>6, <2>12 DEF NoneLeft
  <2>14. AllThere'
    <3>1. ended = "no" => NatIs(Line)
      BY <2>3 DEF RuleInv, AllThere
    <3> QED BY <2>3, <2>6, <2>12, <3>1 DEF AllThere, NatIs
  <2>15. Kept'
    BY <2>3, <2>6 DEF RuleInv, Kept
  <2> QED BY <2>13, <2>14, <2>15 DEF RuleInv
<1> QED BY <1>4, <1>5

(* Serve keeps RuleInv. *)
LEMMA ServeRules == ASSUME ControlInv, RuleInv, Serve PROVE RuleInv'
<1>0. PICK q : q = Head(inbox)
  OBVIOUS
<1>1. /\ up /\ inbox # <<>>
      /\ cape' = cape /\ pc' = pc /\ route' = route /\ cmds' = cmds /\ lock' = lock
  BY DEF Serve
<1>2. q \in Request /\ (q.live => answer = "none") /\ (~q.live => left)
  BY <1>0, <1>1, FirstRequest
<1>3. CASE /\ rules' = Carried(q, rules) /\ nat' = CarriedNat(q, nat) /\ q.live
           /\ left' = (left /\ q.command # "cleanup_rooter")
           /\ answer' = "output" /\ up' = up /\ ended' = ended
  BY <1>0, <1>1, <1>2, <1>3, ServedRules
<1>4. CASE /\ rules' = Carried(q, rules) /\ nat' = CarriedNat(q, nat) /\ ~q.live
           /\ left' = (left /\ q.command # "cleanup_rooter")
           /\ ended' = "crashed"
  <2>1. rules \in [Machines -> [Kinds -> Nat]] /\ nat \in Nat
    BY DEF ControlInv, TypeOK
  <2>2. ASSUME ~left' PROVE AllClear' /\ nat' = 0
    <3>1. q.command = "cleanup_rooter"
      BY <1>2, <1>4, <2>2
    <3>2. nat' = 0 /\ rules' = Clean(rules)
      BY <1>2, <1>4, <2>1, <3>1, CarriedRules
    <3>3. \A m \in Machines, k \in Tagged : rules'[m][k] = 0
      BY <2>1, <3>2 DEF Clean, Tagged, Kinds
    <3> QED BY <3>2, <3>3 DEF AllClear
  <2> QED BY <1>4, <2>2 DEF RuleInv, NoneLeft, Kept, AllThere
<1>5. CASE /\ q.live /\ answer' = "exception" /\ up' = up /\ rules' = rules /\ nat' = nat /\ ended' = ended
           /\ left' = left
  <2>1. \A d \in Callers : Left(d)' = Left(d)
    BY <1>1, <1>2, <1>5 DEF Left
  <2> QED BY <1>1, <1>5, <2>1, TablesKept
<1> QED BY <1>0, <1>3, <1>4, <1>5 DEF Serve

(* The rooter stops, whatever it does to the managers. *)
LEMMA StoppedRules ==
  ASSUME ControlInv, StopRooter, cape' = "down" => cape = "down" \/ lock = NoOne
  PROVE  RuleInv'
<1>1. /\ ended' \in {"stopped", "crashed"}
      /\ \/ AllClear' /\ nat' = 0 /\ ~left'
         \/ ended' = "crashed" /\ inbox # <<>> /\ left' = left
  BY Stopped
<1>2. CASE AllClear' /\ nat' = 0 /\ ~left'
  <2>1. ASSUME NEW m \in Machines PROVE MachineClear(m)'
    <3>1. \A k \in Tagged : rules'[m][k] = 0
      BY <1>2 DEF AllClear
    <3> QED BY <3>1, ClearBounds DEF MachineClear
  <2> QED BY <1>1, <1>2, <2>1 DEF RuleInv, NoneLeft, Kept, AllThere
<1>3. CASE ended' = "crashed" /\ inbox # <<>> /\ left' = left
  <2>1. cape' = "down" => left
    <3>1. ASSUME cape' = "down" PROVE ~Head(inbox).live
      <4>1. lock = NoOne
        BY <3>1, NobodyCalls
      <4> QED BY <1>3, <4>1, FirstRequest
    <3> QED BY <1>3, <3>1, FirstRequest
  <2> QED BY <1>3, <2>1 DEF RuleInv, NoneLeft, Kept, AllThere
<1> QED BY <1>1, <1>2, <1>3

(* Stop and StopBeforeSend keep RuleInv. *)
LEMMA StopRules ==
  ASSUME ControlInv, Stop \/ \E c \in Callers : StopBeforeSend(c)
  PROVE  RuleInv'
<1>1. CASE Stop
  BY <1>1, StoppedRules DEF Stop, clientVars
<1>2. ASSUME NEW c \in Callers, StopBeforeSend(c) PROVE RuleInv'
  BY <1>2, StoppedRules DEF StopBeforeSend
<1> QED BY <1>1, <1>2

(* Start keeps RuleInv. *)
LEMMA StartRules == ASSUME ControlInv, RuleInv, Start PROVE RuleInv'
<1>1. /\ ~up /\ up' = TRUE /\ cape' = cape /\ pc' = pc /\ route' = route /\ cmds' = cmds
      /\ lock' = lock /\ answer' = answer /\ rules' = rules /\ nat' = nat /\ ended' = ended /\ left' = left
  BY DEF Start, clientVars
<1>2. ended' # "no"
  BY <1>1 DEF ControlInv, Requests
<1>3. AllClear => AllClear'
  BY <1>1 DEF AllClear
<1>4. ASSUME NEW m \in Machines PROVE MachineClear(m) => MachineClear(m)'
  BY <1>1 DEF MachineClear, Left
<1>5. Left(Boot)' = Left(Boot)
  BY <1>1 DEF Left
<1> QED BY <1>1, <1>2, <1>3, <1>4, <1>5 DEF RuleInv, NoneLeft, Kept, AllThere

(* Without a rooter there is no rule to speak of. *)
LEMMA DownRules ==
  ASSUME ControlInv, RuleInv, ~up, up' = up, rules' = rules, nat' = nat, ended' = ended,
         (cape' = cape /\ left' = left) \/ (cape' = "down" /\ left')
  PROVE  RuleInv'
<1>1. ended' # "no"
  BY DEF ControlInv, Requests
<1>2. ASSUME ended # "crashed" PROVE \A m \in Machines, k \in Tagged : rules'[m][k] = 0
  BY <1>2 DEF RuleInv, NoneLeft, AllClear
<1>3. ended # "crashed" => AllClear' /\ \A m \in Machines : MachineClear(m)'
  <2>1. ASSUME ended # "crashed", NEW m \in Machines PROVE MachineClear(m)'
    BY <1>2, <2>1, ClearBounds DEF MachineClear
  <2> QED BY <1>2, <2>1 DEF AllClear
<1>4. cape' = "down" /\ ~left' => AllClear' /\ nat' = 0
  BY DEF RuleInv, NoneLeft, AllClear
<1> QED BY <1>1, <1>3, <1>4 DEF RuleInv, NoneLeft, Kept, AllThere

(* A manager after an exception keeps RuleInv. *)
LEMMA RaisedRules ==
  ASSUME ControlInv, RuleInv, NEW m \in Machines, cmds[m] # <<>>, Raised(m),
         cape' = cape, route' = route, rules' = rules, nat' = nat, up' = up, ended' = ended, left' = left,
         \/ lock' = NoOne /\ lock = m
         \/ lock' = lock /\ answer' = answer /\ lock # m
  PROVE  RuleInv'
<1>0. m \in Callers /\ NoOne \notin Callers /\ Machines \subseteq Callers
  BY RooterAssumption DEF Callers
<1>1. /\ \A n \in Machines \ {m} : pc'[n] = pc[n] /\ cmds'[n] = cmds[n]
      /\ \/ pc[m] = "routing" /\ pc'[m] = "unrouting" /\ cmds'[m] = UnrouteNetwork(route[m])
         \/ pc'[m] = "stuck" /\ cmds'[m] = <<>>
  BY RaisedControl
<1>2. cape = "ready"
  BY <1>0, Calling, RooterAssumption
<1>3. \A n \in Machines \ {m} : Left(n)' = Left(n)
  BY <1>0, <1>1 DEF Left
<1>4. CASE pc[m] = "routing" /\ pc'[m] = "unrouting" /\ cmds'[m] = UnrouteNetwork(route[m])
  <2>1. Left(m)' = UnrouteNetwork(route[m])
    BY <1>0, <1>4 DEF Left
  <2>2. route[m] \in AllRoutes /\ rules[m] \in [Kinds -> Nat]
    BY RouteKnown, RulesType DEF ControlInv
  <2>3. Still(route[m], UnrouteNetwork(route[m])) = RulesOf(route[m])
    BY <2>2, WholeRoute
  <2>4. There(route[m], Left(m)) \subseteq RulesOf(route[m])
    BY DEF There
  <2>5. ended # "crashed" /\ ~left => MachineClear(m)'
    <3>1. ended # "crashed" /\ ~left => Only(rules[m], RulesOf(route[m]))
      BY <1>2, <1>4, <2>2, <2>4, OnlyMore, ManagerHas DEF MachineClear
    <3> QED BY <1>4, <2>1, <2>3, <3>1 DEF MachineClear
  <2>6. MachineRouted(m)'
    BY <1>4 DEF MachineRouted
  <2> QED BY <1>1, <1>2, <1>3, <2>5, <2>6, ManagerRules
<1>5. CASE pc'[m] = "stuck"
  <2>1. MachineClear(m)' /\ MachineRouted(m)'
    BY <1>5 DEF MachineClear, MachineRouted
  <2> QED BY <1>1, <1>2, <1>3, <2>1, ManagerRules
<1> QED BY <1>1, <1>4, <1>5

(* Answered keeps RuleInv. *)
LEMMA AnsweredRules == ASSUME ControlInv, RuleInv, NEW m \in Machines, Answered(m) PROVE RuleInv'
<1>0. m \in Callers /\ m # Boot /\ Boot \in Callers /\ m # NoOne /\ NoOne \notin Machines
  BY RooterAssumption DEF Callers
<1>1. /\ lock = m /\ answer # "none" /\ lock' = NoOne /\ answer' = "none"
      /\ cape' = cape /\ route' = route /\ up' = up
      /\ rules' = rules /\ nat' = nat /\ ended' = ended /\ left' = left
  BY DEF Answered, rootVars
<1>2. cmds[m] # <<>>
  BY <1>0, <1>1 DEF ControlInv, Client
<1>3. /\ cape = "ready"
      /\ \/ pc[m] = "routing" /\ cmds[m] \in RouteTails(route[m])
         \/ pc[m] = "unrouting" /\ cmds[m] \in UnrouteTails(route[m])
  BY <1>0, <1>2, Calling
<1>4. /\ pc \in [Machines -> {"idle", "routing", "running", "unrouting", "stuck"}]
      /\ cmds \in [Callers -> Seq(Commands)] /\ route[m] \in AllRoutes
      /\ rules[m] \in [Kinds -> Nat]
  BY RouteKnown DEF ControlInv, TypeOK
<1>5. (ended # "crashed" /\ ~left => MachineClear(m)) /\ (ended = "no" => MachineRouted(m))
  BY <1>3, ManagerHas
<1>6. CASE /\ answer = "output" \/ Head(cmds[m]) = "nic_available"
           /\ cmds' = [cmds EXCEPT ![m] = Tail(cmds[m])] /\ pc' = pc
  <2>1. /\ cmds'[m] = Tail(cmds[m]) /\ \A n \in Machines \ {m} : cmds'[n] = cmds[n]
    BY <1>0, <1>4, <1>6
  <2>2. \A n \in Machines \ {m} : Left(n)' = Left(n)
    BY <1>0, <1>1, <2>1 DEF Left
  <2>3. Left(m)' = Tail(cmds[m])
    BY <1>0, <1>1, <2>1 DEF Left
  <2>4. CASE answer = "output"
    <3>1. Left(m)' = Left(m)
      BY <1>1, <2>3, <2>4 DEF Left
    <3>2. (MachineClear(m) => MachineClear(m)') /\ (MachineRouted(m) => MachineRouted(m)')
      BY <1>1, <1>6, <3>1, MachineKept
    <3> QED BY <1>1, <1>3, <1>5, <1>6, <2>2, <3>2, ManagerRules
  <2>5. CASE answer # "output"
    <3>1. pc[m] = "routing" /\ Left(m) = cmds[m]
      BY <1>2, <1>3, <1>4, <1>6, <2>5, UnrouteStep DEF Left
    <3>2. There(route[m], Tail(cmds[m])) = There(route[m], cmds[m])
      <4>1. \A k \in Kinds : k \in There(route[m], Tail(cmds[m])) <=> k \in There(route[m], cmds[m])
        <5>1. \A k \in Kinds : EnableOf(k) # "nic_available"
          BY DEF EnableOf
        <5> QED BY <1>2, <1>3, <1>4, <1>6, <2>5, <3>1, <5>1, RouteStep
      <4> QED BY <4>1 DEF There, RulesOf
    <3>3. (MachineClear(m) => MachineClear(m)') /\ (MachineRouted(m) => MachineRouted(m)')
      BY <1>1, <1>6, <2>3, <3>1, <3>2 DEF MachineClear, MachineRouted
    <3> QED BY <1>1, <1>3, <1>5, <1>6, <2>2, <3>3, ManagerRules
  <2> QED BY <2>4, <2>5
<1>7. CASE Raised(m)
  BY <1>1, <1>2, <1>7, RaisedRules
<1> QED BY <1>6, <1>7 DEF Answered

(* InterfaceGone keeps RuleInv. *)
LEMMA InterfaceGoneRules ==
  ASSUME ControlInv, RuleInv, NEW m \in Machines, InterfaceGone(m)
  PROVE  RuleInv'
<1>1. /\ lock # m /\ cmds[m] # <<>> /\ Raised(m)
      /\ cape' = cape /\ route' = route /\ lock' = lock /\ answer' = answer /\ up' = up
      /\ rules' = rules /\ nat' = nat /\ ended' = ended /\ left' = left
  BY DEF InterfaceGone, rootVars
<1> QED BY <1>1, RaisedRules

(* BootAnswered keeps RuleInv. *)
LEMMA BootAnsweredRules == ASSUME ControlInv, RuleInv, BootAnswered PROVE RuleInv'
<1>0. Boot \in Callers /\ Boot \notin Machines /\ Machines \subseteq Callers /\ NoOne # Boot /\ NoOne \notin Machines
  BY RooterAssumption DEF Callers
<1>1. /\ lock = Boot /\ answer # "none" /\ lock' = NoOne /\ answer' = "none"
      /\ cmds' = [cmds EXCEPT ![Boot] = Tail(cmds[Boot])]
      /\ cape' = cape /\ pc' = pc /\ route' = route /\ up' = up
      /\ rules' = rules /\ nat' = nat /\ ended' = ended /\ left' = left
  BY DEF BootAnswered, rootVars
<1>2. answer = "output"
  BY <1>1 DEF ControlInv, TypeOK, Client
<1>3. cmds \in [Callers -> Seq(Commands)]
  BY DEF ControlInv, TypeOK
<1>4. cmds'[Boot] = Tail(cmds[Boot]) /\ \A m \in Machines : cmds'[m] = cmds[m]
  BY <1>0, <1>1, <1>3
<1>5. \A c \in Callers : Left(c)' = Left(c)
  BY <1>0, <1>1, <1>2, <1>4 DEF Left, Callers
<1> QED BY <1>1, <1>5, TablesKept

(* StartAnalysis keeps RuleInv. *)
LEMMA StartAnalysisRules ==
  ASSUME ControlInv, RuleInv, NEW m \in Machines, NEW r \in Routes, StartAnalysis(m, r)
  PROVE  RuleInv'
<1>0. m \in Callers /\ m # Boot
  BY RooterAssumption DEF Callers
<1>1. /\ cape = "ready" /\ pc[m] = "idle" /\ pc' = [pc EXCEPT ![m] = "routing"]
      /\ route' = [route EXCEPT ![m] = r] /\ cmds' = [cmds EXCEPT ![m] = RouteNetwork(r)]
      /\ cape' = cape /\ lock' = lock /\ answer' = answer /\ up' = up
      /\ rules' = rules /\ nat' = nat /\ ended' = ended /\ left' = left
  BY DEF StartAnalysis, rootVars
<1>2. lock # m
  BY <1>1, Holder DEF ControlInv, Phases, Phase
<1>3. /\ pc \in [Machines -> {"idle", "routing", "running", "unrouting", "stuck"}]
      /\ route \in [Machines -> Routes \cup {"none"}] /\ cmds \in [Callers -> Seq(Commands)]
  BY DEF ControlInv, TypeOK
<1>4. /\ cmds'[m] = RouteNetwork(r) /\ pc'[m] = "routing" /\ route'[m] = r
      /\ \A n \in Machines \ {m} : cmds'[n] = cmds[n] /\ pc'[n] = pc[n] /\ route'[n] = route[n]
  BY <1>0, <1>1, <1>3
<1>5. /\ Left(m)' = RouteNetwork(r) /\ \A n \in Machines \ {m} : Left(n)' = Left(n)
  BY <1>1, <1>2, <1>4 DEF Left
<1>6. There(r, RouteNetwork(r)) = {}
  BY RooterAssumption, WholeRoute DEF AllRoutes
<1>7. ended # "crashed" /\ ~left => Only(rules[m], {})
  BY <1>1, ManagerHas DEF MachineClear
<1>8. Least(rules[m], {})
  BY DEF Least
<1>9. (ended # "crashed" /\ ~left => MachineClear(m)') /\ (ended = "no" => MachineRouted(m)')
  BY <1>1, <1>4, <1>5, <1>6, <1>7, <1>8 DEF MachineClear, MachineRouted
<1> QED BY <1>1, <1>4, <1>5, <1>9, ManagerRules

(* Routed keeps RuleInv. *)
LEMMA RoutedRules == ASSUME ControlInv, RuleInv, NEW m \in Machines, Routed(m) PROVE RuleInv'
<1>1. /\ pc[m] = "routing" /\ cmds[m] = <<>> /\ pc' = [pc EXCEPT ![m] = "running"]
      /\ route' = route /\ cmds' = cmds
      /\ cape' = cape /\ lock' = lock /\ answer' = answer /\ up' = up
      /\ rules' = rules /\ nat' = nat /\ ended' = ended /\ left' = left
  BY DEF Routed, rootVars
<1>2. lock # m /\ cape = "ready"
  BY <1>1, Holder DEF ControlInv, Phases, Phase
<1>3. pc \in [Machines -> {"idle", "routing", "running", "unrouting", "stuck"}]
  BY DEF ControlInv, TypeOK
<1>4. pc'[m] = "running" /\ \A n \in Machines \ {m} : pc'[n] = pc[n]
  BY <1>1, <1>3
<1>5. Left(m) = <<>> /\ \A n \in Machines : Left(n)' = Left(n)
  BY <1>1, <1>2 DEF Left
<1>6. There(route[m], <<>>) = RulesOf(route[m])
  BY RouteKnown, RouteEnds DEF ControlInv
<1>7. (ended # "crashed" /\ ~left => MachineClear(m)) /\ (ended = "no" => MachineRouted(m))
  BY <1>2, ManagerHas
<1>8. (ended # "crashed" /\ ~left => MachineClear(m)') /\ (ended = "no" => MachineRouted(m)')
  BY <1>1, <1>4, <1>5, <1>6, <1>7 DEF MachineClear, MachineRouted
<1> QED BY <1>1, <1>2, <1>4, <1>5, <1>8, ManagerRules

(* EndAnalysis keeps RuleInv. *)
LEMMA EndAnalysisRules == ASSUME ControlInv, RuleInv, NEW m \in Machines, EndAnalysis(m) PROVE RuleInv'
<1>0. m \in Callers /\ m # Boot
  BY RooterAssumption DEF Callers
<1>1. /\ pc[m] = "running" /\ pc' = [pc EXCEPT ![m] = "unrouting"]
      /\ cmds' = [cmds EXCEPT ![m] = UnrouteNetwork(route[m])] /\ route' = route
      /\ cape' = cape /\ lock' = lock /\ answer' = answer /\ up' = up
      /\ rules' = rules /\ nat' = nat /\ ended' = ended /\ left' = left
  BY DEF EndAnalysis, rootVars
<1>2. lock # m /\ cape = "ready"
  BY <1>1, Holder DEF ControlInv, Phases, Phase
<1>3. /\ pc \in [Machines -> {"idle", "routing", "running", "unrouting", "stuck"}]
      /\ cmds \in [Callers -> Seq(Commands)]
  BY DEF ControlInv, TypeOK
<1>4. /\ cmds'[m] = UnrouteNetwork(route[m]) /\ pc'[m] = "unrouting"
      /\ \A n \in Machines \ {m} : cmds'[n] = cmds[n] /\ pc'[n] = pc[n]
  BY <1>0, <1>1, <1>3
<1>5. /\ Left(m)' = UnrouteNetwork(route[m]) /\ \A n \in Machines \ {m} : Left(n)' = Left(n)
  BY <1>1, <1>2, <1>4 DEF Left
<1>6. Still(route[m], UnrouteNetwork(route[m])) = RulesOf(route[m])
  BY RouteKnown, WholeRoute DEF ControlInv
<1>7. ended # "crashed" /\ ~left => MachineClear(m)
  BY <1>2, ManagerHas
<1>8. (ended # "crashed" /\ ~left => MachineClear(m)') /\ MachineRouted(m)'
  BY <1>1, <1>4, <1>5, <1>6, <1>7 DEF MachineClear, MachineRouted
<1> QED BY <1>1, <1>2, <1>4, <1>5, <1>8, ManagerRules

(* Unrouted keeps RuleInv. *)
LEMMA UnroutedRules == ASSUME ControlInv, RuleInv, NEW m \in Machines, Unrouted(m) PROVE RuleInv'
<1>1. /\ pc[m] = "unrouting" /\ cmds[m] = <<>> /\ pc' = [pc EXCEPT ![m] = "idle"]
      /\ route' = [route EXCEPT ![m] = "none"] /\ cmds' = cmds
      /\ cape' = cape /\ lock' = lock /\ answer' = answer /\ up' = up
      /\ rules' = rules /\ nat' = nat /\ ended' = ended /\ left' = left
  BY DEF Unrouted, rootVars
<1>2. lock # m /\ cape = "ready"
  BY <1>1, Holder DEF ControlInv, Phases, Phase
<1>3. /\ pc \in [Machines -> {"idle", "routing", "running", "unrouting", "stuck"}]
      /\ route \in [Machines -> Routes \cup {"none"}]
  BY DEF ControlInv, TypeOK
<1>4. pc'[m] = "idle" /\ \A n \in Machines \ {m} : pc'[n] = pc[n] /\ route'[n] = route[n]
  BY <1>1, <1>3
<1>5. Left(m) = <<>> /\ \A n \in Machines : Left(n)' = Left(n)
  BY <1>1, <1>2 DEF Left
<1>6. Still(route[m], <<>>) = {}
  BY RouteKnown, RouteEnds DEF ControlInv
<1>7. ended # "crashed" /\ ~left => MachineClear(m)
  BY <1>2, ManagerHas
<1>8. (ended # "crashed" /\ ~left => MachineClear(m)') /\ MachineRouted(m)'
  BY <1>1, <1>4, <1>5, <1>6, <1>7 DEF MachineClear, MachineRouted
<1> QED BY <1>1, <1>2, <1>4, <1>5, <1>8, ManagerRules

(* The end of CAPE and its start keep RuleInv. *)
LEMMA CapeRules ==
  ASSUME ControlInv, RuleInv, CapeEnds \/ CapeStarts \/ CapeReady
  PROVE  RuleInv'
<1>0. AllClear /\ rules' = rules => AllClear'
  BY DEF AllClear
<1>1. CASE CapeEnds
  <2>1. cape' = "down" /\ up' = up /\ rules' = rules /\ ended' = ended /\ left' = TRUE
    BY <1>1 DEF CapeEnds
  <2> QED BY <2>1, <1>0 DEF RuleInv, NoneLeft, Kept, AllThere
<1>2. CASE CapeStarts
  <2>1. /\ cape = "down" /\ cape' = "boot" /\ lock' = lock /\ answer' = answer /\ up' = up
        /\ rules' = rules /\ nat' = nat /\ left' = left /\ (up \/ ~Required)
        /\ ended' = IF up THEN "no" ELSE ended
        /\ cmds' = [cmds EXCEPT ![Boot] = InitCommands]
    BY <1>2 DEF CapeStarts, rootVars
  <2>2. lock = NoOne /\ NoOne # Boot
    BY <2>1, NobodyCalls, RooterAssumption
  <2>3. cmds'[Boot] = InitCommands
    BY <2>1 DEF ControlInv, TypeOK, Callers
  <2>4. Left(Boot)' = InitCommands
    BY <2>1, <2>2, <2>3 DEF Left
  <2>5. ~left => AllClear' /\ nat' = 0
    BY <1>0, <2>1 DEF RuleInv, NoneLeft
  <2>6. NoneLeft'
    BY <1>0, <2>1, <2>5 DEF RuleInv, NoneLeft
  <2>7. Kept'
    BY <2>1, <2>4 DEF Kept
  <2>8. AllThere'
    <3>1. ~NatDue(Left(Boot))'
      BY <2>4, StartUpTails DEF NatDue
    <3> QED BY <2>1, <2>5, <3>1 DEF AllThere, NatIs
  <2> QED BY <2>6, <2>7, <2>8 DEF RuleInv
<1>3. CASE CapeReady
  <2>1. /\ cape = "boot" /\ cmds[Boot] = <<>> /\ cape' = "ready" /\ pc' = pc
        /\ up' = up /\ rules' = rules /\ nat' = nat /\ ended' = ended /\ left' = left
    BY <1>3 DEF CapeReady, rootVars
  <2>2. Left(Boot) = <<>>
    BY <2>1, NobodyCalls DEF Left
  <2>3. ended # "crashed" /\ ~left => \A m \in Machines, k \in Tagged : rules'[m][k] = 0
    BY <2>1 DEF RuleInv, NoneLeft, AllClear
  <2>4. \A m \in Machines : pc'[m] = "idle"
    BY <2>1, IdleManagers
  <2>5. ASSUME NEW m \in Machines
        PROVE  (ended # "crashed" /\ ~left => MachineClear(m)') /\ MachineRouted(m)'
    BY <2>3, <2>4, ClearBounds DEF MachineClear, MachineRouted
  <2>6. NoneLeft'
    BY <1>0, <2>1, <2>5 DEF RuleInv, NoneLeft
  <2>7. Kept'
    BY <2>1, <2>2, StartUpTails DEF RuleInv, Kept
  <2>8. AllThere'
    <3>1. ended = "no" => NatIs(Line)
      BY <2>1, <2>2, StartUpTails DEF RuleInv, AllThere, NatIs
    <3> QED BY <2>1, <2>5, <3>1 DEF AllThere, NatIs
  <2> QED BY <2>6, <2>7, <2>8 DEF RuleInv
<1> QED BY <1>1, <1>2, <1>3

-----------------------------------------------------------------------------
(* The theorems. *)

(* Both invariants hold at the start. *)
LEMMA InitHolds == Init => ControlInv /\ RuleInv
<1> SUFFICES ASSUME Init PROVE ControlInv /\ RuleInv
  OBVIOUS
<1>0. NoOne # Boot /\ Boot \in Callers /\ Machines \subseteq Callers /\ MaxFaults \in Nat
  BY RooterAssumption DEF Callers
<1>1. TypeOK
  <2>1. /\ pc \in [Machines -> {"idle", "routing", "running", "unrouting", "stuck"}]
        /\ route \in [Machines -> Routes \cup {"none"}]
        /\ cmds \in [Callers -> Seq(Commands)]
        /\ rules \in [Machines -> [Kinds -> Nat]]
        /\ inbox \in Seq(Request)
    BY DEF Init, NoRules
  <2>2. nat \in Nat /\ faults \in 0 .. MaxFaults
    BY <1>0 DEF Init
  <2> QED BY <2>1, <2>2 DEF Init, TypeOK, Request
<1>2. Phases
  BY <1>0, StartUpTails DEF Init, Phases, Phase
<1>3. Client /\ Requests
  BY <1>0 DEF Init, Client, Requests
<1>4. RuleInv
  <2>1. AllClear
    BY DEF Init, AllClear, NoRules, Tagged, Kinds
  <2> QED BY <2>1 DEF Init, RuleInv, NoneLeft, Kept, AllThere
<1> QED BY <1>1, <1>2, <1>3, <1>4 DEF ControlInv

(* Every step keeps both. *)
LEMMA StepHolds == ControlInv /\ RuleInv /\ [Next]_vars => ControlInv' /\ RuleInv'
<1> SUFFICES ASSUME ControlInv, RuleInv, [Next]_vars PROVE ControlInv' /\ RuleInv'
  OBVIOUS
<1>1. ASSUME NEW m \in Machines, Manager(m) PROVE ControlInv' /\ RuleInv'
  <2>1. CASE \E r \in Routes : StartAnalysis(m, r)
    BY <2>1, StartAnalysisControl, StartAnalysisRules
  <2>2. CASE Routed(m)
    BY <2>2, RoutedControl, RoutedRules
  <2>3. CASE EndAnalysis(m)
    BY <2>3, EndAnalysisControl, EndAnalysisRules
  <2>4. CASE Unrouted(m)
    BY <2>4, UnroutedControl, UnroutedRules
  <2>5. CASE NoRooter(m)
    <3>1. /\ ~up /\ up' = up /\ rules' = rules /\ nat' = nat /\ ended' = ended
          /\ cape' = cape /\ left' = left
      BY <2>5 DEF NoRooter, rootVars
    <3> QED BY <2>5, <3>1, NoRooterControl, DownRules
  <2>6. CASE Answered(m)
    BY <2>6, AnsweredControl, AnsweredRules
  <2>7. CASE InterfaceGone(m)
    BY <2>7, InterfaceGoneControl, InterfaceGoneRules
  <2> QED BY <1>1, <2>1, <2>2, <2>3, <2>4, <2>5, <2>6, <2>7 DEF Manager
<1>2. ASSUME NEW c \in Callers, Send(c) PROVE ControlInv' /\ RuleInv'
  BY <1>2, SendControl, SendRules
<1>3. CASE BootNoRooter
  <2>1. /\ ~up /\ up' = up /\ rules' = rules /\ nat' = nat /\ ended' = ended
        /\ (cape' = cape /\ left' = left) \/ (cape' = "down" /\ left')
    BY <1>3 DEF BootNoRooter, rootVars
  <2> QED BY <1>3, <2>1, BootNoRooterControl, DownRules
<1>4. CASE BootAnswered
  BY <1>4, BootAnsweredControl, BootAnsweredRules
<1>5. CASE CapeEnds
  BY <1>5, CapeEndsControl, CapeRules
<1>6. CASE CapeStarts
  BY <1>6, CapeStartsControl, CapeRules
<1>7. CASE CapeReady
  BY <1>7, CapeReadyControl, CapeRules
<1>8. CASE Serve
  BY <1>8, ServeControl, ServeRules
<1>9. CASE Stop
  BY <1>9, StopControl, StopRules
<1>12. ASSUME NEW c \in Callers, StopBeforeSend(c) PROVE ControlInv' /\ RuleInv'
  BY <1>12, StopBeforeSendControl, StopRules
<1>10. CASE Start
  BY <1>10, StartControl, StartRules
<1>11. CASE UNCHANGED vars
  <2>1. /\ cape' = cape /\ pc' = pc /\ route' = route /\ cmds' = cmds /\ lock' = lock /\ answer' = answer
        /\ up' = up /\ inbox' = inbox /\ rules' = rules /\ nat' = nat /\ ended' = ended /\ left' = left /\ faults' = faults
    BY <1>11 DEF vars, clientVars, rootVars
  <2>2. TypeOK'
    BY <2>1 DEF ControlInv, TypeOK
  <2>3. Phases' /\ Client' /\ Requests'
    BY <2>1 DEF ControlInv, Phases, Phase, Client, Requests, Stale
  <2>4. \A c \in Callers : Left(c)' = Left(c)
    BY <2>1 DEF Left
  <2>5. RuleInv'
    BY <2>1, <2>4, TablesKept
  <2> QED BY <2>2, <2>3, <2>5 DEF ControlInv
<1> QED BY <1>1, <1>2, <1>3, <1>4, <1>5, <1>6, <1>7, <1>8, <1>9, <1>10, <1>11, <1>12 DEF Next

(* Both hold in every reachable state. *)
LEMMA AlwaysHolds == Spec => [](ControlInv /\ RuleInv)
BY InitHolds, StepHolds, PTL DEF Spec

(* Every variable keeps its type: the queue of the socket holds commands of the   *)
(* callers, and no rule is deleted more often than it is there.                   *)
THEOREM RooterTypeCorrect == Spec => []TypeOK
<1>1. ControlInv /\ RuleInv => TypeOK
  BY DEF ControlInv
<1> QED BY <1>1, AlwaysHolds, PTL

(* While an analysis runs and the rooter has run since CAPE was started, the      *)
(* tables have the rules that route_network asked for; and where start-up sends    *)
(* cleanup_rooter, or CAPE has not ended since, each once and no other with the    *)
(* comment: for any number of machines and analyses, in any order of their calls,   *)
(* with any failures.                                                            *)
THEOREM AnalysesAreRoutedAsAsked == Spec => []RoutedAsAsked
<1>1. ControlInv /\ RuleInv => RoutedAsAsked
  <2> SUFFICES ASSUME ControlInv, RuleInv, NEW m \in Machines, pc[m] = "running", ended = "no"
               PROVE  /\ \A k \in RulesOf(route[m]) : rules[m][k] >= 1
                      /\ Line => nat >= 1
                      /\ Known => /\ \A k \in Tagged :
                                        rules[m][k] = IF k \in RulesOf(route[m]) THEN 1 ELSE 0
                                  /\ nat = IF Line THEN 1 ELSE 0
    BY DEF RoutedAsAsked
  <2>1. cape = "ready"
    BY DEF ControlInv, Phases, Phase
  <2>2. NatIs(Line) /\ MachineRouted(m)
    BY <2>1 DEF RuleInv, AllThere
  <2>3. Least(rules[m], RulesOf(route[m]))
    BY <2>2 DEF MachineRouted
  <2>4. ASSUME Known
        PROVE  /\ \A k \in Tagged : rules[m][k] = IF k \in RulesOf(route[m]) THEN 1 ELSE 0
               /\ nat = IF Line THEN 1 ELSE 0
    <3>1. ~left
      BY <2>1, <2>4 DEF Known, RuleInv, Kept
    <3>2. Only(rules[m], RulesOf(route[m]))
      BY <2>1, <3>1, ManagerHas DEF MachineClear
    <3>3. \A k \in Tagged : rules[m][k] \in Nat
      BY RulesType DEF ControlInv
    <3>4. \A k \in Tagged : rules[m][k] = IF k \in RulesOf(route[m]) THEN 1 ELSE 0
      BY <2>3, <3>2, <3>3 DEF Only, Least
    <3> QED BY <2>2, <3>1, <3>4 DEF NatIs
  <2> QED BY <2>2, <2>3, <2>4 DEF Least, NatIs
<1> QED BY <1>1, AlwaysHolds, PTL

(* A free machine has no rule with the comment left: unroute_network takes back   *)
(* what route_network did wherever it was interrupted, by an exception of a        *)
(* command or a stopped rooter, and start-up, if it sends cleanup_rooter, what a    *)
(* CAPE that was killed left.                                                    *)
THEOREM NothingIsLeft == Spec => []NothingLeft
<1>1. ControlInv /\ RuleInv => NothingLeft
  <2> SUFFICES ASSUME ControlInv, RuleInv, cape = "ready", ended # "crashed", Known,
                      NEW m \in Machines, pc[m] = "idle", NEW k \in Tagged
               PROVE  rules[m][k] = 0
    BY DEF NothingLeft
  <2>1. ~left
    BY DEF Known, RuleInv, Kept, ControlInv, TypeOK
  <2>2. Only(rules[m], {})
    BY <2>1, ManagerHas DEF MachineClear
  <2>3. rules[m][k] \in Nat
    BY RulesType DEF ControlInv
  <2> QED BY <2>2, <2>3 DEF Only
<1> QED BY <1>1, AlwaysHolds, PTL

=============================================================================
