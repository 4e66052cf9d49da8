----------------------------- MODULE MCScheduler -----------------------------
(* Instances of Scheduler for TLC: machines, submissions and symmetry. *)
EXTENDS Scheduler, TLC

CONSTANTS m1, m2, m3

File(pri, m, u) == [category |-> "file", tags |-> {"x86"}, priority |-> pri,
                    machine |-> m, node |-> FALSE, user |-> u]

(* Two machines of one architecture, or one of each. *)
SameArch == [m \in Machines |-> "x86"]
MixedArch == [m \in Machines |-> IF m = m1 THEN "x86" ELSE "x64"]

(* One kind of task, or tasks that differ in priority, pin and architecture. *)
PlainJobs == {File(1, NoMachine, 0)}
PinnedJobs == {File(1, NoMachine, 1), File(2, m1, 0)}
MixedJobs == {[File(2, NoMachine, 0) EXCEPT !.tags = {"x64"}],
              [File(1, NoMachine, 0) EXCEPT !.category = "static"],
              [File(1, NoMachine, 0) EXCEPT !.category = "url", !.tags = {"x86", "x64"}],
              [File(3, NoMachine, 0) EXCEPT !.node = TRUE]}

(* Manager slots are alike; machines too, where no job names one and the     *)
(* architectures are the same.                                              *)
ManagerSymmetry == Permutations(Managers)
HostSymmetry == Permutations(Managers) \cup Permutations(Machines)

=============================================================================
