------------------------------- MODULE MCDist -------------------------------
(* Small instances of Dist. *)
EXTENDS Dist, TLC

CONSTANTS t1, t2, n1, n2

(* The first task asks for the first node; every worker has one machine. *)
MCWant == [t \in Tasks |-> IF t = t1 THEN n1 ELSE AnyNode]
MCSlots == [n \in Nodes |-> 1]
=============================================================================
