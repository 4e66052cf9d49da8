---------------------------- MODULE TaskLifecycle ----------------------------
(***************************************************************************)
(* What CAPE promises the user who submits a task, with the threads, the     *)
(* machines and the database left out: a task is analysed by one analysis    *)
(* and once only; when CAPE stops, what it was analysing is abandoned, and   *)
(* the next start closes every abandoned task and may submit it again as a   *)
(* new one.  A task that has been closed or reported stays so.               *)
(***************************************************************************)
CONSTANTS
    Tasks,     \* the tasks there may be
    Nobody     \* no task

VARIABLES
    phase,     \* how far a task is
    owed       \* the closed task that is to be submitted again

Phases == {"absent", "waiting", "analysing", "abandoned", "analysed", "over"}

Init ==
    /\ phase = [t \in Tasks |-> "absent"]
    /\ owed = Nobody

Moves(t, p, q) ==
    /\ phase[t] = p
    /\ phase' = [phase EXCEPT ![t] = q]

Submit(t) == Moves(t, "absent", "waiting") /\ UNCHANGED owed

Take(t) == Moves(t, "waiting", "analysing") /\ UNCHANGED owed

Finish(t) == Moves(t, "analysing", "analysed") /\ UNCHANGED owed

Report(t) == Moves(t, "analysed", "over") /\ UNCHANGED owed

(* CAPE stops, or is stopped: what is owed is forgotten. *)
Stop ==
    /\ phase' = [t \in Tasks |-> IF phase[t] = "analysing" THEN "abandoned" ELSE phase[t]]
    /\ owed' = Nobody

Close(t) ==
    /\ owed = Nobody
    /\ Moves(t, "abandoned", "over")
    /\ owed' \in {t, Nobody}

Again(t) ==
    /\ owed # Nobody
    /\ Moves(t, "absent", "waiting")
    /\ owed' = Nobody

Next ==
    \/ \E t \in Tasks : /\ phase'[t] # phase[t]
                        /\ \/ Submit(t) \/ Take(t) \/ Finish(t) \/ Report(t)
                           \/ Close(t) \/ Again(t)
    \/ Stop

Spec == Init /\ [][Next]_<<phase, owed>>
=============================================================================
