-------------------------- MODULE AutoProcessProofs --------------------------
(***************************************************************************)
(* The safety properties of utils/process.py for any number of tasks, futures*)
(* and worker processes.                                                     *)
(*                                                                           *)
(* The inductive invariant adds to MapsAgree what lies between the loop and  *)
(* the maps: a future that is not forgotten is in pending_future_map or is   *)
(* the one that has just been scheduled (Known), whose task has no entry yet *)
(* (Fresh), and a place in the pool was free when the loop went past its     *)
(* check, and still is when it records the future (Room): the callbacks can  *)
(* only take entries away meanwhile.                                         *)
(***************************************************************************)
EXTENDS AutoProcess, FiniteSetTheorems, WellFoundedInduction, TLAPS

Known == \A f \in Futures :
    state[f] # "free" => of[f] \in Tasks /\ (f \in fmap \/ (apc = "record" /\ f = current))

Fresh ==
    /\ apc = "record" =>
         /\ current \in Futures \ fmap
         /\ state[current] \notin {"free", "noted"}
         /\ tmap[of[current]] = NoFuture
    /\ \A f \in fmap : state[f] # "free"
    /\ apc = "scan" => \A t \in todo : t \in Tasks

Room ==
    /\ Cardinality(Pending) <= Parallel
    /\ apc \in {"list", "scan", "record"} => Cardinality(Pending) < Parallel
    /\ apc \in {"list", "scan", "record"} => CountLeft

AInv == TypeOK /\ MapsAgree /\ Known /\ Fresh /\ Room

(* There are finitely many tasks, so the pending ones can be counted. *)
LEMMA PendingFinite == IsFiniteSet(Tasks) /\ IsFiniteSet(Pending) /\ Cardinality(Pending) \in Nat
<1>1. IsFiniteSet(Tasks)
  BY FS_Interval, AutoProcessAssumption DEF Tasks
<1>2. Pending \in SUBSET Tasks
  BY DEF Pending
<1> QED BY <1>1, <1>2, FS_Subset, FS_CardinalityType

(* A set grows by at most one when an element is added. *)
LEMMA OneMore ==
  ASSUME NEW S, NEW x, IsFiniteSet(S)
  PROVE  /\ IsFiniteSet(S \cup {x}) /\ Cardinality(S \cup {x}) \in Nat
         /\ Cardinality(S \cup {x}) <= Cardinality(S) + 1
<1>1. /\ IsFiniteSet(S \cup {x})
      /\ Cardinality(S \cup {x}) = IF x \in S THEN Cardinality(S) ELSE Cardinality(S) + 1
  BY FS_AddElement
<1>2. Cardinality(S) \in Nat /\ Cardinality(S \cup {x}) \in Nat
  BY <1>1, FS_CardinalityType
<1> QED BY <1>1, <1>2

(* The for loop takes the first of a list that is not empty. *)
LEMMA MinIsListed ==
  ASSUME NEW S \in SUBSET Tasks, S # {}
  PROVE  Min(S) \in S
<1>1. S \subseteq Nat
  BY AutoProcessAssumption DEF Tasks
<1> DEFINE Less == {ss \in Nat \X Nat : ss[1] < ss[2]}
<1>0. IsWellFoundedOn(Less, Nat)
  <2>1. OpToRel(<, Nat) = Less
    BY Zenon DEF OpToRel
  <2> QED BY <2>1, NatLessThanWellFounded, Zenon
<1> HIDE DEF Less
<1>2. PICK x \in S : \A y \in S : ~(<<y, x>> \in Less)
  BY <1>0, <1>1, WFMin, Zenon
<1>3. \A y \in S : y < x => <<y, x>> \in Less
  BY <1>1 DEF Less
<1>4. ASSUME NEW y \in S PROVE x =< y
  <2>1. x \in Nat /\ y \in Nat
    BY <1>1
  <2>2. ~(y < x)
    BY <1>2, <1>3, Zenon
  <2> QED BY <2>1, <2>2
<1> QED BY <1>4 DEF Min

(* A step after which no task is pending that was not leaves room in the pool. *)
LEMMA FewerPending ==
  ASSUME tmap \in [Tasks -> Futures \cup {NoFuture}],
         \A t \in Tasks : tmap'[t] # NoFuture => tmap[t] # NoFuture
  PROVE  Cardinality(Pending') <= Cardinality(Pending) /\ Cardinality(Pending') \in Nat
<1>1. Pending' \in SUBSET Pending
  BY DEF Pending
<1> QED BY <1>1, PendingFinite, FS_Subset, FS_CardinalityType

(* The loop starts with empty maps. *)
LEMMA AInvInit == Init => AInv
<1> SUFFICES ASSUME Init PROVE AInv
  OBVIOUS
<1>1. Pending = {}
  BY DEF Init, Pending
<1>2. Cardinality(Pending) = 0
  BY <1>1, FS_EmptySet
<1> QED BY <1>2, AutoProcessAssumption
        DEF Init, AInv, TypeOK, MapsAgree, Known, Fresh, Room, FutureState

(* Check, List, Skip, NothingAdded and an exception leave the futures and the maps alone. *)
LEMMA LookInv ==
  ASSUME AInv, Check \/ List \/ Skip \/ NothingAdded \/ LoopRaises
  PROVE  AInv'
<1> USE DEF AInv
<1>1. /\ UNCHANGED <<status, current, count, of, state, fmap, tmap>>
      /\ Pending' = Pending /\ CountLeft' = CountLeft
  BY DEF Check, List, Skip, NothingAdded, LoopRaises, Pending, CountLeft
<1>2. todo' \in SUBSET Tasks
  BY DEF Check, List, Skip, NothingAdded, LoopRaises, TypeOK, Listed, Wanted
<1>3. /\ apc' \in {"check", "list", "scan", "ended"} /\ apc # "record"
      /\ apc' \in {"list", "scan"} =>
           \/ apc \in {"list", "scan"}
           \/ CountLeft /\ ~(Cardinality(Pending) >= Parallel)
  BY DEF Check, List, Skip, NothingAdded, LoopRaises, StillFull
<1>4. TypeOK'
  BY <1>1, <1>2, <1>3 DEF TypeOK
<1>5. MapsAgree' /\ Known'
  BY <1>1, <1>3 DEF MapsAgree, Known
<1>6. Fresh'
  BY <1>1, <1>2, <1>3 DEF Fresh
<1>7. Room'
  BY <1>1, <1>3, PendingFinite, AutoProcessAssumption DEF Room
<1> QED BY <1>4, <1>5, <1>6, <1>7

(* pool.schedule, and the entries the loop then makes in the maps. *)
LEMMA ScheduleInv ==
  ASSUME AInv, (\E f \in Futures : Schedule(f)) \/ Record
  PROVE  AInv'
<1> USE DEF AInv
<1>1. ASSUME NEW f \in Futures, Schedule(f) PROVE AInv'
  <2>1. Min(todo) \in Tasks /\ tmap[Min(todo)] = NoFuture
    BY <1>1, MinIsListed DEF Schedule, TypeOK, IsPending
  <2>2. f \notin fmap /\ state[f] = "free"
    BY <1>1 DEF Schedule, Fresh
  <2>3. Pending' = Pending /\ CountLeft' = CountLeft
    BY <1>1 DEF Schedule, Pending, CountLeft
  <2>4. TypeOK'
    BY <1>1, <2>1 DEF Schedule, TypeOK, FutureState
  <2>5. MapsAgree'
    BY <1>1, <2>1, <2>2 DEF Schedule, MapsAgree, TypeOK
  <2>6. Known'
    BY <1>1, <2>1 DEF Schedule, Known, TypeOK
  <2>7. Fresh'
    BY <1>1, <2>1, <2>2 DEF Schedule, Fresh, TypeOK
  <2>8. Room'
    BY <1>1, <2>3 DEF Schedule, Room
  <2> QED BY <2>4, <2>5, <2>6, <2>7, <2>8
<1>2. CASE Record
  <2>1. /\ current \in Futures \ fmap /\ of[current] \in Tasks
        /\ tmap[of[current]] = NoFuture /\ state[current] # "free"
    BY <1>2 DEF Record, Known, Fresh
  <2>2. Pending' = Pending \cup {of[current]}
    BY <1>2, <2>1, AutoProcessAssumption DEF Record, Pending, TypeOK
  <2>3. Cardinality(Pending') <= Cardinality(Pending) + 1 /\ Cardinality(Pending') \in Nat
    BY <2>2, PendingFinite, OneMore
  <2>4. Cardinality(Pending) < Parallel /\ CountLeft
    BY <1>2 DEF Record, Room
  <2>5. TypeOK'
    BY <1>2, <2>1, <2>4, AutoProcessAssumption DEF Record, TypeOK, CountLeft
  <2>6. MapsAgree'
    BY <1>2, <2>1, AutoProcessAssumption DEF Record, MapsAgree, TypeOK
  <2>7. Known' /\ Fresh'
    BY <1>2, <2>1 DEF Record, Known, Fresh, TypeOK
  <2>8. Room'
    BY <1>2, <2>3, <2>4, PendingFinite, AutoProcessAssumption DEF Record, Room
  <2> QED BY <2>5, <2>6, <2>7, <2>8
<1> QED BY <1>1, <1>2

(* A future that moves on without being forgotten. *)
LEMMA BecomeInv ==
  ASSUME AInv, NEW f \in Futures, NEW s \in FutureState \ {"free"}, Become(f, s),
         state[f] # "free", s = "noted" => f \in fmap,
         status' \in [Tasks -> {"running", "completed", "reported", "failed_processing",
                                "deleted"}],
         UNCHANGED <<apc, todo, current, count, of, fmap, tmap>>
  PROVE  AInv'
<1> USE DEF AInv
<1>1. Pending' = Pending /\ CountLeft' = CountLeft
  BY DEF Pending, CountLeft
<1>2. state' = [state EXCEPT ![f] = s] /\ state' \in [Futures -> FutureState]
  BY DEF Become, TypeOK
<1>3. TypeOK'
  BY <1>2 DEF TypeOK
<1>4. MapsAgree'
  BY DEF MapsAgree
<1>5. Known'
  BY <1>2 DEF Known, TypeOK
<1>6. Fresh'
  BY <1>2 DEF Fresh, TypeOK
<1>7. Room'
  BY <1>1 DEF Room
<1> QED BY <1>3, <1>4, <1>5, <1>6, <1>7

(* A status that is set is one of those there are. *)
LEMMA SetStatusType ==
  ASSUME TypeOK, NEW t, NEW s \in {"reported", "failed_processing"}, SetStatus(t, s)
  PROVE  status' \in [Tasks -> {"running", "completed", "reported", "failed_processing",
                                "deleted"}]
  BY DEF TypeOK, SetStatus

(* The workers, the callback and the other processes. *)
LEMMA RestInv ==
  ASSUME AInv,
         \/ \E f \in Futures : Worker(f) \/ Callback(f)
         \/ \E t \in Tasks : AnalysisCompletes(t) \/ Remove(t)
  PROVE  AInv'
<1> USE DEF AInv
<1>1. ASSUME NEW f \in Futures, Begin(f) \/ Return(f) \/ Raise(f) \/ Timeout(f) PROVE AInv'
  <2>1. /\ state[f] # "free" /\ UNCHANGED <<status, apc, todo, current, count, of, fmap, tmap>>
        /\ \E s \in {"working", "returned", "failed", "timeout"} : Become(f, s)
    BY <1>1 DEF Begin, Return, Raise, Timeout, Working
  <2> QED BY <2>1, BecomeInv DEF FutureState, TypeOK
<1>2. ASSUME NEW f \in Futures, Report(f) PROVE AInv'
  BY <1>2, SetStatusType, BecomeInv DEF Report, FutureState
<1>3. ASSUME NEW f \in Futures, FinishedStatus(f) PROVE AInv'
  <2>1. status' \in [Tasks -> {"running", "completed", "reported", "failed_processing",
                               "deleted"}]
    BY <1>3, SetStatusType DEF FinishedStatus, TypeOK
  <2> QED BY <1>3, <2>1, BecomeInv DEF FinishedStatus, FutureState
<1>4. ASSUME NEW f \in Futures, FinishedForget(f) PROVE AInv'
  <2>1. /\ state[f] = "noted" /\ fmap' = fmap \ {f} /\ tmap' = [tmap EXCEPT ![of[f]] = NoFuture]
        /\ state' = [state EXCEPT ![f] = "free"] /\ of' = [of EXCEPT ![f] = 0]
        /\ UNCHANGED <<status, apc, todo, current, count>>
    BY <1>4 DEF FinishedForget, ForgetBoth, Become
  <2>2. of[f] \in Tasks /\ f \in fmap /\ tmap[of[f]] = f /\ (apc = "record" => f # current)
    BY <2>1 DEF Known, Fresh, MapsAgree
  <2>3. Cardinality(Pending') <= Cardinality(Pending) /\ Cardinality(Pending') \in Nat
    BY <2>1, FewerPending DEF TypeOK
  <2>4. TypeOK'
    BY <2>1 DEF TypeOK, FutureState
  <2>5. MapsAgree'
    BY <2>1, <2>2 DEF MapsAgree, TypeOK
  <2>6. Known'
    BY <2>1, <2>2 DEF Known, TypeOK
  <2>7. Fresh'
    BY <2>1, <2>2 DEF Fresh, Known, TypeOK
  <2>8. Room'
    BY <2>1, <2>3, PendingFinite, AutoProcessAssumption DEF Room, CountLeft
  <2> QED BY <2>4, <2>5, <2>6, <2>7, <2>8
<1>5. ASSUME NEW t \in Tasks, AnalysisCompletes(t) \/ Remove(t) PROVE AInv'
  <2>1. /\ UNCHANGED <<apc, todo, current, count, of, state, fmap, tmap>>
        /\ Pending' = Pending /\ CountLeft' = CountLeft
    BY <1>5 DEF AnalysisCompletes, Remove, Pending, CountLeft
  <2>2. TypeOK'
    BY <1>5, <2>1 DEF AnalysisCompletes, Remove, TypeOK
  <2> QED BY <2>1, <2>2 DEF MapsAgree, Known, Fresh, Room
<1> QED BY <1>1, <1>2, <1>3, <1>4, <1>5 DEF Worker, Callback

(* The invariant holds of every behaviour. *)
LEMMA AInvariant == Spec => []AInv
<1>1. AInv /\ UNCHANGED vars => AInv'
  BY DEF AInv, vars, TypeOK, MapsAgree, Known, Fresh, Room, Pending, CountLeft
<1>2. AInv /\ Next => AInv'
  BY LookInv, ScheduleInv, RestInv DEF Next, Loop
<1> QED BY AInvInit, <1>1, <1>2, PTL DEF Spec

(* Every variable of process.py keeps its type. *)
THEOREM TypeCorrect == Spec => []TypeOK
<1>1. AInv => TypeOK
  BY DEF AInv
<1> QED BY <1>1, AInvariant, PTL

(* The two maps of process.py agree, whatever the order of the loop and the   *)
(* callbacks, for any number of tasks and workers.                            *)
THEOREM MapsAlwaysAgree == Spec => []MapsAgree
<1>1. AInv => MapsAgree
  BY DEF AInv
<1> QED BY <1>1, AInvariant, PTL

(* No two futures that are alive process the same task: pending_task_id_map   *)
(* does its work as a lock.                                                   *)
THEOREM TasksAreExclusive == Spec => []OneWorkerPerTask
<1>1. AInv => OneWorkerPerTask
  <2> SUFFICES ASSUME AInv, NEW f \in Alive, NEW g \in Alive, f # g, of[f] = of[g]
               PROVE  FALSE
    BY DEF OneWorkerPerTask
  <2>1. /\ f \in Futures /\ state[f] # "free" /\ g \in Futures /\ state[g] # "free"
    BY DEF Alive
  <2> QED BY <2>1, AutoProcessAssumption DEF AInv, Known, Fresh, MapsAgree, TypeOK
<1> QED BY <1>1, AInvariant, PTL

(* Each future in the map has a task of its own that is pending. *)
LEMMA MapNotLarger ==
  ASSUME AInv
  PROVE  IsFiniteSet(fmap) /\ Cardinality(fmap) <= Cardinality(Pending)
<1> DEFINE h == [f \in fmap |-> of[f]]
<1>1. \A f \in fmap : of[f] \in Pending
  BY AutoProcessAssumption DEF AInv, MapsAgree, Pending, TypeOK
<1>2. h \in Injection(fmap, Pending)
  BY <1>1 DEF AInv, MapsAgree, Injection, IsInjective
<1> QED BY <1>2, PendingFinite, FS_Injection

(* There are never more futures alive than worker processes. *)
THEOREM PoolIsNotOverrun == Spec => []PoolNotOverrun
<1>1. AInv => PoolNotOverrun
  <2> SUFFICES ASSUME AInv PROVE Cardinality(Alive) <= Parallel
    BY DEF PoolNotOverrun
  <2>1. IsFiniteSet(fmap) /\ Cardinality(fmap) \in Nat
        /\ Cardinality(fmap) <= Cardinality(Pending)
    BY MapNotLarger, FS_CardinalityType
  <2>2. CASE apc = "record"
    <3>1. Alive \in SUBSET (fmap \cup {current})
      BY <2>2 DEF AInv, Alive, Known
    <3>2. /\ IsFiniteSet(fmap \cup {current})
          /\ Cardinality(fmap \cup {current}) <= Cardinality(fmap) + 1
          /\ Cardinality(fmap \cup {current}) \in Nat
      BY <2>1, OneMore
    <3>3. Cardinality(Alive) <= Cardinality(fmap \cup {current}) /\ Cardinality(Alive) \in Nat
      BY <3>1, <3>2, FS_Subset, FS_CardinalityType
    <3>4. Cardinality(Pending) < Parallel
      BY <2>2 DEF AInv, Room
    <3> QED BY <2>1, <3>2, <3>3, <3>4, PendingFinite, AutoProcessAssumption
  <2>3. CASE apc # "record"
    <3>1. Alive \in SUBSET fmap
      BY <2>3 DEF AInv, Alive, Known
    <3>2. Cardinality(Alive) <= Cardinality(fmap) /\ Cardinality(Alive) \in Nat
      BY <2>1, <3>1, FS_Subset, FS_CardinalityType
    <3> QED BY <2>1, <3>2, PendingFinite, AutoProcessAssumption DEF AInv, Room
  <2> QED BY <2>2, <2>3
<1> QED BY <1>1, AInvariant, PTL
=============================================================================
