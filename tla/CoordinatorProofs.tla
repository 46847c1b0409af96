-------------------------- MODULE CoordinatorProofs --------------------------
(***************************************************************************)
(* Proofs about Coordinator, for every number of hosts, tasks and faults and *)
(* every policy: its steps are steps of WindowBudget, so the theorems of     *)
(* WindowBudgetProofs hold of it, and the invariants of its own.             *)
(*                                                                         *)
(* The inductive invariant says where work can be: what a tick has listed    *)
(* and claimed fits the limit (WidthInv), branches exist only in a batch and *)
(* for its claims (BatchInv), every execution begun and every one still      *)
(* allowed to begin has been paid for (PaidInv), and a claim held is in the  *)
(* hands of the tick or of a branch that will settle it (IdleInv).           *)
(***************************************************************************)
EXTENDS Coordinator, WindowBudgetProofs, WellFoundedInduction

(* The types of the coordinator's own variables, with runs unbounded. *)
LocalType ==
    /\ stop \in [Coordinators -> BOOLEAN]
    /\ pc \in [Coordinators -> {"off", "poll", "each", "claim", "abandon", "batch"}]
    /\ todo \in [Coordinators -> SUBSET Tasks]
    /\ claimed \in [Coordinators -> SUBSET Tasks]
    /\ branch \in [Coordinators -> [Tasks -> Branches]]
    /\ runner \in [Tasks -> Coordinators \cup {NoOne}]
    /\ runs \in Nat
    /\ faults \in 0..MaxFaults

BatchInv ==
    \A c \in Coordinators :
        /\ pc[c] \in {"off", "poll"} => claimed[c] = {}
        /\ pc[c] # "batch" => \A t \in Tasks : branch[c][t] = "none"
        /\ \A t \in Tasks : branch[c][t] # "none" => t \in claimed[c]

WidthInv ==
    \A c \in Coordinators : Cardinality(todo[c] \cup claimed[c]) <= MaxConcurrent

(* The executions that may still begin: claimed in the tick's loop, or about to *)
(* start in a batch.                                                            *)
MayBegin(c, t) ==
    (pc[c] \in {"each", "claim"} /\ t \in claimed[c]) \/ branch[c][t] = "start"

Entitled == {p \in Coordinators \X Tasks : MayBegin(p[1], p[2])}

PaidInv == IsFiniteSet(Entitled) /\ runs + Cardinality(Entitled) <= started + retries

IdleInv ==
    \A c \in Coordinators, t \in Tasks :
        faults = 0 /\ HoldsClaim(c, t) =>
            /\ t \in claimed[c]
            /\ pc[c] \in {"each", "claim", "abandon", "batch"}
            /\ pc[c] = "batch" => branch[c][t] \notin {"none", "done"}

CoordInv == LocalType /\ BatchInv /\ WidthInv /\ PaidInv /\ IdleInv

-----------------------------------------------------------------------------
(* A finite set of naturals that is not empty has a largest element. *)
LEMMA LargestElement ==
  ASSUME NEW S \in SUBSET Nat, IsFiniteSet(S), S # {}
  PROVE  \E m \in S : \A u \in S : u <= m
  <1> DEFINE Above(m) == {u \in S : u > m}
             Counts   == {Cardinality(Above(m)) : m \in S}
  <1>1. \A m \in S : IsFiniteSet(Above(m)) /\ Cardinality(Above(m)) \in Nat
    <2> SUFFICES ASSUME NEW m \in S
                 PROVE  IsFiniteSet(Above(m)) /\ Cardinality(Above(m)) \in Nat
      OBVIOUS
    <2>1. Above(m) \in SUBSET S
      OBVIOUS
    <2>2. IsFiniteSet(Above(m))
      BY <2>1, FS_Subset
    <2> HIDE DEF Above
    <2> QED
      BY <2>2, FS_CardinalityType
  <1>2. Counts \subseteq Nat /\ Counts # {}
    BY <1>1
  <1>3. PICK k \in Counts : \A j \in Counts : <<j, k>> \notin OpToRel(<, Nat)
    <2> HIDE DEF Counts
    <2> QED
      BY <1>2, NatLessThanWellFounded, WFMin
  <1>4. \A j \in Counts : ~(j < k)
    BY <1>2, <1>3 DEF OpToRel
  <1>5. PICK m \in S : k = Cardinality(Above(m))
    OBVIOUS
  <1>6. Above(m) = {}
    <2> SUFFICES ASSUME NEW u \in Above(m) PROVE FALSE
      OBVIOUS
    <2>0. u \in S /\ u \in Nat /\ m \in Nat /\ u > m
      OBVIOUS
    <2>a. \A x \in Nat : x > u => x > m
      BY <2>0
    <2>b. Above(u) \in SUBSET Above(m)
      BY <2>a
    <2>1. u \in S /\ Above(u) \in SUBSET Above(m) /\ u \in Above(m) /\ u \notin Above(u)
      BY <2>0, <2>b
    <2>2. Cardinality(Above(u)) \in Counts
      BY <2>1
    <2>3. Cardinality(Above(u)) \in Nat /\ Cardinality(Above(m)) \in Nat /\ IsFiniteSet(Above(m))
      BY <1>1, <2>1
    <2> HIDE DEF Above, Counts
    <2>4. Cardinality(Above(u)) <= Cardinality(Above(m)) /\ Cardinality(Above(u)) # Cardinality(Above(m))
      BY <2>1, <2>3, FS_Subset
    <2> QED
      BY <1>4, <1>5, <2>2, <2>3, <2>4
  <1>7. \A u \in S : u <= m
    BY <1>6
  <1> QED
    BY <1>7

(* runnable_tasks answers with at most max_concurrent_tasks tasks. *)
LEMMA ListedIsShort == Cardinality(Listed) <= MaxConcurrent
  <1>1. Listed \in SUBSET Tasks /\ Candidates \in SUBSET Tasks
    BY DEF Listed, Candidates
  <1>2. IsFiniteSet(Listed) /\ IsFiniteSet(Candidates) /\ Listed \in SUBSET Nat
    BY <1>1, TasksAssumption, OrderAssumption, FS_Subset
  <1>3. CASE Listed = {}
    BY <1>3, FS_EmptySet, LimitAssumption
  <1>4. CASE Listed # {}
    <2>1. PICK m \in Listed : \A u \in Listed : u <= m
      BY <1>2, <1>4, LargestElement
    <2> DEFINE Before == {u \in Candidates : u < m}
    <2>2. Before \in SUBSET Candidates /\ Cardinality(Before) < MaxConcurrent
      BY <2>1 DEF Listed
    <2>3. IsFiniteSet(Before)
      BY <1>2, <2>2, FS_Subset
    <2>4. Listed \in SUBSET (Before \cup {m})
      BY <1>2, <2>1 DEF Listed
    <2> HIDE DEF Before
    <2>5. /\ IsFiniteSet(Before \cup {m})
          /\ Cardinality(Before) \in Nat
          /\ Cardinality(Before \cup {m}) <= Cardinality(Before) + 1
      <3>1. Cardinality(Before) \in Nat
        BY <2>3, FS_CardinalityType
      <3>2. /\ IsFiniteSet(Before \cup {m})
            /\ Cardinality(Before \cup {m})
                 = IF m \in Before THEN Cardinality(Before) ELSE Cardinality(Before) + 1
        BY <2>3, FS_AddElement
      <3> QED
        BY <3>1, <3>2
    <2>6. Cardinality(Listed) <= Cardinality(Before \cup {m})
      BY <2>4, <2>5, FS_Subset
    <2>7. Cardinality(Listed) \in Nat /\ Cardinality(Before \cup {m}) \in Nat
      BY <1>2, <2>5, FS_CardinalityType
    <2> QED
      BY <2>2, <2>5, <2>6, <2>7, LimitAssumption
  <1> QED
    BY <1>3, <1>4

(* The tick tries a task of its list. *)
LEMMA MinIsMember ==
  ASSUME NEW S \in SUBSET Nat, IsFiniteSet(S), S # {}
  PROVE  Min(S) \in S
  <1>1. \E m \in S : \A u \in S : m <= u
    <2>1. PICK m \in S : \A u \in S : <<u, m>> \notin OpToRel(<, Nat)
      BY NatLessThanWellFounded, WFMin
    <2>2. \A u \in S : ~(u < m)
      BY <2>1 DEF OpToRel
    <2> QED
      BY <2>2
  <1> QED
    BY <1>1 DEF Min

(* Work listed and claimed that does not grow keeps its bound. *)
LEMMA WidthShrinks ==
  ASSUME LocalType, WidthInv,
         \A c \in Coordinators : todo'[c] \cup claimed'[c] \subseteq todo[c] \cup claimed[c]
  PROVE  WidthInv'
  <1> SUFFICES ASSUME NEW c \in Coordinators
               PROVE  Cardinality(todo'[c] \cup claimed'[c]) <= MaxConcurrent
    BY DEF WidthInv
  <1>1. todo[c] \cup claimed[c] \in SUBSET Tasks
    BY DEF LocalType
  <1>2. IsFiniteSet(todo[c] \cup claimed[c])
    BY <1>1, TasksAssumption, FS_Subset
  <1>3. /\ IsFiniteSet(todo'[c] \cup claimed'[c])
        /\ Cardinality(todo'[c] \cup claimed'[c]) <= Cardinality(todo[c] \cup claimed[c])
    BY <1>2, FS_Subset
  <1>4. Cardinality(todo'[c] \cup claimed'[c]) \in Nat /\ Cardinality(todo[c] \cup claimed[c]) \in Nat
    BY <1>2, <1>3, FS_CardinalityType
  <1>5. Cardinality(todo[c] \cup claimed[c]) <= MaxConcurrent
    BY DEF WidthInv
  <1> QED
    BY <1>3, <1>4, <1>5, LimitAssumption

(* Entitlements that only get fewer stay paid for. *)
LEMMA PaidShrinks ==
  ASSUME PaidInv, UNCHANGED <<runs, started, retries>>, BudgetTypeOK, LocalType,
         \A c \in Coordinators, t \in Tasks : MayBegin(c, t)' => MayBegin(c, t)
  PROVE  PaidInv'
  <1>0. Entitled' \in SUBSET Entitled
    BY DEF Entitled
  <1>1. IsFiniteSet(Entitled') /\ Cardinality(Entitled') <= Cardinality(Entitled)
    BY <1>0, FS_Subset DEF PaidInv
  <1>2. Cardinality(Entitled') \in Nat /\ Cardinality(Entitled) \in Nat
    BY <1>1, FS_CardinalityType DEF PaidInv
  <1>3. runs \in Nat /\ started \in Nat /\ retries \in Nat
    BY LimitAssumption DEF BudgetTypeOK, LocalType
  <1>4. runs + Cardinality(Entitled) <= started + retries
    BY DEF PaidInv
  <1>5. runs' = runs /\ started' = started /\ retries' = retries
    OBVIOUS
  <1>6. runs' + Cardinality(Entitled') <= started' + retries'
    BY <1>1, <1>2, <1>3, <1>4, <1>5
  <1> QED
    BY <1>1, <1>6 DEF PaidInv

(* A claim is only gained by claiming. *)
LEMMA ClaimsNotGained ==
  ASSUME NEW c \in Coordinators, NEW t \in Tasks,
         UNCHANGED <<claim, reservation, held>>
  PROVE  HoldsClaim(c, t)' = HoldsClaim(c, t)
  BY DEF HoldsClaim

(* A branch that moves leaves the others where they are. *)
LEMMA BranchMoves ==
  ASSUME LocalType, NEW c \in Coordinators, NEW t \in Tasks, NEW l \in Branches, BranchTo(c, t, l)
  PROVE  /\ branch' \in [Coordinators -> [Tasks -> Branches]]
         /\ \A d \in Coordinators, u \in Tasks :
               branch'[d][u] = IF d = c /\ u = t THEN l ELSE branch[d][u]
  <1>1. branch \in [Coordinators -> [Tasks -> Branches]] /\ branch' = [branch EXCEPT ![c][t] = l]
    BY DEF LocalType, BranchTo
  <1>2. branch[c] \in [Tasks -> Branches]
    BY <1>1
  <1>3. [branch[c] EXCEPT ![t] = l] \in [Tasks -> Branches]
    BY <1>2
  <1>4. branch' = [branch EXCEPT ![c] = [branch[c] EXCEPT ![t] = l]]
    BY <1>1
  <1>5. branch' \in [Coordinators -> [Tasks -> Branches]]
    BY <1>1, <1>3, <1>4
  <1> QED
    BY <1>1, <1>2, <1>4, <1>5

(* Whoever settles or loses a claim no longer holds it, and nobody gains one. *)
LEMMA ReleaseGivesUp ==
  ASSUME BudgetTypeOK,
         NEW c \in Coordinators, NEW t \in Tasks,
         Lose(c, t) \/ \E s \in {"COMPLETE", "FAILED"} : Finalize(c, t, s)
  PROVE  /\ held'[c][t] = 0
         /\ ~HoldsClaim(c, t)'
         /\ \A d \in Coordinators, u \in Tasks : HoldsClaim(d, u)' => HoldsClaim(d, u)
  <1>1. CASE Lose(c, t)
    BY <1>1 DEF Lose, HoldsClaim, BudgetTypeOK
  <1>2. ASSUME NEW s \in {"COMPLETE", "FAILED"}, Finalize(c, t, s)
        PROVE  /\ held'[c][t] = 0
               /\ ~HoldsClaim(c, t)'
               /\ \A d \in Coordinators, u \in Tasks : HoldsClaim(d, u)' => HoldsClaim(d, u)
    <2>1. /\ held' = [held EXCEPT ![c][t] = 0]
          /\ reservation' = [reservation EXCEPT ![t] = 0]
          /\ claim' = [claim EXCEPT ![t] = [status |-> s, owner |-> @.owner,
                                            epoch |-> @.epoch, lease |-> "past"]]
      BY <1>2 DEF Finalize
    <2> QED
      BY <2>1 DEF HoldsClaim, BudgetTypeOK
  <1> QED
    BY <1>1, <1>2

-----------------------------------------------------------------------------

(* Start keeps the invariant. *)
LEMMA StartKeeps ==
  ASSUME BudgetTypeOK, CoordInv, NEW c \in Coordinators, Start(c)
  PROVE  CoordInv'
  <1> USE DEF CoordInv
  <1>1. LocalType'
    BY DEF Start, Goto, threadVars, runVars, vars, windowVars, usageVars, LocalType, Branches
  <1>2. BatchInv'
    BY DEF Start, Goto, threadVars, runVars, vars, windowVars, usageVars, LocalType, BatchInv
  <1>3. \A d \in Coordinators : todo'[d] \cup claimed'[d] \subseteq todo[d] \cup claimed[d]
    BY DEF Start, Goto, threadVars, runVars, vars, windowVars, usageVars, LocalType
  <1>4. \A d \in Coordinators, u \in Tasks : MayBegin(d, u)' => MayBegin(d, u)
    BY DEF Start, Goto, threadVars, runVars, vars, windowVars, usageVars, LocalType, BatchInv,
       MayBegin
  <1>5. UNCHANGED <<runs, started, retries>>
    BY DEF Start, Goto, threadVars, runVars, vars, windowVars, usageVars
  <1>6. IdleInv'
    <2>1. UNCHANGED <<claim, reservation, held>>
      BY DEF Start, Goto, threadVars, runVars, vars, windowVars, usageVars
    <2> QED
      BY <2>1, ClaimsNotGained DEF Start, Goto, threadVars, runVars, vars, windowVars,
         usageVars, LocalType, BatchInv, IdleInv, HoldsClaim
  <1> QED
    BY <1>1, <1>2, <1>3, <1>4, <1>5, <1>6, WidthShrinks, PaidShrinks

(* Stop keeps the invariant. *)
LEMMA StopKeeps ==
  ASSUME BudgetTypeOK, CoordInv, NEW c \in Coordinators, Stop(c)
  PROVE  CoordInv'
  <1> USE DEF CoordInv
  <1>1. LocalType'
    BY DEF Stop, Goto, threadVars, runVars, vars, windowVars, usageVars, LocalType, Branches
  <1>2. BatchInv'
    BY DEF Stop, Goto, threadVars, runVars, vars, windowVars, usageVars, LocalType, BatchInv
  <1>3. \A d \in Coordinators : todo'[d] \cup claimed'[d] \subseteq todo[d] \cup claimed[d]
    BY DEF Stop, Goto, threadVars, runVars, vars, windowVars, usageVars, LocalType
  <1>4. \A d \in Coordinators, u \in Tasks : MayBegin(d, u)' => MayBegin(d, u)
    BY DEF Stop, Goto, threadVars, runVars, vars, windowVars, usageVars, LocalType, BatchInv,
       MayBegin
  <1>5. UNCHANGED <<runs, started, retries>>
    BY DEF Stop, Goto, threadVars, runVars, vars, windowVars, usageVars
  <1>6. IdleInv'
    <2>1. UNCHANGED <<claim, reservation, held>>
      BY DEF Stop, Goto, threadVars, runVars, vars, windowVars, usageVars
    <2> QED
      BY <2>1, ClaimsNotGained DEF Stop, Goto, threadVars, runVars, vars, windowVars,
         usageVars, LocalType, BatchInv, IdleInv, HoldsClaim
  <1> QED
    BY <1>1, <1>2, <1>3, <1>4, <1>5, <1>6, WidthShrinks, PaidShrinks

(* Begin keeps the invariant. *)
LEMMA BeginKeeps ==
  ASSUME BudgetTypeOK, CoordInv, NEW c \in Coordinators, Begin(c)
  PROVE  CoordInv'
  <1> USE DEF CoordInv
  <1>1. LocalType'
    BY DEF Begin, Goto, threadVars, runVars, vars, windowVars, usageVars, LoopEnds, LocalType,
       Branches
  <1>2. BatchInv'
    BY DEF Begin, Goto, threadVars, runVars, vars, windowVars, usageVars, LoopEnds, LocalType,
       BatchInv
  <1>3. \A d \in Coordinators : todo'[d] \cup claimed'[d] \subseteq todo[d] \cup claimed[d]
    BY DEF Begin, Goto, threadVars, runVars, vars, windowVars, usageVars, LoopEnds, LocalType
  <1>4. \A d \in Coordinators, u \in Tasks : MayBegin(d, u)' => MayBegin(d, u)
    BY DEF Begin, Goto, threadVars, runVars, vars, windowVars, usageVars, LoopEnds, LocalType,
       BatchInv, MayBegin
  <1>5. UNCHANGED <<runs, started, retries>>
    BY DEF Begin, Goto, threadVars, runVars, vars, windowVars, usageVars, LoopEnds
  <1>6. IdleInv'
    <2>1. UNCHANGED <<claim, reservation, held>>
      BY DEF Begin, Goto, threadVars, runVars, vars, windowVars, usageVars, LoopEnds
    <2> QED
      BY <2>1, ClaimsNotGained DEF Begin, Goto, threadVars, runVars, vars, windowVars,
         usageVars, LoopEnds, LocalType, BatchInv, IdleInv, HoldsClaim
  <1> QED
    BY <1>1, <1>2, <1>3, <1>4, <1>5, <1>6, WidthShrinks, PaidShrinks

(* FinishTick keeps the invariant. *)
LEMMA FinishTickKeeps ==
  ASSUME BudgetTypeOK, CoordInv, NEW c \in Coordinators, FinishTick(c)
  PROVE  CoordInv'
  <1> USE DEF CoordInv
  <1>1. LocalType'
    BY DEF FinishTick, Goto, threadVars, runVars, vars, windowVars, usageVars, LocalType,
       Branches
  <1>2. BatchInv'
    BY DEF FinishTick, Goto, threadVars, runVars, vars, windowVars, usageVars, LocalType,
       BatchInv
  <1>3. \A d \in Coordinators : todo'[d] \cup claimed'[d] \subseteq todo[d] \cup claimed[d]
    BY DEF FinishTick, Goto, threadVars, runVars, vars, windowVars, usageVars, LocalType
  <1>4. \A d \in Coordinators, u \in Tasks : MayBegin(d, u)' => MayBegin(d, u)
    BY DEF FinishTick, Goto, threadVars, runVars, vars, windowVars, usageVars, LocalType,
       BatchInv, MayBegin
  <1>5. UNCHANGED <<runs, started, retries>>
    BY DEF FinishTick, Goto, threadVars, runVars, vars, windowVars, usageVars
  <1>6. IdleInv'
    <2>1. UNCHANGED <<claim, reservation, held>>
      BY DEF FinishTick, Goto, threadVars, runVars, vars, windowVars, usageVars
    <2> QED
      BY <2>1, ClaimsNotGained DEF FinishTick, Goto, threadVars, runVars, vars, windowVars,
         usageVars, LocalType, BatchInv, IdleInv, HoldsClaim
  <1> QED
    BY <1>1, <1>2, <1>3, <1>4, <1>5, <1>6, WidthShrinks, PaidShrinks

(* TickRaises keeps the invariant. *)
LEMMA TickRaisesKeeps ==
  ASSUME BudgetTypeOK, CoordInv, NEW c \in Coordinators, TickRaises(c)
  PROVE  CoordInv'
  <1> USE DEF CoordInv
  <1>1. LocalType'
    BY FaultAssumption DEF TickRaises, Goto, threadVars, runVars, vars, windowVars, usageVars,
       LocalType, Branches
  <1>2. BatchInv'
    BY DEF TickRaises, Goto, threadVars, runVars, vars, windowVars, usageVars, LocalType,
       BatchInv
  <1>3. \A d \in Coordinators : todo'[d] \cup claimed'[d] \subseteq todo[d] \cup claimed[d]
    BY DEF TickRaises, Goto, threadVars, runVars, vars, windowVars, usageVars, LocalType
  <1>4. \A d \in Coordinators, u \in Tasks : MayBegin(d, u)' => MayBegin(d, u)
    BY DEF TickRaises, Goto, threadVars, runVars, vars, windowVars, usageVars, LocalType,
       BatchInv, MayBegin
  <1>5. UNCHANGED <<runs, started, retries>>
    BY DEF TickRaises, Goto, threadVars, runVars, vars, windowVars, usageVars
  <1>6. IdleInv'
    <2>1. UNCHANGED <<claim, reservation, held>>
      BY DEF TickRaises, Goto, threadVars, runVars, vars, windowVars, usageVars
    <2> QED
      BY <2>1, ClaimsNotGained DEF TickRaises, Goto, threadVars, runVars, vars, windowVars,
         usageVars, LocalType, BatchInv, IdleInv, HoldsClaim
  <1> QED
    BY <1>1, <1>2, <1>3, <1>4, <1>5, <1>6, WidthShrinks, PaidShrinks

(* GraphRaises keeps the invariant. *)
LEMMA GraphRaisesKeeps ==
  ASSUME BudgetTypeOK, CoordInv, NEW c \in Coordinators, GraphRaises(c)
  PROVE  CoordInv'
  <1> USE DEF CoordInv
  <1>1. LocalType'
    BY FaultAssumption DEF GraphRaises, Goto, threadVars, runVars, vars, windowVars,
       usageVars, LocalType, Branches
  <1>2. BatchInv'
    BY DEF GraphRaises, Goto, threadVars, runVars, vars, windowVars, usageVars, LocalType,
       BatchInv
  <1>3. \A d \in Coordinators : todo'[d] \cup claimed'[d] \subseteq todo[d] \cup claimed[d]
    BY DEF GraphRaises, Goto, threadVars, runVars, vars, windowVars, usageVars, LocalType
  <1>4. \A d \in Coordinators, u \in Tasks : MayBegin(d, u)' => MayBegin(d, u)
    BY DEF GraphRaises, Goto, threadVars, runVars, vars, windowVars, usageVars, LocalType,
       BatchInv, MayBegin
  <1>5. UNCHANGED <<runs, started, retries>>
    BY DEF GraphRaises, Goto, threadVars, runVars, vars, windowVars, usageVars
  <1>6. IdleInv'
    <2>1. UNCHANGED <<claim, reservation, held>>
      BY DEF GraphRaises, Goto, threadVars, runVars, vars, windowVars, usageVars
    <2> QED
      BY <2>1, ClaimsNotGained DEF GraphRaises, Goto, threadVars, runVars, vars, windowVars,
         usageVars, LocalType, BatchInv, IdleInv, HoldsClaim
  <1> QED
    BY <1>1, <1>2, <1>3, <1>4, <1>5, <1>6, WidthShrinks, PaidShrinks

(* HostDies keeps the invariant. *)
LEMMA HostDiesKeeps ==
  ASSUME BudgetTypeOK, CoordInv, NEW c \in Coordinators, HostDies(c)
  PROVE  CoordInv'
  <1> USE DEF CoordInv
  <1>1. LocalType'
    BY FaultAssumption DEF HostDies, Goto, threadVars, runVars, vars, windowVars, usageVars,
       LocalType, Branches
  <1>2. BatchInv'
    BY DEF HostDies, Goto, threadVars, runVars, vars, windowVars, usageVars, LocalType, BatchInv
  <1>3. \A d \in Coordinators : todo'[d] \cup claimed'[d] \subseteq todo[d] \cup claimed[d]
    BY DEF HostDies, Goto, threadVars, runVars, vars, windowVars, usageVars, LocalType
  <1>4. \A d \in Coordinators, u \in Tasks : MayBegin(d, u)' => MayBegin(d, u)
    BY DEF HostDies, Goto, threadVars, runVars, vars, windowVars, usageVars, LocalType,
       BatchInv, MayBegin
  <1>5. UNCHANGED <<runs, started, retries>>
    BY DEF HostDies, Goto, threadVars, runVars, vars, windowVars, usageVars
  <1>6. IdleInv'
    <2>1. UNCHANGED <<claim, reservation, held>>
      BY DEF HostDies, Goto, threadVars, runVars, vars, windowVars, usageVars
    <2> QED
      BY <2>1, ClaimsNotGained DEF HostDies, Goto, threadVars, runVars, vars, windowVars,
         usageVars, LocalType, BatchInv, IdleInv, HoldsClaim
  <1> QED
    BY <1>1, <1>2, <1>3, <1>4, <1>5, <1>6, WidthShrinks, PaidShrinks

(* Poll begins a tick with an empty batch and a list within the limit. *)
LEMMA PollKeeps ==
  ASSUME BudgetTypeOK, CoordInv, NEW c \in Coordinators, Poll(c)
  PROVE  CoordInv'
  <1> USE DEF CoordInv
  <1>1. LocalType'
    <2>1. Listed \in SUBSET Tasks
      BY DEF Listed, Candidates
    <2>2. \/ pc' = [pc EXCEPT ![c] = "off"] \/ pc' = [pc EXCEPT ![c] = "each"]
          \/ pc' = [pc EXCEPT ![c] = "poll"]
      BY DEF Poll, Goto
    <2>3. todo' = todo \/ todo' = [todo EXCEPT ![c] = Listed] \/ todo' = [todo EXCEPT ![c] = {}]
      BY DEF Poll
    <2> QED
      BY <2>1, <2>2, <2>3 DEF Poll, runVars, LocalType
  <1>2. BatchInv'
    BY DEF Poll, Listed, Candidates, Goto, threadVars, runVars, vars, windowVars, usageVars,
       ReadWindow, LocalType, BatchInv
  <1>3. WidthInv'
    <2> SUFFICES ASSUME NEW d \in Coordinators
                 PROVE  Cardinality(todo'[d] \cup claimed'[d]) <= MaxConcurrent
      BY DEF WidthInv
    <2>1. CASE todo'[d] \cup claimed'[d] = todo[d] \cup claimed[d]
      BY <2>1 DEF WidthInv
    <2>2. CASE todo'[d] \cup claimed'[d] = Listed
      BY <2>2, ListedIsShort
    <2>3. CASE todo'[d] \cup claimed'[d] = {}
      BY <2>3, FS_EmptySet, LimitAssumption
    <2>4. claimed' = claimed /\ pc[c] = "poll" /\ claimed[c] = {}
      BY DEF Poll, BatchInv
    <2>5. todo' = todo \/ todo' = [todo EXCEPT ![c] = Listed] \/ todo' = [todo EXCEPT ![c] = {}]
      BY DEF Poll
    <2> QED
      BY <2>1, <2>2, <2>3, <2>4, <2>5 DEF LocalType
  <1>4. \A d \in Coordinators, u \in Tasks : MayBegin(d, u)' => MayBegin(d, u)
    BY DEF Poll, Listed, Candidates, Goto, threadVars, runVars, vars, windowVars, usageVars,
       ReadWindow, LocalType, BatchInv, MayBegin
  <1>5. UNCHANGED <<runs, started, retries>>
    BY DEF Poll, Listed, Candidates, Goto, threadVars, runVars, vars, windowVars, usageVars,
       ReadWindow
  <1>6. IdleInv'
    <2>1. UNCHANGED <<claim, reservation, held>>
      BY DEF Poll, Listed, Candidates, Goto, threadVars, runVars, vars, windowVars, usageVars,
         ReadWindow
    <2> QED
      <3>1. /\ UNCHANGED <<claimed, branch, faults>> /\ pc[c] = "poll"
            /\ \A d \in Coordinators : d # c => pc'[d] = pc[d]
        BY DEF Poll, Goto, runVars, LocalType
      <3>2. ASSUME NEW d \in Coordinators, NEW t \in Tasks, faults = 0, HoldsClaim(d, t)'
            PROVE  d # c /\ HoldsClaim(d, t)
        BY <2>1, <3>1, <3>2, ClaimsNotGained DEF IdleInv
      <3> QED
        BY <3>1, <3>2 DEF IdleInv
  <1> QED
    BY <1>1, <1>2, <1>3, <1>4, <1>5, <1>6, PaidShrinks

(* A claim pays for one execution, and the task moves from the list to the batch. *)
LEMMA ClaimTaskKeeps ==
  ASSUME BudgetTypeOK, CoordInv, NEW c \in Coordinators, NEW t \in Tasks, ClaimTask(c, t)
  PROVE  CoordInv'
  <1> USE DEF CoordInv
  <1>0. /\ pc[c] = "claim" /\ pc' = [pc EXCEPT ![c] = "each"]
        /\ branch' = branch /\ t \in todo[c]
        /\ claimed' = [claimed EXCEPT ![c] = @ \cup {t}]
        /\ todo' = [todo EXCEPT ![c] = @ \ {t}]
        /\ UNCHANGED <<stop, runner, runs, faults>>
    <2>1. todo[c] # {} /\ t = Min(todo[c]) /\ todo[c] \in SUBSET Tasks
      BY DEF ClaimTask, Trying, LocalType
    <2>2. todo[c] \in SUBSET Nat /\ IsFiniteSet(todo[c])
      BY <2>1, OrderAssumption, TasksAssumption, FS_Subset
    <2>3. t \in todo[c]
      BY <2>1, <2>2, MinIsMember
    <2> QED
      BY <2>3 DEF ClaimTask, Trying, Goto, runVars
  <1>1. LocalType'
    BY <1>0 DEF LocalType, Branches
  <1>2. BatchInv'
    BY <1>0 DEF LocalType, BatchInv
  <1>3. \A d \in Coordinators : todo'[d] \cup claimed'[d] \subseteq todo[d] \cup claimed[d]
    BY <1>0 DEF LocalType
  <1>4. PaidInv'
    <2>1. Entitled' \in SUBSET (Entitled \cup {<<c, t>>})
      BY <1>0 DEF Entitled, MayBegin, LocalType
    <2>2. IsFiniteSet(Entitled) /\ Cardinality(Entitled) \in Nat
      BY FS_CardinalityType DEF PaidInv
    <2>3. /\ IsFiniteSet(Entitled \cup {<<c, t>>})
          /\ Cardinality(Entitled \cup {<<c, t>>}) <= Cardinality(Entitled) + 1
      <3>1. \A x : /\ IsFiniteSet(Entitled \cup {x})
                   /\ Cardinality(Entitled \cup {x}) <= Cardinality(Entitled) + 1
        BY <2>2, FS_AddElement
      <3> QED
        BY <3>1
    <2>4. /\ IsFiniteSet(Entitled')
          /\ Cardinality(Entitled') <= Cardinality(Entitled \cup {<<c, t>>})
      BY <2>1, <2>3, FS_Subset
    <2>5. Cardinality(Entitled') \in Nat /\ Cardinality(Entitled \cup {<<c, t>>}) \in Nat
      BY <2>3, <2>4, FS_CardinalityType
    <2>6. runs \in Nat /\ started \in Nat /\ retries \in Nat
      BY LimitAssumption DEF BudgetTypeOK, LocalType
    <2>7. started' + retries' = started + retries + 1
      BY <2>6 DEF ClaimTask, Claim
    <2>8. runs + Cardinality(Entitled) <= started + retries
      BY DEF PaidInv
    <2>9. runs' + Cardinality(Entitled') <= started' + retries'
      BY <1>0, <2>2, <2>3, <2>4, <2>5, <2>6, <2>7, <2>8
    <2> QED
      BY <2>4, <2>9 DEF PaidInv
  <1>5. IdleInv'
    <2> SUFFICES ASSUME NEW d \in Coordinators, NEW u \in Tasks,
                        faults' = 0, HoldsClaim(d, u)'
                 PROVE  /\ u \in claimed'[d]
                        /\ pc'[d] \in {"each", "claim", "abandon", "batch"}
                        /\ pc'[d] = "batch" => branch'[d][u] \notin {"none", "done"}
      BY DEF IdleInv
    <2>1. CASE d = c /\ u = t
      BY <1>0, <2>1 DEF LocalType
    <2>2. CASE u # t
      <3>1. HoldsClaim(d, u)
        BY <2>2 DEF ClaimTask, Claim, ReserveFor, HoldsClaim, BudgetTypeOK
      <3> QED
        BY <1>0, <3>1 DEF IdleInv, LocalType
    <2>3. u = t => d = c
      BY DEF ClaimTask, Claim, HoldsClaim, BudgetTypeOK
    <2> QED
      BY <2>1, <2>2, <2>3
  <1> QED
    BY <1>1, <1>2, <1>3, <1>4, <1>5, WidthShrinks

(* A task is authorized or passed over. *)
LEMMA AuthorizeKeeps ==
  ASSUME BudgetTypeOK, CoordInv, NEW c \in Coordinators, NEW t \in Tasks, Authorize(c, t)
  PROVE  CoordInv'
  <1> USE DEF CoordInv
  <1>1. LocalType'
    <2>1. pc' = pc \/ pc' = [pc EXCEPT ![c] = "claim"]
      BY DEF Authorize, Goto
    <2>2. todo' = todo \/ todo' = [todo EXCEPT ![c] = @ \ {t}]
      BY DEF Authorize
    <2>3. UNCHANGED <<stop, claimed, branch, runner, runs, faults>>
      BY DEF Authorize, runVars
    <2> QED
      BY <2>1, <2>2, <2>3 DEF LocalType
  <1>2. BatchInv'
    BY DEF Authorize, Trying, Goto, threadVars, runVars, vars, windowVars, usageVars,
       ReadWindow, LocalType, BatchInv
  <1>3. \A d \in Coordinators : todo'[d] \cup claimed'[d] \subseteq todo[d] \cup claimed[d]
    BY DEF Authorize, Trying, Goto, threadVars, runVars, vars, windowVars, usageVars,
       ReadWindow, LocalType
  <1>4. \A d \in Coordinators, u \in Tasks : MayBegin(d, u)' => MayBegin(d, u)
    BY DEF Authorize, Trying, Goto, threadVars, runVars, vars, windowVars, usageVars,
       ReadWindow, LocalType, BatchInv, MayBegin
  <1>5. UNCHANGED <<runs, started, retries>>
    BY DEF Authorize, Trying, Goto, threadVars, runVars, vars, windowVars, usageVars,
       ReadWindow
  <1>6. IdleInv'
    <2>1. UNCHANGED <<claim, reservation, held>>
      BY DEF Authorize, Trying, Goto, threadVars, runVars, vars, windowVars, usageVars,
         ReadWindow
    <2> QED
      BY <2>1, ClaimsNotGained DEF Authorize, Trying, Goto, threadVars, runVars, vars,
         windowVars, usageVars, ReadWindow, LocalType, BatchInv, IdleInv
  <1> QED
    BY <1>1, <1>2, <1>3, <1>4, <1>5, <1>6, WidthShrinks, PaidShrinks

(* A refused claim shortens the list. *)
LEMMA ClaimRefusedKeeps ==
  ASSUME BudgetTypeOK, CoordInv, NEW c \in Coordinators, NEW t \in Tasks, ClaimRefused(c, t)
  PROVE  CoordInv'
  <1> USE DEF CoordInv
  <1>1. LocalType'
    BY DEF ClaimRefused, Trying, Goto, threadVars, runVars, vars, windowVars, usageVars,
       LocalType, Branches
  <1>2. BatchInv'
    BY DEF ClaimRefused, Trying, Goto, threadVars, runVars, vars, windowVars, usageVars,
       LocalType, BatchInv
  <1>3. \A d \in Coordinators : todo'[d] \cup claimed'[d] \subseteq todo[d] \cup claimed[d]
    BY DEF ClaimRefused, Trying, Goto, threadVars, runVars, vars, windowVars, usageVars,
       LocalType
  <1>4. \A d \in Coordinators, u \in Tasks : MayBegin(d, u)' => MayBegin(d, u)
    BY DEF ClaimRefused, Trying, Goto, threadVars, runVars, vars, windowVars, usageVars,
       LocalType, BatchInv, MayBegin
  <1>5. UNCHANGED <<runs, started, retries>>
    BY DEF ClaimRefused, Trying, Goto, threadVars, runVars, vars, windowVars, usageVars
  <1>6. IdleInv'
    <2>1. UNCHANGED <<claim, reservation, held>>
      BY DEF ClaimRefused, Trying, Goto, threadVars, runVars, vars, windowVars, usageVars
    <2> QED
      BY <2>1, ClaimsNotGained DEF ClaimRefused, Trying, Goto, threadVars, runVars, vars,
         windowVars, usageVars, LocalType, BatchInv, IdleInv
  <1> QED
    BY <1>1, <1>2, <1>3, <1>4, <1>5, <1>6, WidthShrinks, PaidShrinks

(* Abandoning a claim gives it up. *)
LEMMA AbandonKeeps ==
  ASSUME BudgetTypeOK, CoordInv, NEW c \in Coordinators, Abandon(c)
  PROVE  CoordInv'
  <1> USE DEF CoordInv
  <1>0. PICK t \in Tasks : Release(c, t, "FAILED")
    BY DEF Abandon, LocalType
  <1>r. Lose(c, t) \/ \E s \in {"COMPLETE", "FAILED"} : Finalize(c, t, s)
    BY <1>0 DEF Release
  <1>1. LocalType'
    BY DEF Abandon, Goto, threadVars, runVars, vars, windowVars, usageVars, LocalType, Branches
  <1>2. BatchInv'
    BY DEF Abandon, Goto, threadVars, runVars, vars, windowVars, usageVars, LocalType, BatchInv
  <1>3. \A d \in Coordinators : todo'[d] \cup claimed'[d] \subseteq todo[d] \cup claimed[d]
    BY DEF Abandon, Goto, threadVars, runVars, vars, windowVars, usageVars, LocalType
  <1>4. \A d \in Coordinators, u \in Tasks : MayBegin(d, u)' => MayBegin(d, u)
    BY DEF Abandon, Goto, threadVars, runVars, vars, windowVars, usageVars, LocalType,
       BatchInv, MayBegin
  <1>5. UNCHANGED <<runs, started, retries>>
    BY <1>r DEF Abandon, runVars, Lose, Finalize, windowVars
  <1>6. IdleInv'
    BY <1>r, ReleaseGivesUp DEF Abandon, threadVars, runVars, IdleInv
  <1> QED
    BY <1>1, <1>2, <1>3, <1>4, <1>5, <1>6, WidthShrinks, PaidShrinks

(* An execution that begins uses up its entitlement. *)
LEMMA BeginRunKeeps ==
  ASSUME BudgetTypeOK, CoordInv, NEW c \in Coordinators, NEW t \in Tasks, BeginRun(c, t)
  PROVE  CoordInv'
  <1> USE DEF CoordInv
  <1>0. /\ branch[c][t] = "start"
        /\ BranchTo(c, t, "running") \/ BranchTo(c, t, "abandon")
        /\ UNCHANGED <<stop, pc, todo, claimed, faults>>
    BY DEF BeginRun, threadVars
  <1>b. /\ branch' \in [Coordinators -> [Tasks -> Branches]]
        /\ \A d \in Coordinators, u \in Tasks :
              IF d = c /\ u = t THEN branch'[d][u] \in {"running", "abandon"}
                                ELSE branch'[d][u] = branch[d][u]
    BY <1>0, BranchMoves DEF Branches
  <1>f. runner' \in [Tasks -> Coordinators \cup {NoOne}] /\ runs' \in {runs, runs + 1}
    BY DEF BeginRun, LocalType
  <1>1. LocalType'
    <2>1. runs' \in Nat
      BY <1>f DEF LocalType
    <2> QED
      BY <1>0, <1>b, <1>f, <2>1 DEF LocalType
  <1>2. BatchInv'
    BY <1>0, <1>b DEF BatchInv
  <1>3. \A d \in Coordinators : todo'[d] \cup claimed'[d] \subseteq todo[d] \cup claimed[d]
    BY <1>0
  <1>4. PaidInv'
    <2>1. <<c, t>> \in Entitled
      BY DEF BeginRun, Entitled, MayBegin
    <2>2. Entitled' \in SUBSET (Entitled \ {<<c, t>>})
      <3>1. \A d \in Coordinators, u \in Tasks : MayBegin(d, u)' => MayBegin(d, u)
        BY <1>0, <1>b DEF MayBegin
      <3>2. ~MayBegin(c, t)'
        BY <1>0, <1>b DEF MayBegin, BatchInv
      <3> QED
        BY <3>1, <3>2 DEF Entitled
    <2>3. IsFiniteSet(Entitled) /\ Cardinality(Entitled) \in Nat
      BY FS_CardinalityType DEF PaidInv
    <2>4. /\ IsFiniteSet(Entitled \ {<<c, t>>})
          /\ Cardinality(Entitled \ {<<c, t>>}) = Cardinality(Entitled) - 1
      BY <2>1, <2>3, FS_RemoveElement
    <2>5. /\ IsFiniteSet(Entitled')
          /\ Cardinality(Entitled') <= Cardinality(Entitled \ {<<c, t>>})
      BY <2>2, <2>4, FS_Subset
    <2>6. Cardinality(Entitled') \in Nat
      BY <2>5, FS_CardinalityType
    <2>7. runs \in Nat /\ started \in Nat /\ retries \in Nat
      BY LimitAssumption DEF BudgetTypeOK, LocalType
    <2>8. runs' \in {runs, runs + 1} /\ started' = started /\ retries' = retries
      BY DEF BeginRun, windowVars
    <2>9. runs + Cardinality(Entitled) <= started + retries
      BY DEF PaidInv
    <2>10. runs' + Cardinality(Entitled') <= started' + retries'
      BY <2>3, <2>4, <2>5, <2>6, <2>7, <2>8, <2>9
    <2> QED
      BY <2>5, <2>10 DEF PaidInv
  <1>5. IdleInv'
    <2>1. \A d \in Coordinators, u \in Tasks : HoldsClaim(d, u)' = HoldsClaim(d, u)
      BY ClaimsNotGained DEF BeginRun
    <2> QED
      BY <1>0, <1>b, <2>1 DEF IdleInv
  <1> QED
    BY <1>1, <1>2, <1>3, <1>4, <1>5, WidthShrinks

(* An execution that ends leaves its branch to be settled. *)
LEMMA EndRunKeeps ==
  ASSUME BudgetTypeOK, CoordInv, NEW c \in Coordinators, NEW t \in Tasks, EndRun(c, t)
  PROVE  CoordInv'
  <1> USE DEF CoordInv
  <1>1. LocalType'
    BY DEF EndRun, BranchTo, threadVars, runVars, vars, windowVars, LocalType, Branches
  <1>2. BatchInv'
    BY DEF EndRun, BranchTo, threadVars, runVars, vars, windowVars, LocalType, BatchInv
  <1>3. \A d \in Coordinators : todo'[d] \cup claimed'[d] \subseteq todo[d] \cup claimed[d]
    BY DEF EndRun, BranchTo, threadVars, runVars, vars, windowVars, LocalType
  <1>4. \A d \in Coordinators, u \in Tasks : MayBegin(d, u)' => MayBegin(d, u)
    BY DEF EndRun, BranchTo, threadVars, runVars, vars, windowVars, LocalType, BatchInv,
       MayBegin
  <1>5. UNCHANGED <<runs, started, retries>>
    BY DEF EndRun, BranchTo, threadVars, runVars, vars, windowVars
  <1>6. IdleInv'
    <2>1. UNCHANGED <<claim, reservation, held>>
      BY DEF EndRun, BranchTo, threadVars, runVars, vars, windowVars
    <2> QED
      BY <2>1, ClaimsNotGained DEF EndRun, BranchTo, threadVars, runVars, vars, windowVars,
         LocalType, BatchInv, IdleInv
  <1> QED
    BY <1>1, <1>2, <1>3, <1>4, <1>5, <1>6, WidthShrinks, PaidShrinks

(* A branch that is done has given its claim up. *)
LEMMA SettleBranchKeeps ==
  ASSUME BudgetTypeOK, CoordInv, NEW c \in Coordinators, NEW t \in Tasks, SettleBranch(c, t)
  PROVE  CoordInv'
  <1> USE DEF CoordInv
  <1>r. \/ UNCHANGED vars /\ branch[c][t] = "complete" /\ BranchTo(c, t, "abandon") /\ ~HoldsClaim(c, t)
        \/ /\ branch[c][t] \in {"complete", "abandon"} /\ BranchTo(c, t, "done")
           /\ Lose(c, t) \/ \E s \in {"COMPLETE", "FAILED"} : Finalize(c, t, s)
    BY DEF SettleBranch, Release
  <1>s. UNCHANGED <<threadVars, runner, runs, faults>>
    BY DEF SettleBranch
  <1>b. /\ branch' \in [Coordinators -> [Tasks -> Branches]]
        /\ \A d \in Coordinators, u \in Tasks :
              IF d = c /\ u = t THEN branch'[d][u] \in {"abandon", "done"}
                                ELSE branch'[d][u] = branch[d][u]
    BY <1>r, BranchMoves DEF Branches
  <1>1. LocalType'
    BY <1>b, <1>s DEF threadVars, LocalType
  <1>2. BatchInv'
    BY <1>b, <1>r, <1>s DEF threadVars, BatchInv
  <1>3. \A d \in Coordinators : todo'[d] \cup claimed'[d] \subseteq todo[d] \cup claimed[d]
    BY <1>s DEF threadVars
  <1>4. \A d \in Coordinators, u \in Tasks : MayBegin(d, u)' => MayBegin(d, u)
    BY <1>b, <1>s DEF threadVars, MayBegin
  <1>5. UNCHANGED <<runs, started, retries>>
    BY <1>r, <1>s DEF vars, Lose, Finalize, windowVars
  <1>6. IdleInv'
    <2>1. \A d \in Coordinators, u \in Tasks : HoldsClaim(d, u)' => HoldsClaim(d, u)
      BY <1>r, ReleaseGivesUp, ClaimsNotGained DEF vars
    <2>2. ~HoldsClaim(c, t)'
      BY <1>r, ReleaseGivesUp, ClaimsNotGained DEF vars
    <2>3. \A d \in Coordinators, u \in Tasks : <<d, u>> # <<c, t>> => branch'[d][u] = branch[d][u]
      BY <1>b
    <2> QED
      BY <1>s, <2>1, <2>2, <2>3 DEF threadVars, IdleInv
  <1> QED
    BY <1>1, <1>2, <1>3, <1>4, <1>5, <1>6, WidthShrinks, PaidShrinks

(* A settlement that raises is a fault; claims may then be left behind. *)
LEMMA SettleRaisesKeeps ==
  ASSUME BudgetTypeOK, CoordInv, NEW c \in Coordinators, NEW t \in Tasks, SettleRaises(c, t)
  PROVE  CoordInv'
  <1> USE DEF CoordInv
  <1>1. LocalType'
    BY FaultAssumption DEF SettleRaises, BranchTo, threadVars, runVars, vars, windowVars,
       LocalType, Branches
  <1>2. BatchInv'
    BY DEF SettleRaises, BranchTo, threadVars, runVars, vars, windowVars, LocalType, BatchInv
  <1>3. \A d \in Coordinators : todo'[d] \cup claimed'[d] \subseteq todo[d] \cup claimed[d]
    BY DEF SettleRaises, BranchTo, threadVars, runVars, vars, windowVars, LocalType
  <1>4. \A d \in Coordinators, u \in Tasks : MayBegin(d, u)' => MayBegin(d, u)
    BY DEF SettleRaises, BranchTo, threadVars, runVars, vars, windowVars, LocalType, BatchInv,
       MayBegin
  <1>5. UNCHANGED <<runs, started, retries>>
    BY DEF SettleRaises, BranchTo, threadVars, runVars, vars, windowVars
  <1>6. IdleInv'
    <2>1. UNCHANGED <<claim, reservation, held>>
      BY DEF SettleRaises, BranchTo, threadVars, runVars, vars, windowVars
    <2> QED
      BY <2>1, ClaimsNotGained DEF SettleRaises, BranchTo, threadVars, runVars, vars,
         windowVars, LocalType, BatchInv, IdleInv
  <1> QED
    BY <1>1, <1>2, <1>3, <1>4, <1>5, <1>6, WidthShrinks, PaidShrinks

(* A reconciliation moves a task and no claim. *)
LEMMA ReconcileKeeps ==
  ASSUME BudgetTypeOK, CoordInv, NEW c \in Coordinators, NEW t \in Tasks, Reconcile(c, t)
  PROVE  CoordInv'
  <1> USE DEF CoordInv
  <1>1. LocalType'
    BY DEF Reconcile, BranchTo, threadVars, runVars, vars, windowVars, LocalType, Branches
  <1>2. BatchInv'
    BY DEF Reconcile, BranchTo, threadVars, runVars, vars, windowVars, LocalType, BatchInv
  <1>3. \A d \in Coordinators : todo'[d] \cup claimed'[d] \subseteq todo[d] \cup claimed[d]
    BY DEF Reconcile, BranchTo, threadVars, runVars, vars, windowVars, LocalType
  <1>4. \A d \in Coordinators, u \in Tasks : MayBegin(d, u)' => MayBegin(d, u)
    BY DEF Reconcile, BranchTo, threadVars, runVars, vars, windowVars, LocalType, BatchInv,
       MayBegin
  <1>5. UNCHANGED <<runs, started, retries>>
    BY DEF Reconcile, BranchTo, threadVars, runVars, vars, windowVars
  <1>6. IdleInv'
    <2>1. UNCHANGED <<claim, reservation, held>>
      BY DEF Reconcile, BranchTo, threadVars, runVars, vars, windowVars
    <2> QED
      BY <2>1, ClaimsNotGained DEF Reconcile, BranchTo, threadVars, runVars, vars, windowVars,
         LocalType, BatchInv, IdleInv
  <1> QED
    BY <1>1, <1>2, <1>3, <1>4, <1>5, <1>6, WidthShrinks, PaidShrinks

(* So does the owner. *)
LEMMA OwnerRunsKeeps ==
  ASSUME BudgetTypeOK, CoordInv, NEW t \in Tasks, OwnerRuns(t)
  PROVE  CoordInv'
  <1> USE DEF CoordInv
  <1>1. LocalType'
    BY DEF OwnerRuns, Settles, BranchTo, threadVars, runVars, vars, windowVars, LocalType, Branches
  <1>2. BatchInv'
    BY DEF OwnerRuns, Settles, BranchTo, threadVars, runVars, vars, windowVars, LocalType, BatchInv
  <1>3. \A d \in Coordinators : todo'[d] \cup claimed'[d] \subseteq todo[d] \cup claimed[d]
    BY DEF OwnerRuns, Settles, BranchTo, threadVars, runVars, vars, windowVars, LocalType
  <1>4. \A d \in Coordinators, u \in Tasks : MayBegin(d, u)' => MayBegin(d, u)
    BY DEF OwnerRuns, Settles, BranchTo, threadVars, runVars, vars, windowVars, LocalType, BatchInv,
       MayBegin
  <1>5. UNCHANGED <<runs, started, retries>>
    BY DEF OwnerRuns, Settles, BranchTo, threadVars, runVars, vars, windowVars
  <1>6. IdleInv'
    <2>1. UNCHANGED <<claim, reservation, held>>
      BY DEF OwnerRuns, Settles, BranchTo, threadVars, runVars, vars, windowVars
    <2> QED
      BY <2>1, ClaimsNotGained DEF OwnerRuns, BranchTo, threadVars, runVars, vars, windowVars,
         LocalType, BatchInv, IdleInv
  <1> QED
    BY <1>1, <1>2, <1>3, <1>4, <1>5, <1>6, WidthShrinks, PaidShrinks

(* A client that reads a goal touches no tick. *)
LEMMA ClientReadsKeeps ==
  ASSUME BudgetTypeOK, CoordInv, NEW g \in Goals, ClientReads(g)
  PROVE  CoordInv'
  <1> USE DEF CoordInv
  <1>1. LocalType'
    BY DEF ClientReads, BranchTo, threadVars, runVars, vars, windowVars, LocalType, Branches
  <1>2. BatchInv'
    BY DEF ClientReads, BranchTo, threadVars, runVars, vars, windowVars, LocalType, BatchInv
  <1>3. \A d \in Coordinators : todo'[d] \cup claimed'[d] \subseteq todo[d] \cup claimed[d]
    BY DEF ClientReads, BranchTo, threadVars, runVars, vars, windowVars, LocalType
  <1>4. \A d \in Coordinators, u \in Tasks : MayBegin(d, u)' => MayBegin(d, u)
    BY DEF ClientReads, BranchTo, threadVars, runVars, vars, windowVars, LocalType, BatchInv,
       MayBegin
  <1>5. UNCHANGED <<runs, started, retries>>
    BY DEF ClientReads, BranchTo, threadVars, runVars, vars, windowVars
  <1>6. IdleInv'
    <2>1. UNCHANGED <<claim, reservation, held>>
      BY DEF ClientReads, BranchTo, threadVars, runVars, vars, windowVars
    <2> QED
      BY <2>1, ClaimsNotGained DEF ClientReads, BranchTo, threadVars, runVars, vars, windowVars,
         LocalType, BatchInv, IdleInv
  <1> QED
    BY <1>1, <1>2, <1>3, <1>4, <1>5, <1>6, WidthShrinks, PaidShrinks

(* A step of neither changes nothing. *)
LEMMA StutterKeeps ==
  ASSUME BudgetTypeOK, CoordInv, UNCHANGED coordVars
  PROVE  CoordInv'
  <1> USE DEF CoordInv
  <1>1. LocalType'
    BY DEF coordVars, BranchTo, threadVars, runVars, vars, windowVars, LocalType, Branches
  <1>2. BatchInv'
    BY DEF coordVars, BranchTo, threadVars, runVars, vars, windowVars, LocalType, BatchInv
  <1>3. \A d \in Coordinators : todo'[d] \cup claimed'[d] \subseteq todo[d] \cup claimed[d]
    BY DEF coordVars, BranchTo, threadVars, runVars, vars, windowVars, LocalType
  <1>4. \A d \in Coordinators, u \in Tasks : MayBegin(d, u)' => MayBegin(d, u)
    BY DEF coordVars, BranchTo, threadVars, runVars, vars, windowVars, LocalType, BatchInv,
       MayBegin
  <1>5. UNCHANGED <<runs, started, retries>>
    BY DEF coordVars, BranchTo, threadVars, runVars, vars, windowVars
  <1>6. IdleInv'
    <2>1. UNCHANGED <<claim, reservation, held>>
      BY DEF coordVars, BranchTo, threadVars, runVars, vars, windowVars
    <2> QED
      BY <2>1, ClaimsNotGained DEF coordVars, BranchTo, threadVars, runVars, vars, windowVars,
         LocalType, BatchInv, IdleInv
  <1> QED
    BY <1>1, <1>2, <1>3, <1>4, <1>5, <1>6, WidthShrinks, PaidShrinks

(* The clock and the owner's stop change no claim's owner or epoch. *)
LEMMA SurroundingsKeep ==
  ASSUME BudgetTypeOK, CoordInv, Surroundings
  PROVE  CoordInv'
  <1> USE DEF CoordInv
  <1>1. LocalType'
    BY DEF Surroundings, BranchTo, threadVars, runVars, vars, windowVars, LocalType, Branches
  <1>2. BatchInv'
    BY DEF Surroundings, BranchTo, threadVars, runVars, vars, windowVars, LocalType, BatchInv
  <1>3. \A d \in Coordinators : todo'[d] \cup claimed'[d] \subseteq todo[d] \cup claimed[d]
    BY DEF Surroundings, BranchTo, threadVars, runVars, vars, windowVars, LocalType
  <1>4. \A d \in Coordinators, u \in Tasks : MayBegin(d, u)' => MayBegin(d, u)
    BY DEF Surroundings, BranchTo, threadVars, runVars, vars, windowVars, LocalType, BatchInv,
       MayBegin
  <1>5. UNCHANGED <<runs, started, retries>>
    BY DEF Surroundings, WindowTimeout, StopWindow, ClaimTimeout, windowVars, runVars
  <1>6. IdleInv'
    <2>1. \A d \in Coordinators, u \in Tasks : HoldsClaim(d, u)' => HoldsClaim(d, u)
      BY DEF Surroundings, WindowTimeout, StopWindow, ClaimTimeout, HoldsClaim, BudgetTypeOK
    <2> QED
      BY <2>1 DEF Surroundings, threadVars, runVars, IdleInv
  <1> QED
    BY <1>1, <1>2, <1>3, <1>4, <1>5, <1>6, WidthShrinks, PaidShrinks

-----------------------------------------------------------------------------
(* The coordinators start with nothing listed, claimed or begun. *)
LEMMA CoordInvInit == CoordInit => CoordInv
  <1> SUFFICES ASSUME CoordInit PROVE CoordInv
    OBVIOUS
  <1>1. LocalType /\ BatchInv
    BY FaultAssumption DEF CoordInit, LocalType, BatchInv, Branches
  <1>2. WidthInv
    <2>1. \A c \in Coordinators : todo[c] \cup claimed[c] = {}
      BY DEF CoordInit
    <2> QED
      BY <2>1, FS_EmptySet, LimitAssumption DEF WidthInv
  <1>3. PaidInv
    <2>1. Entitled = {}
      BY DEF CoordInit, Entitled, MayBegin
    <2> QED
      BY <2>1, FS_EmptySet DEF CoordInit, Init, PaidInv
  <1>4. IdleInv
    BY DEF CoordInit, Init, IdleInv, HoldsClaim
  <1> QED
    BY <1>1, <1>2, <1>3, <1>4 DEF CoordInv

(* Every step keeps the invariant, given the budget's types. *)
LEMMA CoordInvStep ==
  ASSUME BudgetTypeOK, CoordInv, [CoordNext]_coordVars
  PROVE  CoordInv'
  <1>1. CASE UNCHANGED coordVars
    BY <1>1, StutterKeeps
  <1>2. ASSUME NEW c \in Coordinators, ThreadStep(c) PROVE CoordInv'
    BY <1>2, PollKeeps, AuthorizeKeeps, ClaimTaskKeeps, ClaimRefusedKeeps, BeginKeeps,
       AbandonKeeps, FinishTickKeeps
       DEF ThreadStep
  <1>3. ASSUME NEW c \in Coordinators, NEW t \in Tasks,
               Reconcile(c, t) \/ BranchStep(c, t) \/ SettleRaises(c, t)
        PROVE  CoordInv'
    BY <1>3, ReconcileKeeps, BeginRunKeeps, EndRunKeeps, SettleBranchKeeps, SettleRaisesKeeps
       DEF BranchStep
  <1>4. ASSUME NEW c \in Coordinators,
               Start(c) \/ Stop(c) \/ TickRaises(c) \/ GraphRaises(c) \/ HostDies(c)
        PROVE  CoordInv'
    BY <1>4, StartKeeps, StopKeeps, TickRaisesKeeps, GraphRaisesKeeps, HostDiesKeeps
  <1>5. ASSUME NEW t \in Tasks, OwnerRuns(t) PROVE CoordInv'
    BY <1>5, OwnerRunsKeeps
  <1>6. ASSUME NEW g \in Goals, ClientReads(g) PROVE CoordInv'
    BY <1>6, ClientReadsKeeps
  <1>7. CASE Surroundings
    BY <1>7, SurroundingsKeep
  <1> QED
    BY <1>1, <1>2, <1>3, <1>4, <1>5, <1>6, <1>7, GoalAssumption DEF CoordNext

-----------------------------------------------------------------------------
(* Reading the active window is a step of the budget, or none. *)
LEMMA ReadIsBudgetStep == ReadWindow => [Next]_vars
  <1> SUFFICES ASSUME ReadWindow PROVE [Next]_vars
    OBVIOUS
  <1>1. CASE window = "ACTIVE" /\ timeUp
    BY <1>1 DEF ReadWindow, Next, ExpireWindow
  <1>2. CASE ~(window = "ACTIVE" /\ timeUp)
    BY <1>2 DEF ReadWindow, vars, windowVars, usageVars
  <1> QED
    BY <1>1, <1>2

(* A task that moves as a durable run moves it is a step of the environment. *)
LEMMA MoveIsBudgetStep ==
  ASSUME NEW t \in Tasks, NEW s \in {"LIVE", "INTERRUPTED", "SETTLED"},
         \/ task[t] \in Claimable /\ s \in {"LIVE", "SETTLED"}
         \/ task[t] = "LIVE" /\ s \in {"INTERRUPTED", "SETTLED"},
         task' = [task EXCEPT ![t] = s],
         UNCHANGED <<windowVars, claim, reservation, usageVars, held>>
  PROVE  Next
  BY DEF Next, TaskMoves

(* Settling a claim, or learning that it was lost, is a step of the budget. *)
LEMMA ReleaseIsBudgetStep ==
  ASSUME NEW c \in Coordinators, NEW t \in Tasks, Release(c, t, "FAILED")
  PROVE  Next
  BY DEF Release, Next

(* Every step of a coordinator is a step of the budget, or leaves it alone. *)
LEMMA CoordStepImplements ==
  ASSUME LocalType, [CoordNext]_coordVars
  PROVE  [Next]_vars
  <1>1. CASE UNCHANGED coordVars
    BY <1>1 DEF coordVars
  <1>2. ASSUME NEW c \in Coordinators,
               Start(c) \/ Stop(c) \/ TickRaises(c) \/ GraphRaises(c) \/ HostDies(c)
        PROVE  [Next]_vars
    BY <1>2 DEF Start, Stop, TickRaises, GraphRaises, HostDies
  <1>3. ASSUME NEW c \in Coordinators, ThreadStep(c) PROVE [Next]_vars
    <2>1. CASE Poll(c)
      BY <2>1, ReadIsBudgetStep DEF Poll
    <2>2. ASSUME NEW t \in Tasks, ClaimTask(c, t) PROVE [Next]_vars
      BY <2>2 DEF ClaimTask, Next
    <2>3. ASSUME NEW t \in Tasks, Authorize(c, t) \/ ClaimRefused(c, t) PROVE [Next]_vars
      BY <2>3, ReadIsBudgetStep DEF Authorize, ClaimRefused
    <2>4. CASE Begin(c) \/ FinishTick(c)
      BY <2>4 DEF Begin, FinishTick
    <2>5. CASE Abandon(c)
      <3>1. PICK t \in Tasks : Release(c, t, "FAILED")
        BY <2>5 DEF Abandon, LocalType
      <3> QED
        BY <3>1, ReleaseIsBudgetStep
    <2> QED
      BY <1>3, <2>1, <2>2, <2>3, <2>4, <2>5 DEF ThreadStep
  <1>4. ASSUME NEW c \in Coordinators, NEW t \in Tasks,
               Reconcile(c, t) \/ BranchStep(c, t) \/ SettleRaises(c, t)
        PROVE  [Next]_vars
    <2>1. CASE Reconcile(c, t)
      BY <2>1, MoveIsBudgetStep DEF Reconcile
    <2>2. CASE BeginRun(c, t)
      <3>1. CASE task[t] \in Claimable
        BY <2>2, <3>1, MoveIsBudgetStep DEF BeginRun
      <3>2. CASE task[t] \notin Claimable
        BY <2>2, <3>2 DEF BeginRun, vars
      <3> QED
        BY <3>1, <3>2
    <2>3. CASE EndRun(c, t)
      <3>1. CASE UNCHANGED task
        BY <2>3, <3>1 DEF EndRun, vars
      <3>2. CASE ~UNCHANGED task
        BY <2>3, <3>2, MoveIsBudgetStep DEF EndRun, Settles
      <3> QED
        BY <3>1, <3>2
    <2>4. CASE SettleBranch(c, t)
      BY <2>4, ReleaseIsBudgetStep DEF SettleBranch, Next
    <2>5. CASE SettleRaises(c, t)
      BY <2>5 DEF SettleRaises
    <2> QED
      BY <1>4, <2>1, <2>2, <2>3, <2>4, <2>5 DEF BranchStep
  <1>5. ASSUME NEW t \in Tasks, OwnerRuns(t) PROVE [Next]_vars
    BY <1>5, MoveIsBudgetStep DEF OwnerRuns, Settles
  <1>6. ASSUME NEW g \in Goals, ClientReads(g) PROVE [Next]_vars
    BY <1>6 DEF ClientReads
  <1>7. CASE Surroundings
    BY <1>7 DEF Surroundings, Next
  <1> QED
    BY <1>1, <1>2, <1>3, <1>4, <1>5, <1>6, <1>7, GoalAssumption DEF CoordNext

-----------------------------------------------------------------------------
(* The budget's invariant and the coordinator's hold together: the step of the  *)
(* budget that a coordinator's step is needs its types, and the other way round. *)
THEOREM CoordinatorInvariant == CoordSpec => [](BudgetInv /\ CoordInv)
  <1>1. CoordInit => BudgetInv /\ CoordInv
    BY BudgetInitially, CoordInvInit DEF CoordInit
  <1>2. ASSUME BudgetInv, CoordInv, [CoordNext]_coordVars
        PROVE  BudgetInv' /\ CoordInv'
    <2>1. [Next]_vars
      BY <1>2, CoordStepImplements DEF CoordInv
    <2>2. BudgetInv'
      BY <1>2, <2>1, ClaimKeeps, FinalizeKeeps, ObserveKeeps, OthersKeep DEF Next
    <2>3. CoordInv'
      BY <1>2, CoordInvStep DEF BudgetInv
    <2> QED
      BY <2>2, <2>3
  <1> QED
    BY <1>1, <1>2, PTL DEF CoordSpec

(* The coordinator keeps to the admission rules: every behaviour of start,      *)
(* stop, ticks, batches and faults is one WindowBudget allows, so its budget     *)
(* theorems hold however many hosts share the store.                             *)
THEOREM CoordinatorImplementsBudget == CoordSpec => BudgetSpec
  <1>1. CoordInit => Init
    BY DEF CoordInit
  <1>2. ASSUME BudgetInv /\ CoordInv, [CoordNext]_coordVars PROVE [Next]_vars
    BY <1>2, CoordStepImplements DEF CoordInv
  <1> QED
    BY CoordinatorInvariant, <1>1, <1>2, PTL DEF CoordSpec, BudgetSpec

(* Each execution begun by a coordinator was paid for by a claim of its own. *)
THEOREM EveryExecutionIsPaid == CoordSpec => []ExecutionsArePaid
  <1>1. BudgetInv /\ CoordInv => ExecutionsArePaid
    <2> SUFFICES ASSUME BudgetInv, CoordInv PROVE ExecutionsArePaid
      OBVIOUS
    <2>1. runs + Cardinality(Entitled) <= started + retries /\ Cardinality(Entitled) \in Nat
      BY FS_CardinalityType DEF CoordInv, PaidInv
    <2>2. runs \in Nat /\ started \in Nat /\ retries \in Nat
      BY LimitAssumption DEF BudgetInv, BudgetTypeOK, CoordInv, LocalType
    <2> QED
      BY <2>1, <2>2 DEF ExecutionsArePaid
  <1> QED
    BY CoordinatorInvariant, <1>1, PTL

(* The goals' statuses, the failed tasks and the policy keep their types. *)
GoalType ==
    /\ goal \in [Goals -> {"RUNNING", "BLOCKED", "COMPLETED"}]
    /\ failed \subseteq Tasks
    /\ allows \in Policies

(* A step refreshes goals, settles a task, or leaves all of them alone. *)
LEMMA GoalTypeStep ==
  ASSUME GoalType, [CoordNext]_coordVars
  PROVE  GoalType'
  <1>1. \A g : DerivedStatus(g) \in {"RUNNING", "BLOCKED", "COMPLETED"}
    BY DEF DerivedStatus
  <1>2. ASSUME NEW gs, Refresh(gs), UNCHANGED <<failed, allows>> PROVE GoalType'
    BY <1>1, <1>2 DEF Refresh, GoalType
  <1>3. ASSUME NEW t \in Tasks, Settles(t) \/ UNCHANGED failed, UNCHANGED <<goal, allows>>
        PROVE  GoalType'
    BY <1>3 DEF Settles, GoalType
  <1>4. CASE UNCHANGED goalVars
    BY <1>4 DEF goalVars, GoalType
  <1>5. CASE UNCHANGED coordVars
    BY <1>4, <1>5 DEF coordVars
  <1>6. ASSUME NEW c \in Coordinators, ThreadStep(c) PROVE GoalType'
    BY <1>2, <1>4, <1>6
       DEF ThreadStep, Poll, Authorize, ClaimTask, ClaimRefused, Begin, Abandon, FinishTick
  <1>7. ASSUME NEW c \in Coordinators, NEW t \in Tasks,
               Reconcile(c, t) \/ BranchStep(c, t) \/ SettleRaises(c, t)
        PROVE  GoalType'
    BY <1>3, <1>4, <1>7 DEF Reconcile, BranchStep, BeginRun, EndRun, SettleBranch, SettleRaises
  <1>8. ASSUME NEW c \in Coordinators,
               Start(c) \/ Stop(c) \/ TickRaises(c) \/ GraphRaises(c) \/ HostDies(c)
        PROVE  GoalType'
    BY <1>4, <1>8 DEF Start, Stop, TickRaises, GraphRaises, HostDies
  <1>9. ASSUME NEW t \in Tasks, OwnerRuns(t) PROVE GoalType'
    BY <1>3, <1>9 DEF OwnerRuns
  <1>10. ASSUME NEW g \in Goals, ClientReads(g) PROVE GoalType'
    BY <1>2, <1>10 DEF ClientReads
  <1>11. CASE Surroundings
    BY <1>4, <1>11 DEF Surroundings
  <1> QED
    BY <1>5, <1>6, <1>7, <1>8, <1>9, <1>10, <1>11, GoalAssumption DEF CoordNext

(* The variables of the coordinator keep their types; runs stays within what    *)
(* the policy's task and retry limits pay for.                                   *)
THEOREM CoordinatorTypeCorrect == CoordSpec => []CoordTypeOK
  <1>1. BudgetInv /\ CoordInv /\ GoalType /\ ExecutionsArePaid => CoordTypeOK
    <2> SUFFICES ASSUME BudgetInv, CoordInv, GoalType, ExecutionsArePaid PROVE CoordTypeOK
      OBVIOUS
    <2>1. runs \in 0..(MaxTasks + MaxRetries)
      BY LimitAssumption
         DEF BudgetInv, BudgetTypeOK, CoordInv, LocalType, ExecutionsArePaid
    <2> QED
      BY <2>1 DEF CoordInv, LocalType, GoalType, CoordTypeOK
  <1>2. CoordInit => GoalType
    BY DEF CoordInit, GoalType
  <1>3. GoalType /\ [CoordNext]_coordVars => GoalType'
    BY GoalTypeStep
  <1> QED
    BY CoordinatorInvariant, EveryExecutionIsPaid, <1>1, <1>2, <1>3, PTL DEF CoordSpec

(* No host has more than max_concurrent_tasks branches at work, although its     *)
(* claims expire un-renewed.                                                     *)
THEOREM WorkInProgressIsBounded == CoordSpec => []WipPerHost
  <1>1. CoordInv => WipPerHost
    <2> SUFFICES ASSUME CoordInv, NEW c \in Coordinators
                 PROVE  Cardinality({t \in Tasks : branch[c][t] \notin {"none", "done"}}) <= MaxConcurrent
      BY DEF WipPerHost
    <2> DEFINE Busy == {t \in Tasks : branch[c][t] \notin {"none", "done"}}
               Work == todo[c] \cup claimed[c]
    <2>1. Busy \in SUBSET Work
      BY DEF CoordInv, BatchInv
    <2>2. Work \in SUBSET Tasks
      BY DEF CoordInv, LocalType
    <2>3. Cardinality(Work) <= MaxConcurrent
      BY DEF CoordInv, WidthInv
    <2> HIDE DEF Busy, Work
    <2>4. IsFiniteSet(Work)
      BY <2>2, TasksAssumption, FS_Subset
    <2>5. IsFiniteSet(Busy) /\ Cardinality(Busy) <= Cardinality(Work)
      BY <2>1, <2>4, FS_Subset
    <2>6. Cardinality(Busy) \in Nat /\ Cardinality(Work) \in Nat
      BY <2>4, <2>5, FS_CardinalityType
    <2>7. Cardinality(Busy) <= MaxConcurrent
      BY <2>3, <2>5, <2>6, LimitAssumption
    <2> QED
      BY <2>7 DEF Busy
  <1> QED
    BY CoordinatorInvariant, <1>1, PTL

(* A coordinator between two ticks, or stopped, holds no claim, unless a store    *)
(* call raised or a host died.                                                    *)
THEOREM IdleCoordinatorHoldsNothing == CoordSpec => []IdleHoldsNothing
  <1>1. CoordInv => IdleHoldsNothing
    BY DEF CoordInv, IdleInv, IdleHoldsNothing
  <1> QED
    BY CoordinatorInvariant, <1>1, PTL
=============================================================================
