------------------------- MODULE WindowBudgetProofs -------------------------
(***************************************************************************)
(* Proofs about WindowBudget, for every number of tasks, coordinators and   *)
(* messages and every policy.  The inductive invariant BudgetInv needs       *)
(* ClaimIsBacked to show that a finalization gives back a reservation that   *)
(* was counted, and NoLostUsage rides on the same steps.  That the observed  *)
(* usage is exact needs, beside the types, only that the usage rows are      *)
(* finitely many, and the lemmas of FiniteSums about their sum.              *)
(***************************************************************************)
EXTENDS WindowBudget, FiniteSums

BudgetInv == BudgetTypeOK /\ ClaimIsBacked /\ NeverOvercommitted /\ NoLostUsage

(* The reserved tasks are finitely many, so their number is a natural. *)
LEMMA ReservedFinite == IsFiniteSet(Reserved) /\ Cardinality(Reserved) \in Nat
  <1>1. Reserved \subseteq Tasks
    BY DEF Reserved
  <1> QED
    BY <1>1, TasksAssumption, FS_Subset, FS_CardinalityType

(* Reserving for one more task adds one to the count; for a reserved one, none. *)
LEMMA ReservedAfterClaim ==
  ASSUME NEW t \in Tasks, NEW e \in Nat \ {0},
         reservation \in [Tasks -> Nat],
         reservation' = [reservation EXCEPT ![t] = e]
  PROVE  /\ reservation[t] = 0 => Cardinality(Reserved') = Cardinality(Reserved) + 1
         /\ reservation[t] # 0 => Reserved' = Reserved
  <1>1. Reserved' = Reserved \cup {t}
    BY DEF Reserved
  <1>2. CASE reservation[t] = 0
    <2>1. t \notin Reserved
      BY <1>2 DEF Reserved
    <2> QED
      BY <1>1, <1>2, <2>1, ReservedFinite, FS_AddElement
  <1>3. CASE reservation[t] # 0
    BY <1>1, <1>3 DEF Reserved
  <1> QED
    BY <1>2, <1>3

(* Giving a reservation back takes one from the count. *)
LEMMA ReservedAfterFinalize ==
  ASSUME NEW t \in Tasks,
         reservation \in [Tasks -> Nat],
         reservation[t] # 0,
         reservation' = [reservation EXCEPT ![t] = 0]
  PROVE  Cardinality(Reserved') = Cardinality(Reserved) - 1
  <1>1. Reserved' = Reserved \ {t} /\ t \in Reserved
    BY DEF Reserved
  <1> QED
    BY <1>1, ReservedFinite, FS_RemoveElement

-----------------------------------------------------------------------------
(* The activated window satisfies the invariant. *)
LEMMA BudgetInitially == Init => BudgetInv
  <1> SUFFICES ASSUME Init PROVE BudgetInv
    OBVIOUS
  <1>1. BudgetTypeOK
    <2>1. NoClaim \in [status : {"none", "ACTIVE", "COMPLETE", "FAILED"},
                       owner : Coordinators \cup {NoOne},
                       epoch : Nat, lease : {"live", "past"}]
      BY DEF NoClaim
    <2>2. NoUnits \in [Dims -> Nat] /\ NoUsage \in [rows : Nat, unknown : Nat, units : [Dims -> Nat]]
      BY DEF NoUsage, NoUnits
    <2>3. started \in 0..MaxTasks /\ retries \in 0..MaxRetries
      BY LimitAssumption DEF Init
    <2> QED
      BY <2>1, <2>2, <2>3 DEF Init, BudgetTypeOK
  <1>2. ClaimIsBacked /\ NoLostUsage
    BY DEF Init, ClaimIsBacked, NoLostUsage, NoClaim, NoUsage
  <1>3. NeverOvercommitted
    <2>1. Reserved = {}
      BY DEF Init, Reserved
    <2>2. Cardinality(Reserved) = 0
      BY <2>1, FS_EmptySet
    <2> QED
      BY <2>2, UnitAssumption DEF Init, NeverOvercommitted, NoUnits
  <1> QED
    BY <1>1, <1>2, <1>3 DEF BudgetInv

(* An admission keeps it: this is where the budget check is needed. *)
LEMMA ClaimKeeps ==
  ASSUME NEW c \in Coordinators, NEW t \in Tasks, BudgetInv, Claim(c, t)
  PROVE  BudgetInv'
  <1> USE DEF BudgetInv
  <1>1. claim[t].epoch + 1 \in Nat \ {0}
    BY DEF BudgetTypeOK
  <1>2. BudgetTypeOK'
    <2>1. started' \in 0..MaxTasks /\ retries' \in 0..MaxRetries
      BY LimitAssumption DEF Claim, MayClaim, BudgetTypeOK, Admissible
    <2>2. claim' \in [Tasks -> [status : {"none", "ACTIVE", "COMPLETE", "FAILED"},
                                owner : Coordinators \cup {NoOne},
                                epoch : Nat, lease : {"live", "past"}]]
      BY <1>1 DEF Claim, MayClaim, BudgetTypeOK
    <2>3. reservation' \in [Tasks -> Nat] /\ held' \in [Coordinators -> [Tasks -> Nat]]
      BY <1>1 DEF Claim, MayClaim, ReserveFor, BudgetTypeOK
    <2> QED
      BY <2>1, <2>2, <2>3 DEF Claim, MayClaim, BudgetTypeOK, usageVars
  <1>3. ClaimIsBacked' /\ NoLostUsage'
    BY DEF Claim, MayClaim, ReserveFor, BudgetTypeOK, ClaimIsBacked, NoLostUsage, usageVars
  <1>4. NeverOvercommitted'
    <2> SUFFICES ASSUME NEW d \in Dims, MaxUnits[d] > 0
                 PROVE  observed'[d] + Cardinality(Reserved') * PerTask[d] <= MaxUnits[d]
      BY DEF NeverOvercommitted
    <2>1. /\ reservation[t] = 0 => Cardinality(Reserved') = Cardinality(Reserved) + 1
          /\ reservation[t] # 0 => Reserved' = Reserved
      BY <1>1, ReservedAfterClaim DEF Claim, MayClaim, ReserveFor, BudgetTypeOK
    <2>2. observed'[d] = observed[d] /\ window = "ACTIVE"
      BY DEF Claim, MayClaim
    <2>3. /\ PerTask[d] \in Nat /\ MaxUnits[d] \in Nat /\ observed[d] \in Nat
          /\ Cardinality(Reserved) \in Nat
      BY UnitAssumption, ReservedFinite DEF BudgetTypeOK
    <2>4. CASE reservation[t] = 0
      <3>1. observed[d] + Cardinality(Reserved) * PerTask[d] + PerTask[d] <= MaxUnits[d]
        BY <2>4 DEF Claim, MayClaim, Affordable
      <3>2. (Cardinality(Reserved) + 1) * PerTask[d] = Cardinality(Reserved) * PerTask[d] + PerTask[d]
        BY <2>3
      <3> QED
        BY <2>1, <2>2, <2>3, <2>4, <3>1, <3>2
    <2>5. CASE reservation[t] # 0
      BY <2>1, <2>2, <2>5 DEF NeverOvercommitted
    <2> QED
      BY <2>4, <2>5
  <1> QED
    BY <1>2, <1>3, <1>4

(* A finalization keeps it: a charge within the reservation replaces it, and   *)
(* anything else blocks the window.                                            *)
LEMMA FinalizeKeeps ==
  ASSUME NEW c \in Coordinators, NEW t \in Tasks, NEW s \in {"COMPLETE", "FAILED"},
         BudgetInv, Finalize(c, t, s)
  PROVE  BudgetInv'
  <1> USE DEF BudgetInv
  <1>1. /\ uncharged[t].units \in [Dims -> Nat] /\ UnknownRows(t) \in Nat
        /\ reservation \in [Tasks -> Nat] /\ reservation[t] # 0
    BY DEF Finalize, HoldsClaim, UnknownRows, BudgetTypeOK
  <1>2. BudgetTypeOK'
    <2>1. uncharged' \in [Tasks -> [rows : Nat, unknown : Nat, units : [Dims -> Nat]]]
      BY DEF Finalize, Charge, BudgetTypeOK, NoUsage, NoUnits
    <2>2. claim' \in [Tasks -> [status : {"none", "ACTIVE", "COMPLETE", "FAILED"},
                                owner : Coordinators \cup {NoOne},
                                epoch : Nat, lease : {"live", "past"}]]
      <3> DEFINE ended == [status |-> s, owner |-> claim[t].owner,
                           epoch |-> claim[t].epoch, lease |-> "past"]
      <3>1. claim' = [claim EXCEPT ![t] = ended]
        BY DEF Finalize
      <3>2. ended \in [status : {"none", "ACTIVE", "COMPLETE", "FAILED"},
                       owner : Coordinators \cup {NoOne},
                       epoch : Nat, lease : {"live", "past"}]
        BY DEF BudgetTypeOK
      <3> HIDE DEF ended
      <3> QED
        BY <3>1, <3>2 DEF BudgetTypeOK
    <2>3. reservation' \in [Tasks -> Nat] /\ held' \in [Coordinators -> [Tasks -> Nat]]
      BY DEF Finalize, BudgetTypeOK
    <2>4. observed' \in [Dims -> Nat] /\ unknowns' \in Nat /\ completed' \in Nat
      BY <1>1 DEF Finalize, BudgetTypeOK
    <2> QED
      BY <2>1, <2>2, <2>3, <2>4 DEF Finalize, BudgetTypeOK
  <1>3. ClaimIsBacked' /\ NoLostUsage'
    BY DEF Finalize, Charge, BudgetTypeOK, ClaimIsBacked, NoLostUsage, NoUsage
  <1>4. NeverOvercommitted'
    <2> SUFFICES ASSUME window' = "ACTIVE", NEW d \in Dims, MaxUnits[d] > 0
                 PROVE  observed'[d] + Cardinality(Reserved') * PerTask[d] <= MaxUnits[d]
      BY DEF NeverOvercommitted
    <2>1. window = "ACTIVE" /\ ~(UnknownRows(t) > 0) /\ ~Overrun(t)
      BY DEF Finalize
    <2>2. /\ observed'[d] = observed[d] + uncharged[t].units[d]
          /\ uncharged[t].units[d] <= PerTask[d]
      BY <1>1, <2>1, UnitAssumption DEF Finalize, Overrun
    <2>3. Cardinality(Reserved') = Cardinality(Reserved) - 1
      BY <1>1, ReservedAfterFinalize DEF Finalize
    <2>4. /\ PerTask[d] \in Nat /\ MaxUnits[d] \in Nat /\ observed[d] \in Nat
          /\ uncharged[t].units[d] \in Nat /\ Cardinality(Reserved) \in Nat
      BY <1>1, UnitAssumption, ReservedFinite DEF BudgetTypeOK
    <2>5. (Cardinality(Reserved) - 1) * PerTask[d] = Cardinality(Reserved) * PerTask[d] - PerTask[d]
      BY <2>4
    <2>6. observed[d] + Cardinality(Reserved) * PerTask[d] <= MaxUnits[d]
      BY <2>1 DEF NeverOvercommitted
    <2>7. Cardinality(Reserved) * PerTask[d] \in Int
      BY <2>4
    <2> QED
      BY <2>2, <2>3, <2>4, <2>5, <2>6, <2>7
  <1> QED
    BY <1>2, <1>3, <1>4

(* Recording usage keeps it: a row is stamped only under an ACTIVE claim. *)
LEMMA ObserveKeeps ==
  ASSUME NEW t \in Tasks, NEW m \in Messages, NEW r \in Reports,
         BudgetInv, Observe(t, m, r)
  PROVE  BudgetInv'
  <1> USE DEF BudgetInv
  <1>1. r.units \in [Dims -> Nat] /\ r.units \in Usages \cup {NoUnits}
    BY UnitAssumption DEF Reports, NoUnits
  <1>2. BudgetTypeOK'
    <2>1. uncharged' \in [Tasks -> [rows : Nat, unknown : Nat, units : [Dims -> Nat]]]
      <3> DEFINE u == [rows |-> uncharged[t].rows + 1,
                       unknown |-> IF r.status = "UNKNOWN" THEN uncharged[t].unknown + 1
                                                           ELSE uncharged[t].unknown,
                       units |-> [d \in Dims |-> uncharged[t].units[d] + r.units[d]]]
      <3>1. uncharged' = uncharged \/ uncharged' = [uncharged EXCEPT ![t] = u]
        BY DEF Observe, RecordUsage
      <3>2. u \in [rows : Nat, unknown : Nat, units : [Dims -> Nat]]
        BY <1>1 DEF BudgetTypeOK
      <3> HIDE DEF u
      <3> QED
        BY <3>1, <3>2 DEF BudgetTypeOK
    <2>2. recorded' \subseteq [id : Messages, task : Tasks, window : {"this", "none"},
                               units : Usages \cup {NoUnits}]
      BY <1>1 DEF Observe, RecordUsage, BudgetTypeOK
    <2> QED
      BY <2>1, <2>2 DEF Observe, BudgetTypeOK, windowVars
  <1>3. ClaimIsBacked' /\ NeverOvercommitted'
    BY DEF Observe, ClaimIsBacked, NeverOvercommitted, Reserved, windowVars
  <1>4. NoLostUsage'
    BY DEF Observe, RecordUsage, NoLostUsage, BudgetTypeOK
  <1> QED
    BY <1>2, <1>3, <1>4

(* Every other step leaves the budget's rows alone. *)
LEMMA OthersKeep ==
  ASSUME BudgetInv,
         \/ \E c \in Coordinators, t \in Tasks : Lose(c, t)
         \/ \E t \in Tasks : ClaimTimeout(t) \/ TaskMoves(t)
         \/ WindowTimeout \/ ExpireWindow \/ StopWindow
         \/ UNCHANGED vars
  PROVE  BudgetInv'
  <1> USE DEF BudgetInv, windowVars, usageVars
  <1>1. ASSUME NEW c \in Coordinators, NEW t \in Tasks, Lose(c, t) PROVE BudgetInv'
    BY <1>1 DEF Lose, BudgetTypeOK, ClaimIsBacked, NeverOvercommitted, NoLostUsage, Reserved
  <1>2. ASSUME NEW t \in Tasks, ClaimTimeout(t) PROVE BudgetInv'
    <2>c. claim' \in [Tasks -> [status : {"none", "ACTIVE", "COMPLETE", "FAILED"},
                               owner : Coordinators \cup {NoOne},
                               epoch : Nat, lease : {"live", "past"}]]
      <3> DEFINE Rows == [status : {"none", "ACTIVE", "COMPLETE", "FAILED"},
                          owner : Coordinators \cup {NoOne},
                          epoch : Nat, lease : {"live", "past"}]
      <3>1. claim \in [Tasks -> Rows]
        BY DEF BudgetTypeOK
      <3>2. [claim[t] EXCEPT !.lease = "past"] \in Rows
        BY <3>1
      <3>3. claim' = [claim EXCEPT ![t] = [claim[t] EXCEPT !.lease = "past"]]
        BY <1>2, <3>1 DEF ClaimTimeout
      <3> HIDE DEF Rows
      <3>4. claim' \in [Tasks -> Rows]
        BY <3>1, <3>2, <3>3
      <3> QED
        BY <3>4 DEF Rows
    <2>1. BudgetTypeOK'
      BY <1>2, <2>c DEF ClaimTimeout, BudgetTypeOK
    <2>2. \A u \in Tasks : claim'[u].status = claim[u].status /\ claim'[u].epoch = claim[u].epoch
      BY <1>2 DEF ClaimTimeout, BudgetTypeOK
    <2>3. ClaimIsBacked' /\ NoLostUsage'
      BY <1>2, <2>2 DEF ClaimTimeout, ClaimIsBacked, NoLostUsage
    <2>4. NeverOvercommitted'
      BY <1>2 DEF ClaimTimeout, NeverOvercommitted, Reserved
    <2> QED
      BY <2>1, <2>3, <2>4
  <1>3. ASSUME NEW t \in Tasks, TaskMoves(t) PROVE BudgetInv'
    <2>1. BudgetTypeOK'
      BY <1>3 DEF TaskMoves, BudgetTypeOK
    <2>2. ClaimIsBacked' /\ NoLostUsage' /\ NeverOvercommitted'
      BY <1>3 DEF TaskMoves, ClaimIsBacked, NoLostUsage, NeverOvercommitted, Reserved
    <2> QED
      BY <2>1, <2>2
  <1>4. CASE WindowTimeout \/ ExpireWindow \/ StopWindow
    BY <1>4 DEF WindowTimeout, ExpireWindow, StopWindow, BudgetTypeOK, ClaimIsBacked,
                NeverOvercommitted, NoLostUsage, Reserved
  <1>5. CASE UNCHANGED vars
    BY <1>5 DEF vars, BudgetTypeOK, ClaimIsBacked, NeverOvercommitted, NoLostUsage, Reserved
  <1> QED
    BY <1>1, <1>2, <1>3, <1>4, <1>5

-----------------------------------------------------------------------------
(* The two sums of UsageIsExact: what waits uncharged per task, and what the rows *)
(* stamped with the window say.                                                   *)
Pending(d) == [t \in Tasks |-> uncharged[t].units[d]]
Billed(d)  == [row \in recorded |-> row.units[d]]
Stamped    == {row \in recorded : row.window = "this"}

Exact(d) ==
    observed[d] + SumFunctionOnSet(Pending(d), Tasks) = SumFunctionOnSet(Billed(d), Stamped)

ExactInv == IsFiniteSet(recorded) /\ (window = "ACTIVE" => \A d \in Dims : Exact(d))

(* The summands are naturals, and there are finitely many. *)
LEMMA SummandTypes ==
  ASSUME BudgetTypeOK, ExactInv, NEW d \in Dims
  PROVE  /\ \A t \in Tasks : Pending(d)[t] \in Nat
         /\ \A row \in recorded : Billed(d)[row] \in Nat
         /\ observed[d] \in Nat
         /\ IsFiniteSet(Tasks) /\ IsFiniteSet(Stamped) /\ Stamped \subseteq recorded
         /\ SumFunctionOnSet(Pending(d), Tasks) \in Nat
         /\ SumFunctionOnSet(Billed(d), Stamped) \in Nat
  <1>1. \A t \in Tasks : Pending(d)[t] \in Nat
    BY DEF Pending, BudgetTypeOK
  <1>2. \A row \in recorded : Billed(d)[row] \in Nat
    <2>1. \A u \in Usages \cup {NoUnits} : u[d] \in Nat
      BY UnitAssumption DEF NoUnits
    <2>2. \A row \in recorded : row.units \in Usages \cup {NoUnits}
      BY DEF BudgetTypeOK
    <2> QED
      BY <2>1, <2>2 DEF Billed
  <1>3. Stamped \subseteq recorded
    BY DEF Stamped
  <1>4. IsFiniteSet(Tasks) /\ IsFiniteSet(Stamped)
    BY <1>3, TasksAssumption, FS_Subset DEF ExactInv
  <1>5. SumFunctionOnSet(Pending(d), Tasks) \in Nat
    BY <1>1, <1>4, SumType
  <1>6. SumFunctionOnSet(Billed(d), Stamped) \in Nat
    BY <1>2, <1>3, <1>4, SumType
  <1> QED
    BY <1>1, <1>2, <1>3, <1>4, <1>5, <1>6 DEF BudgetTypeOK

(* A finalization moves the task's units from the pending to the observed; when   *)
(* it cannot know them, it stops the window.                                      *)
LEMMA FinalizeIsExact ==
  ASSUME NEW c \in Coordinators, NEW t \in Tasks, NEW s \in {"COMPLETE", "FAILED"},
         BudgetTypeOK, BudgetTypeOK', ExactInv, Finalize(c, t, s)
  PROVE  ExactInv'
  <1>1. recorded' = recorded /\ IsFiniteSet(recorded')
    BY DEF Finalize, ExactInv
  <1>2. ASSUME window' = "ACTIVE", NEW d \in Dims PROVE Exact(d)'
    <2>1. window = "ACTIVE" /\ ~(UnknownRows(t) > 0)
      BY <1>2 DEF Finalize
    <2>2. observed'[d] = observed[d] + Pending(d)[t]
      BY <2>1 DEF Finalize, Pending
    <2>3. /\ \A u \in Tasks : Pending(d)'[u] \in Nat
          /\ \A u \in Tasks : u # t => Pending(d)'[u] = Pending(d)[u]
          /\ Pending(d)'[t] = 0
      BY DEF Finalize, Charge, Pending, BudgetTypeOK, NoUsage, NoUnits
    <2>4. SumFunctionOnSet(Pending(d)', Tasks)
            = SumFunctionOnSet(Pending(d), Tasks) + Pending(d)'[t] - Pending(d)[t]
      BY <2>3, SummandTypes, SumAfterChange
    <2>5. Billed(d)' = Billed(d) /\ Stamped' = Stamped
      BY <1>1 DEF Billed, Stamped
    <2>6. Exact(d)
      BY <2>1 DEF ExactInv
    <2>7. Pending(d)[t] \in Nat /\ observed[d] \in Nat
          /\ SumFunctionOnSet(Pending(d), Tasks) \in Nat
      BY SummandTypes
    <2> QED
      BY <2>2, <2>3, <2>4, <2>5, <2>6, <2>7 DEF Exact
  <1> QED
    BY <1>1, <1>2 DEF ExactInv

(* A message adds the same units to both sides, once: its row is new. *)
LEMMA ObserveIsExact ==
  ASSUME NEW t \in Tasks, NEW m \in Messages, NEW r \in Reports,
         BudgetTypeOK, BudgetTypeOK', ExactInv, Observe(t, m, r)
  PROVE  ExactInv'
  <1> DEFINE stamp == IF claim[t].status = "ACTIVE" THEN "this" ELSE "none"
             new == [id |-> m, task |-> t, window |-> stamp, units |-> r.units]
  <1>1. /\ recorded' = recorded \cup {new} /\ new \notin recorded
        /\ UNCHANGED <<window, observed>>
    BY DEF Observe, RecordUsage, windowVars
  <1>2. IsFiniteSet(recorded')
    <2> HIDE DEF new
    <2> QED
      BY <1>1, FS_AddElement DEF ExactInv
  <1>3. ASSUME window' = "ACTIVE", NEW d \in Dims PROVE Exact(d)'
    <2>1. Exact(d)
      BY <1>1, <1>3 DEF ExactInv
    <2>2. r.units[d] \in Nat
      BY UnitAssumption DEF Reports, NoUnits
    <2>3. \A row \in Stamped : Billed(d)'[row] = Billed(d)[row]
      BY <1>1 DEF Billed, Stamped
    <2>4. SumFunctionOnSet(Billed(d)', Stamped) = SumFunctionOnSet(Billed(d), Stamped)
      BY <2>3, SummandTypes, SumOfEqual
    <2>5. CASE stamp = "none"
      <3>1. Stamped' = Stamped
        BY <1>1, <2>5 DEF Stamped
      <3>2. Pending(d)' = Pending(d)
        BY <2>5 DEF Observe, RecordUsage, Pending
      <3> QED
        BY <1>1, <2>1, <2>4, <3>1, <3>2 DEF Exact
    <2>6. CASE stamp = "this"
      <3>1. Stamped' = Stamped \cup {new} /\ new \notin Stamped
        BY <1>1, <2>6 DEF Stamped
      <3>2. Billed(d)'[new] = r.units[d]
        BY <1>1 DEF Billed
      <3>3. /\ \A row \in Stamped' : Billed(d)'[row] \in Nat
            /\ IsFiniteSet(Stamped')
        <4>1. \A row \in Stamped : Billed(d)[row] \in Nat
          BY SummandTypes
        <4>2. IsFiniteSet(Stamped)
          BY SummandTypes
        <4> HIDE DEF new
        <4> QED
          BY <2>2, <2>3, <3>1, <3>2, <4>1, <4>2, FS_AddElement
      <3>4. SumFunctionOnSet(Billed(d)', Stamped')
              = r.units[d] + SumFunctionOnSet(Billed(d)', Stamped)
        <4>1. new \in Stamped' /\ Stamped' \ {new} = Stamped
          BY <3>1
        <4> HIDE DEF new
        <4> QED
          BY <3>2, <3>3, <4>1, SumTakesOut
      <3>5. /\ \A u \in Tasks : Pending(d)'[u] \in Nat
            /\ \A u \in Tasks : u # t => Pending(d)'[u] = Pending(d)[u]
            /\ Pending(d)'[t] = Pending(d)[t] + r.units[d]
        <4>1. uncharged'[t].units[d] = uncharged[t].units[d] + r.units[d]
          BY <2>6 DEF Observe, RecordUsage, BudgetTypeOK
        <4>2. \A u \in Tasks : u # t => uncharged'[u] = uncharged[u]
          BY DEF Observe, RecordUsage, BudgetTypeOK
        <4> QED
          BY <4>1, <4>2 DEF Pending, BudgetTypeOK
      <3>6. SumFunctionOnSet(Pending(d)', Tasks)
              = SumFunctionOnSet(Pending(d), Tasks) + Pending(d)'[t] - Pending(d)[t]
        BY <3>5, SummandTypes, SumAfterChange
      <3>7. /\ Pending(d)[t] \in Nat /\ observed[d] \in Nat
            /\ SumFunctionOnSet(Pending(d), Tasks) \in Nat
            /\ SumFunctionOnSet(Billed(d), Stamped) \in Nat
        BY SummandTypes
      <3> HIDE DEF new, stamp
      <3> QED
        BY <1>1, <2>1, <2>2, <2>4, <3>4, <3>5, <3>6, <3>7 DEF Exact
    <2> QED
      BY <2>5, <2>6
  <1> QED
    BY <1>2, <1>3 DEF ExactInv

(* Every other step leaves the usage rows and the charges alone. *)
LEMMA OthersAreExact ==
  ASSUME ExactInv, UNCHANGED <<observed, uncharged, recorded>>, window' = "ACTIVE" => window = "ACTIVE"
  PROVE  ExactInv'
  BY DEF ExactInv, Exact, Pending, Billed, Stamped

-----------------------------------------------------------------------------
(* BudgetInv is an invariant of the claims, reservations and charges of        *)
(* control_store.py, whatever the coordinators do.                             *)
THEOREM BudgetInvariant == BudgetSpec => []BudgetInv
  <1>1. ASSUME BudgetInv, [Next]_vars PROVE BudgetInv'
    BY <1>1, ClaimKeeps, FinalizeKeeps, ObserveKeeps, OthersKeep DEF Next
  <1> QED
    BY BudgetInitially, <1>1, PTL DEF BudgetSpec

(* The window's rows keep their types and its counters their limits. *)
THEOREM BudgetTypeCorrect == BudgetSpec => []BudgetTypeOK
  BY BudgetInvariant, PTL DEF BudgetInv

(* An ACTIVE claim and an ACTIVE reservation of the same epoch go together. *)
THEOREM ClaimsAreBacked == BudgetSpec => []ClaimIsBacked
  BY BudgetInvariant, PTL DEF BudgetInv

(* A window that admits work never promises more than its limits, for every    *)
(* policy, any number of coordinators, takeovers and late finalizations.       *)
THEOREM BudgetIsNeverOvercommitted == BudgetSpec => []NeverOvercommitted
  BY BudgetInvariant, PTL DEF BudgetInv

(* No usage row of the window outlives its claim uncharged. *)
THEOREM UsageIsNotLost == BudgetSpec => []NoLostUsage
  BY BudgetInvariant, PTL DEF BudgetInv

(* While the window admits work, observed_token_units and                         *)
(* observed_cost_micro_units count every stamped row once, charged or waiting, for *)
(* any number of tasks, messages, takeovers and finalizations.                     *)
THEOREM ObservedUsageIsExact == BudgetSpec => []UsageIsExact
  <1>1. Init => ExactInv
    <2> SUFFICES ASSUME Init PROVE ExactInv
      OBVIOUS
    <2>1. recorded = {} /\ IsFiniteSet(recorded) /\ Stamped = {}
      BY FS_EmptySet DEF Init, Stamped
    <2>2. ASSUME NEW d \in Dims PROVE Exact(d)
      <3>1. SumFunctionOnSet(Billed(d), Stamped) = 0
        BY <2>1, SumStep
      <3>2. \A t \in Tasks : Pending(d)[t] = 0
        BY DEF Init, Pending, NoUsage, NoUnits
      <3>3. SumFunctionOnSet(Pending(d), Tasks) = 0
        BY <3>2, TasksAssumption, SumOfZeros
      <3>4. observed[d] = 0
        BY DEF Init, NoUnits
      <3> QED
        BY <3>1, <3>3, <3>4 DEF Exact
    <2> QED
      BY <2>1, <2>2 DEF ExactInv
  <1>2. ASSUME BudgetTypeOK, BudgetTypeOK', ExactInv, [Next]_vars PROVE ExactInv'
    <2>1. ASSUME NEW c \in Coordinators, NEW t \in Tasks, Claim(c, t) PROVE ExactInv'
      BY <1>2, <2>1, OthersAreExact DEF Claim, usageVars
    <2>2. ASSUME NEW c \in Coordinators, NEW t \in Tasks, Lose(c, t) PROVE ExactInv'
      BY <1>2, <2>2, OthersAreExact DEF Lose, windowVars, usageVars
    <2>3. ASSUME NEW t \in Tasks, ClaimTimeout(t) \/ TaskMoves(t) PROVE ExactInv'
      BY <1>2, <2>3, OthersAreExact DEF ClaimTimeout, TaskMoves, windowVars, usageVars
    <2>4. CASE WindowTimeout \/ ExpireWindow \/ StopWindow
      BY <1>2, <2>4, OthersAreExact DEF WindowTimeout, ExpireWindow, StopWindow, usageVars
    <2>5. CASE UNCHANGED vars
      BY <1>2, <2>5, OthersAreExact DEF vars, windowVars, usageVars
    <2> QED
      BY <1>2, <2>1, <2>2, <2>3, <2>4, <2>5, FinalizeIsExact, ObserveIsExact DEF Next
  <1>3. ExactInv => UsageIsExact
    BY DEF ExactInv, Exact, Pending, Billed, Stamped, UsageIsExact
  <1> QED
    BY <1>1, <1>2, <1>3, BudgetTypeCorrect, PTL DEF BudgetSpec

(* A claim is settled only by the coordinator it was last given to. *)
THEOREM ClaimsAreKept == BudgetSpec => ClaimIsKept
  <1> DEFINE Kept == \A t \in Tasks :
                        claim[t].status = "ACTIVE" /\ claim'[t].status # "ACTIVE"
                          => /\ held[claim[t].owner][t] = claim[t].epoch
                             /\ held'[claim[t].owner][t] = 0
  <1>1. ASSUME BudgetTypeOK, [Next]_vars PROVE [Kept]_vars
    <2>1. ASSUME NEW c \in Coordinators, NEW t \in Tasks, NEW s \in {"COMPLETE", "FAILED"},
                 Finalize(c, t, s)
          PROVE  Kept
      BY <1>1, <2>1 DEF Finalize, HoldsClaim, BudgetTypeOK
    <2>2. ASSUME NEW c \in Coordinators, NEW t \in Tasks, Claim(c, t) PROVE Kept
      BY <1>1, <2>2 DEF Claim, MayClaim, BudgetTypeOK
    <2>3. ASSUME NEW t \in Tasks, ClaimTimeout(t) PROVE Kept
      BY <1>1, <2>3 DEF ClaimTimeout, BudgetTypeOK
    <2>4. ASSUME UNCHANGED claim PROVE Kept
      BY <2>4
    <2> HIDE DEF Kept
    <2> QED
      BY <1>1, <2>1, <2>2, <2>3, <2>4
         DEF Next, Lose, TaskMoves, Observe, WindowTimeout, ExpireWindow, StopWindow
  <1> QED
    BY BudgetTypeCorrect, <1>1, PTL DEF BudgetSpec, ClaimIsKept
=============================================================================
