---------------------------- MODULE WindowBudget ----------------------------
(***************************************************************************)
(* The admission side of the control store (platform_v1/control_store.py):  *)
(* one autonomous window, the coordinators' claims on its tasks, the budget *)
(* reservations behind the claims, and the charging of observed usage.      *)
(*                                                                         *)
(* Every operation is one transaction, so one action.  The callers are left *)
(* unconstrained: any coordinator may claim any task and finalize with the  *)
(* claim epoch it was given, however late; the tasks themselves move as an   *)
(* environment (DurableStore models them).                                   *)
(***************************************************************************)
EXTENDS Integers, FiniteSets, Functions

CONSTANTS
    Tasks,          \* the tasks linked to the window's goals
    FixtureTasks,   \* those whose executor_kind is deterministic_fixture
    Coordinators,   \* coordinator processes; their owner names are distinct
    Messages,       \* executor messages that carry usage (observation ids)
    Usages,         \* usage vectors a message may report
    MaxConcurrent, MaxTasks, MaxRetries,  \* limits of the activated policy
    MaxUnits,       \* max_token_units, max_cost_micro_units; 0: not enforced
    PerTask,        \* per_task_token_reservation, per_task_cost_reservation
    NoOne           \* the owner of a claim row that does not exist yet

Dims == {"token", "cost"}

ASSUME TasksAssumption == IsFiniteSet(Tasks) /\ FixtureTasks \subseteq Tasks
ASSUME LimitAssumption == /\ MaxConcurrent \in Nat \ {0}
                          /\ MaxTasks \in Nat \ {0}
                          /\ MaxRetries \in Nat
ASSUME UnitAssumption == /\ MaxUnits \in [Dims -> Nat]
                         /\ PerTask \in [Dims -> Nat]
                         /\ Usages \subseteq [Dims -> Nat]

VARIABLES
    window,       \* platform_autonomous_windows.status
    timeUp,       \* the wall clock has reached expires_at
    started, retries, completed, unknowns,  \* the window's counters
    observed,     \* observed_token_units, observed_cost_micro_units
    claim,        \* platform_coordinator_claims, one row per task
    reservation,  \* claim_epoch of the task's ACTIVE reservation; 0: none
    uncharged,    \* the task's usage rows of this window that no charge row names
    recorded,     \* task_usage_observations
    task,         \* tasks.status, as far as a claim tells statuses apart
    held          \* the claim epoch each coordinator was given

windowVars == <<window, timeUp, started, retries, completed, unknowns, observed>>
usageVars  == <<uncharged, recorded>>
vars == <<windowVars, claim, reservation, usageVars, task, held>>

NoUnits    == [d \in Dims |-> 0]
NoUsage    == [rows |-> 0, unknown |-> 0, units |-> NoUnits]
NoClaim    == [status |-> "none", owner |-> NoOne, epoch |-> 0, lease |-> "past"]
Claimable  == {"QUEUED", "INTERRUPTED"}

(* What an executor message says about usage: numbers, or that it is unknown. *)
Reports == [status : {"OBSERVED"}, units : Usages]
             \cup {[status |-> "UNKNOWN", units |-> NoUnits]}

-----------------------------------------------------------------------------
(* The window is activated; its tasks are queued. *)
Init ==
    /\ window = "ACTIVE"
    /\ timeUp = FALSE
    /\ started = 0 /\ retries = 0 /\ completed = 0 /\ unknowns = 0
    /\ observed = NoUnits
    /\ claim = [t \in Tasks |-> NoClaim]
    /\ reservation = [t \in Tasks |-> 0]
    /\ uncharged = [t \in Tasks |-> NoUsage]
    /\ recorded = {}
    /\ task = [t \in Tasks |-> "QUEUED"]
    /\ held = [c \in Coordinators |-> [t \in Tasks |-> 0]]

\* Mutant of LiveClaims: expires_at_ms is not compared.
LiveClaimsEver == {t \in Tasks : claim[t].status = "ACTIVE"}

LiveClaims == {t \in Tasks : claim[t].status = "ACTIVE" /\ claim[t].lease = "live"}

Reserved == {t \in Tasks : reservation[t] # 0}

\* Mutant of Admissible: the limits are reached once more.
AdmissibleAtLimit(t) ==
    IF task[t] = "INTERRUPTED" THEN retries <= MaxRetries ELSE started <= MaxTasks

(* A retry is paid from the retry budget, a first start from the task budget. *)
Admissible(t) ==
    IF task[t] = "INTERRUPTED" THEN retries < MaxRetries ELSE started < MaxTasks

\* Mutant of Affordable: what is already observed is left out.
AffordableUnobserved ==
    \A d \in Dims : MaxUnits[d] > 0 => (Cardinality(Reserved) + 1) * PerTask[d] <= MaxUnits[d]

(* observed + reserved + reservation of one more task stays within the limit. *)
Affordable ==
    \A d \in Dims :
        MaxUnits[d] > 0 =>
            observed[d] + Cardinality(Reserved) * PerTask[d] + PerTask[d] <= MaxUnits[d]

\* Mutant of ReserveFor: the retained reservation keeps the lost claim's epoch.
ReserveOnce(t, e) ==
    reservation' = [reservation EXCEPT ![t] = IF @ = 0 THEN e ELSE @]

(* A retained ACTIVE reservation moves to the new epoch, else one is made. *)
ReserveFor(t, e) == reservation' = [reservation EXCEPT ![t] = e]

(* _claim_task_locked: the checks that raise ... *)
MayClaim(t) ==
    /\ window = "ACTIVE" /\ ~timeUp
    /\ Cardinality(LiveClaims) < MaxConcurrent
    /\ task[t] \in Claimable
    /\ Admissible(t)
    /\ t \notin LiveClaims
    /\ reservation[t] = 0 => Affordable

(* ... and the rows it writes. *)
Claim(c, t) ==
    /\ MayClaim(t)
    /\ claim' = [claim EXCEPT ![t] = [status |-> "ACTIVE", owner |-> c,
                                      epoch |-> @.epoch + 1, lease |-> "live"]]
    /\ ReserveFor(t, claim[t].epoch + 1)
    /\ IF task[t] = "INTERRUPTED"
          THEN retries' = retries + 1 /\ UNCHANGED started
          ELSE started' = started + 1 /\ UNCHANGED retries
    /\ held' = [held EXCEPT ![c][t] = claim[t].epoch + 1]
    /\ UNCHANGED <<window, timeUp, completed, unknowns, observed, usageVars, task>>

(* usage_unknown: a row says so, or an executor that must report did not. *)
UnknownRows(t) ==
    IF uncharged[t].rows = 0 /\ t \notin FixtureTasks THEN 1 ELSE uncharged[t].unknown

Overrun(t) == \E d \in Dims : MaxUnits[d] > 0 /\ uncharged[t].units[d] > PerTask[d]

\* Mutant of HoldsClaim: neither owner nor epoch are compared.
HoldsAnyClaim(c, t) == held[c][t] # 0 /\ claim[t].status = "ACTIVE"

(* The claim row still is the caller's, and its reservation is ACTIVE. *)
HoldsClaim(c, t) ==
    /\ held[c][t] # 0
    /\ claim[t].status = "ACTIVE"
    /\ claim[t].owner = c
    /\ claim[t].epoch = held[c][t]
    /\ reservation[t] = held[c][t]

(* Every uncharged row of the task gets its charge row. *)
Charge(t) == uncharged' = [uncharged EXCEPT ![t] = NoUsage]

(* complete_task_claim ("COMPLETE") and abandon_task_claim ("FAILED") *)
Finalize(c, t, terminal) ==
    LET unknown == UnknownRows(t)
    IN  /\ HoldsClaim(c, t)
        /\ Charge(t)
        /\ observed' = IF unknown > 0 THEN observed
                       ELSE [d \in Dims |-> observed[d] + uncharged[t].units[d]]
        /\ unknowns' = unknowns + unknown
        /\ window' = IF unknown > 0 \/ Overrun(t) THEN "BLOCKED" ELSE window
        /\ completed' = IF terminal = "COMPLETE" THEN completed + 1 ELSE completed
        /\ reservation' = [reservation EXCEPT ![t] = 0]
        /\ claim' = [claim EXCEPT ![t] = [status |-> terminal, owner |-> @.owner,
                                          epoch |-> @.epoch, lease |-> "past"]]
        /\ held' = [held EXCEPT ![c][t] = 0]
        /\ UNCHANGED <<timeUp, started, retries, recorded, task>>

(* A coordinator loses a claim: it was fenced, or its process died. *)
Lose(c, t) ==
    /\ held[c][t] # 0
    /\ held' = [held EXCEPT ![c][t] = 0]
    /\ UNCHANGED <<windowVars, claim, reservation, usageVars, task>>

(* expires_at_ms passes; nothing renews a claim, and no claim but an ACTIVE one  *)
(* is asked for its expiry.                                                      *)
ClaimTimeout(t) ==
    /\ claim[t].lease = "live"
    /\ claim' = [claim EXCEPT ![t].lease = "past"]
    /\ UNCHANGED <<windowVars, reservation, usageVars, task, held>>

WindowTimeout ==
    /\ ~timeUp
    /\ timeUp' = TRUE
    /\ UNCHANGED <<window, started, retries, completed, unknowns, observed,
                   claim, reservation, usageVars, task, held>>

(* active_window marks an expired window; stop_window is the owner's. *)
ExpireWindow ==
    /\ window = "ACTIVE" /\ timeUp
    /\ window' = "EXPIRED"
    /\ UNCHANGED <<timeUp, started, retries, completed, unknowns, observed,
                   claim, reservation, usageVars, task, held>>

StopWindow ==
    /\ window = "ACTIVE"
    /\ window' = "STOPPED"
    /\ UNCHANGED <<timeUp, started, retries, completed, unknowns, observed,
                   claim, reservation, usageVars, task, held>>

(* A usage row is stamped with the window while the task has an ACTIVE claim. *)
RecordUsage(t, m, r) ==
    LET stamp == IF claim[t].status = "ACTIVE" THEN "this" ELSE "none"
    IN  /\ recorded' = recorded \cup {[id |-> m, task |-> t, window |-> stamp, units |-> r.units]}
        /\ uncharged' =
              IF stamp = "none" THEN uncharged
              ELSE [uncharged EXCEPT
                      ![t] = [rows    |-> @.rows + 1,
                              unknown |-> IF r.status = "UNKNOWN" THEN @.unknown + 1 ELSE @.unknown,
                              units   |-> [d \in Dims |-> @.units[d] + r.units[d]]]]

\* Mutant of Observe: a replayed message is counted again.
ObserveReplayed(t, m, r) ==
    /\ task[t] = "LIVE"
    /\ RecordUsage(t, m, r)
    /\ UNCHANGED <<windowVars, claim, reservation, task, held>>

(* append_usage_observation: a new message of the running executor.  A        *)
(* replayed message finds its row and changes nothing.                        *)
Observe(t, m, r) ==
    /\ task[t] = "LIVE"
    /\ \A row \in recorded : row.id # m
    /\ RecordUsage(t, m, r)
    /\ UNCHANGED <<windowVars, claim, reservation, task, held>>

(* The environment: a durable run starts, is interrupted, resumed, settled. *)
TaskMoves(t) ==
    /\ \E s \in {"LIVE", "INTERRUPTED", "SETTLED"} :
          /\ \/ task[t] \in Claimable /\ s \in {"LIVE", "SETTLED"}
             \/ task[t] = "LIVE" /\ s \in {"INTERRUPTED", "SETTLED"}
          /\ task' = [task EXCEPT ![t] = s]
    /\ UNCHANGED <<windowVars, claim, reservation, usageVars, held>>

Next ==
    \/ \E c \in Coordinators, t \in Tasks :
          \/ Claim(c, t)
          \/ \E s \in {"COMPLETE", "FAILED"} : Finalize(c, t, s)
          \/ Lose(c, t)
    \/ \E t \in Tasks :
          \/ ClaimTimeout(t)
          \/ TaskMoves(t)
          \/ \E m \in Messages, r \in Reports : Observe(t, m, r)
    \/ WindowTimeout
    \/ ExpireWindow
    \/ StopWindow

BudgetSpec == Init /\ [][Next]_vars

-----------------------------------------------------------------------------
(* The variables keep their types; the counters keep the window's limits. *)
BudgetTypeOK ==
    /\ window \in {"ACTIVE", "EXPIRED", "STOPPED", "BLOCKED"}
    /\ timeUp \in BOOLEAN
    /\ started \in 0..MaxTasks
    /\ retries \in 0..MaxRetries
    /\ completed \in Nat
    /\ unknowns \in Nat
    /\ observed \in [Dims -> Nat]
    /\ claim \in [Tasks -> [status : {"none", "ACTIVE", "COMPLETE", "FAILED"},
                           owner : Coordinators \cup {NoOne},
                           epoch : Nat, lease : {"live", "past"}]]
    /\ reservation \in [Tasks -> Nat]
    /\ uncharged \in [Tasks -> [rows : Nat, unknown : Nat, units : [Dims -> Nat]]]
    /\ recorded \subseteq [id : Messages, task : Tasks, window : {"this", "none"},
                           units : Usages \cup {NoUnits}]
    /\ task \in [Tasks -> {"QUEUED", "LIVE", "INTERRUPTED", "SETTLED"}]
    /\ held \in [Coordinators -> [Tasks -> Nat]]

(* An ACTIVE claim has an ACTIVE reservation of its own epoch, and only an     *)
(* ACTIVE claim has one: _claim_task_locked moves a retained reservation along *)
(* with every takeover, so a finalization never finds it fenced and a crashed  *)
(* coordinator never leaks budget.                                             *)
ClaimIsBacked ==
    \A t \in Tasks :
        reservation[t] = IF claim[t].status = "ACTIVE" THEN claim[t].epoch ELSE 0

(* While the window admits work, what was charged and what is still reserved   *)
(* stay within each enforced limit, although usage is known only after a task  *)
(* ran, claims expire and change hands, and several coordinators admit at once.*)
NeverOvercommitted ==
    window = "ACTIVE" =>
        \A d \in Dims :
            MaxUnits[d] > 0 =>
                observed[d] + Cardinality(Reserved) * PerTask[d] <= MaxUnits[d]

(* A usage row of the window is charged by the time its task's claim ends:     *)
(* rows still uncharged belong to an ACTIVE claim, whose finalization will     *)
(* find them.                                                                  *)
NoLostUsage == \A t \in Tasks : uncharged[t].rows > 0 => claim[t].status = "ACTIVE"

(* While the window admits work its observed usage is exact: every row stamped *)
(* with the window is charged once or waits uncharged, whatever was replayed,  *)
(* retried or taken over in between.                                           *)
UsageIsExact ==
    window = "ACTIVE" =>
        \A d \in Dims :
            observed[d] + SumFunctionOnSet([t \in Tasks |-> uncharged[t].units[d]], Tasks)
              = SumFunctionOnSet([row \in recorded |-> row.units[d]],
                                 {row \in recorded : row.window = "this"})

(* A claim ends only through the coordinator it was last given to: a stalled   *)
(* coordinator whose claim was taken over cannot settle its successor's work.  *)
ClaimIsKept ==
    [][\A t \in Tasks :
          claim[t].status = "ACTIVE" /\ claim'[t].status # "ACTIVE"
            => /\ held[claim[t].owner][t] = claim[t].epoch
               /\ held'[claim[t].owner][t] = 0]_vars
=============================================================================
