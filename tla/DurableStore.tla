---------------------------- MODULE DurableStore ----------------------------
(***************************************************************************)
(* The durable part of the task store (platform_v1/run_store.py): one task, *)
(* the single durable run the schema allows it, the run's lease, and the    *)
(* append-only checkpoint history.                                          *)
(*                                                                         *)
(* Every operation of the store is one SQLite BEGIN IMMEDIATE transaction,  *)
(* so every operation is one atomic action here.  The callers are left      *)
(* unconstrained: any worker may call any operation at any moment with the  *)
(* lease handle it was given, however old.  DurableSingle restricts them to *)
(* what the execution service does and is shown to implement this module.   *)
(*                                                                         *)
(* A worker is one call of execute or resume.  Its handle is the epoch it   *)
(* was given (0: none) together with its owner name, which need not be its  *)
(* own: every HTTP resume uses the name "task-api-resume".                  *)
(***************************************************************************)
EXTENDS Integers, Sequences

CONSTANTS
    Workers,      \* calls of execute / resume that may ever be in flight
    Owners,       \* lease_owner strings
    OwnerOf,      \* the lease_owner string each worker passes
    NoOwner,      \* the empty lease_owner of a released or reconciled run
    Artifacts,    \* (artifact_digest, role_attempt) pairs of a checkpoint
    Reconcilers,  \* concurrent passes of _reconcile_expired_runs
    MaxEpoch      \* bound on lease_epoch

ASSUME OwnerAssumption == OwnerOf \in [Workers -> Owners] /\ NoOwner \notin Owners
ASSUME EpochAssumption == MaxEpoch \in Nat \ {0}

VARIABLES
    status,    \* tasks.status
    claimed,   \* a row of the task exists in platform_coordinator_claims
    owner,     \* durable_runs.lease_owner
    epoch,     \* durable_runs.lease_epoch; 0 while the task has no run
    expiry,    \* durable_runs.lease_expiry_ms: 0, in the future, in the past
    recov,     \* durable_runs.recovery_classification
    accepted,  \* rank of durable_runs.accepted_checkpoint; -1: the empty name
    history,   \* durable_checkpoint_history, with who wrote each row
    handle,    \* the epoch of the LeaseHandle each worker holds
    pass       \* where each reconciler is between its SELECT and its recheck

leaseVars == <<owner, epoch, expiry, recov>>
logVars   == <<accepted, history>>
storeVars == <<status, claimed, owner, epoch, expiry, recov, accepted, history,
               handle, pass>>

-----------------------------------------------------------------------------
(* Statuses and their transition table. *)

Live     == {"PREPARING_WORKSPACE", "RUNNING", "RUNNING_FIXTURE", "VALIDATING"}
Terminal == {"READY_FOR_REVIEW", "READY_FOR_REVIEW_FIXTURE", "BLOCKED", "FAILED",
             "CANCELLED"}
Statuses == {"QUEUED", "INTERRUPTED"} \cup Live \cup Terminal

Aborts == {"BLOCKED", "FAILED", "CANCELLED"}

(* TRANSITION_RULES: a status may be followed by another; terminal ones by none. *)
TransitionRules(s, t) ==
    \/ s = "QUEUED"      /\ t \in {"PREPARING_WORKSPACE"} \cup Aborts
    \/ s = "PREPARING_WORKSPACE"
                         /\ t \in {"RUNNING", "RUNNING_FIXTURE", "INTERRUPTED"} \cup Aborts
    \/ s \in {"RUNNING", "RUNNING_FIXTURE"}
                         /\ t \in {"VALIDATING", "INTERRUPTED"} \cup Aborts
    \/ s = "VALIDATING"  /\ t \in {"READY_FOR_REVIEW", "READY_FOR_REVIEW_FIXTURE",
                                   "INTERRUPTED"} \cup Aborts
    \/ s = "INTERRUPTED" /\ t \in {"RUNNING", "RUNNING_FIXTURE"} \cup Aborts

\* The statuses the durable services pass to _fenced_transition_to.
ServiceTargets == {"RUNNING", "VALIDATING", "READY_FOR_REVIEW",
                   "READY_FOR_REVIEW_FIXTURE"}

\* Ranks of PRE_PLANNER, POST_PLANNER, POST_CODER, POST_REVIEWER, POST_VALIDATION.
Checkpoints == 0..4

RecoveryClasses    == {"none", "normal", "orphan_stale_lease", "interrupted"}
RecoverableClasses == {"orphan_stale_lease", "interrupted"}

CheckpointRows == [cp : Checkpoints, artifact : Artifacts, by : Workers, epoch : 1..MaxEpoch]

-----------------------------------------------------------------------------
Init ==
    /\ status = "QUEUED"
    /\ claimed = FALSE
    /\ owner = NoOwner
    /\ epoch = 0
    /\ expiry = "none"
    /\ recov = "none"
    /\ accepted = -1
    /\ history = <<>>
    /\ handle = [w \in Workers |-> 0]
    /\ pass = [r \in Reconcilers |-> "idle"]

\* Mutant of Fence: the epoch comparison is dropped.
FenceByOwnerOnly(w) == handle[w] # 0 /\ owner = OwnerOf[w]

(* The fence every durable mutation repeats inside its own transaction. *)
Fence(w) == handle[w] # 0 /\ epoch = handle[w] /\ owner = OwnerOf[w]

(* A new lease_expiry_ms is later than the now_ms of every pass under way;   *)
(* the expiry 0 of a release is earlier than all of them.                    *)
Renewed  == [r \in Reconcilers |-> IF pass[r] = "due" THEN "renewed" ELSE pass[r]]
Released == [r \in Reconcilers |-> IF pass[r] = "renewed" THEN "due" ELSE pass[r]]

(* External: the coordinator inserts a claim row for a runnable task. *)
CoordinatorClaim ==
    /\ status \in {"QUEUED", "INTERRUPTED"}
    /\ claimed' = TRUE
    /\ UNCHANGED <<status, leaseVars, logVars, handle, pass>>

\* Mutant of CancelQueued: only durable_runs is searched for execution history.
CancelIgnoringClaims ==
    /\ status = "QUEUED"
    /\ epoch = 0
    /\ status' = "CANCELLED"
    /\ UNCHANGED <<claimed, leaseVars, logVars, handle, pass>>

(* cancel_queued_task: only a task with no trace of execution. *)
CancelQueued ==
    /\ status = "QUEUED"
    /\ ~claimed
    /\ epoch = 0
    /\ status' = "CANCELLED"
    /\ UNCHANGED <<claimed, leaseVars, logVars, handle, pass>>

(* _acquire_durable_lease: the insert of the one run and the status change. *)
Acquire(w) ==
    /\ handle[w] = 0
    /\ status \in {"QUEUED"} \cup Live
    /\ epoch = 0
    /\ owner' = OwnerOf[w]
    /\ epoch' = 1
    /\ expiry' = "live"
    /\ recov' = "normal"
    /\ status' = "PREPARING_WORKSPACE"
    /\ handle' = [handle EXCEPT ![w] = 1]
    /\ pass' = Renewed
    /\ UNCHANGED <<claimed, logVars>>

(* existing_epoch + 1, applied WHERE lease_epoch = existing_epoch. *)
NextEpoch == epoch + 1

(* The part of _recover_durable_lease that moves the lease. *)
TakeLease(w) ==
    /\ handle[w] = 0
    /\ epoch \in 1..(MaxEpoch - 1)
    /\ owner' = OwnerOf[w]
    /\ epoch' = NextEpoch
    /\ expiry' = "live"
    /\ handle' = [handle EXCEPT ![w] = NextEpoch]
    /\ pass' = Renewed
    /\ UNCHANGED <<claimed, recov, logVars>>

(* _recover_durable_lease with require_interrupted: the normal resume. *)
Recover(w) ==
    /\ status = "INTERRUPTED"
    /\ recov \in RecoverableClasses
    /\ TakeLease(w)
    /\ status' = "RUNNING"

(* _recover_durable_lease without require_interrupted.  A resume omits the    *)
(* requirement only after it has read BLOCKED, FAILED or CANCELLED, which are  *)
(* final; the lease is taken over and the status left alone.                   *)
RecoverAborted(w) ==
    /\ status \in Aborts
    /\ TakeLease(w)
    /\ UNCHANGED status

Heartbeat(w) ==
    /\ Fence(w)
    /\ expiry' = "live"
    /\ pass' = Renewed
    /\ UNCHANGED <<status, claimed, owner, epoch, recov, logVars, handle>>

Release(w) ==
    /\ Fence(w)
    /\ owner' = NoOwner
    /\ expiry' = "none"
    /\ pass' = Released
    /\ handle' = [handle EXCEPT ![w] = 0]
    /\ UNCHANGED <<status, claimed, epoch, recov, logVars>>

(* The call of w ends without releasing: it returns, it raises after being   *)
(* fenced, or its process dies.                                              *)
Leave(w) ==
    /\ handle[w] # 0
    /\ handle' = [handle EXCEPT ![w] = 0]
    /\ UNCHANGED <<status, claimed, leaseVars, logVars, pass>>

SetRecoveryClassification(w, c) ==
    /\ Fence(w)
    /\ recov' = c
    /\ UNCHANGED <<status, claimed, owner, epoch, expiry, logVars, handle, pass>>

\* Mutants of AcceptNext: the recorded rank is one too high; the
\* checkpoint_sequence_jump check is missing.
AcceptOffByOne(w, cp, a) ==
    /\ Fence(w)
    /\ cp = accepted + 1
    /\ accepted' = cp + 1
    /\ history' = Append(history, [cp |-> cp, artifact |-> a, by |-> w, epoch |-> epoch])
    /\ UNCHANGED <<status, claimed, leaseVars, handle, pass>>

AcceptAnyLater(w, cp, a) ==
    /\ Fence(w)
    /\ cp > accepted
    /\ accepted' = cp
    /\ history' = Append(history, [cp |-> cp, artifact |-> a, by |-> w, epoch |-> epoch])
    /\ UNCHANGED <<status, claimed, leaseVars, handle, pass>>

(* _accept_checkpoint: the next rank is appended ... *)
AcceptNext(w, cp, a) ==
    /\ Fence(w)
    /\ cp = accepted + 1
    /\ accepted' = cp
    /\ history' = Append(history, [cp |-> cp, artifact |-> a, by |-> w, epoch |-> epoch])
    /\ UNCHANGED <<status, claimed, leaseVars, handle, pass>>

(* ... and the current rank is accepted again without effect, provided the   *)
(* newest row of that rank carries the same artifact.                        *)
AcceptAgain(w, cp, a) ==
    /\ Fence(w)
    /\ cp = accepted
    /\ history # <<>>
    /\ history[Len(history)].artifact = a
    /\ UNCHANGED storeVars

AcceptCheckpoint(w, cp, a) == AcceptNext(w, cp, a) \/ AcceptAgain(w, cp, a)

(* _fenced_transition_to: a status already reached is confirmed silently. *)
TransitionTo(w, s) ==
    /\ Fence(w)
    /\ s = status \/ TransitionRules(status, s)
    /\ status' = s
    /\ UNCHANGED <<claimed, leaseVars, logVars, handle, pass>>

(* _fenced_classify_failure: BLOCKED or FAILED, never on a terminal task. *)
ClassifyFailure(w, s) ==
    /\ Fence(w)
    /\ status \notin Terminal
    /\ s \in {"BLOCKED", "FAILED"}
    /\ status' = s
    /\ UNCHANGED <<claimed, leaseVars, logVars, handle, pass>>

\* Mutant of Terminalize: the check of the current status is missing.
TerminalizeAlways(w, s) ==
    /\ Fence(w)
    /\ status' = s
    /\ UNCHANGED <<claimed, leaseVars, logVars, handle, pass>>

(* _fenced_terminalize: a task that is already terminal keeps its status. *)
Terminalize(w, s) ==
    /\ Fence(w)
    /\ s \in Terminal
    /\ status' = IF status \in Terminal THEN status ELSE s
    /\ UNCHANGED <<claimed, leaseVars, logVars, handle, pass>>

(* Real time passes the lease's expiry. *)
LeaseTimeout ==
    /\ expiry = "live"
    /\ expiry' = "expired"
    /\ UNCHANGED <<status, claimed, owner, epoch, recov, logVars, handle, pass>>

\* Mutant of ReconcileSelect: runs that die while preparing are not looked for.
SelectOnlyRunning(r) ==
    /\ pass[r] = "idle"
    /\ expiry = "expired"
    /\ status \in Live \ {"PREPARING_WORKSPACE"}
    /\ pass' = [pass EXCEPT ![r] = "due"]
    /\ UNCHANGED <<status, claimed, leaseVars, logVars, handle>>

(* _reconcile_expired_runs: the SELECT that finds the run ... *)
ReconcileSelect(r) ==
    /\ pass[r] = "idle"
    /\ expiry = "expired"
    /\ status \in Live
    /\ pass' = [pass EXCEPT ![r] = "due"]
    /\ UNCHANGED <<status, claimed, leaseVars, logVars, handle>>

\* Mutant of StillStale: the expiry is not read again inside the transaction.
StaleWhenSelected(r) ==
    /\ pass[r] # "idle"
    /\ status \in Live
    /\ recov \in {"normal", "orphan_stale_lease"}

StillStale(r) ==
    /\ pass[r] = "due"
    /\ status \in Live
    /\ recov \in {"normal", "orphan_stale_lease"}

\* Mutant of ReconcileInterrupt: lease_owner is not cleared.
InterruptKeepingOwner(r) ==
    /\ StillStale(r)
    /\ recov' = "orphan_stale_lease"
    /\ status' = "INTERRUPTED"
    /\ pass' = [pass EXCEPT ![r] = "idle"]
    /\ UNCHANGED <<claimed, owner, epoch, expiry, logVars, handle>>

(* ... and the transaction that rechecks it: interrupt, or leave it alone. *)
ReconcileInterrupt(r) ==
    /\ StillStale(r)
    /\ recov' = "orphan_stale_lease"
    /\ owner' = NoOwner
    /\ status' = "INTERRUPTED"
    /\ pass' = [pass EXCEPT ![r] = "idle"]
    /\ UNCHANGED <<claimed, epoch, expiry, logVars, handle>>

ReconcileSkip(r) ==
    /\ pass[r] # "idle"
    /\ ~StillStale(r)
    /\ pass' = [pass EXCEPT ![r] = "idle"]
    /\ UNCHANGED <<status, claimed, leaseVars, logVars, handle>>

WorkerStep(w) ==
    \/ Acquire(w)
    \/ Recover(w)
    \/ RecoverAborted(w)
    \/ Heartbeat(w)
    \/ Release(w)
    \/ Leave(w)
    \/ SetRecoveryClassification(w, "interrupted")
    \/ \E cp \in Checkpoints, a \in Artifacts : AcceptCheckpoint(w, cp, a)
    \/ \E s \in ServiceTargets : TransitionTo(w, s)
    \/ \E s \in {"BLOCKED", "FAILED"} : ClassifyFailure(w, s)
    \/ Terminalize(w, "FAILED")

ReconcilerStep(r) == ReconcileSelect(r) \/ ReconcileInterrupt(r) \/ ReconcileSkip(r)

Next ==
    \/ CoordinatorClaim
    \/ CancelQueued
    \/ LeaseTimeout
    \/ \E w \in Workers : WorkerStep(w)
    \/ \E r \in Reconcilers : ReconcilerStep(r)

StoreSpec == Init /\ [][Next]_storeVars

-----------------------------------------------------------------------------
(* The variables keep their types. *)
TypeOK ==
    /\ status \in Statuses
    /\ claimed \in BOOLEAN
    /\ owner \in Owners \cup {NoOwner}
    /\ epoch \in 0..MaxEpoch
    /\ expiry \in {"none", "live", "expired"}
    /\ recov \in RecoveryClasses
    /\ accepted \in -1..4
    /\ history \in Seq(CheckpointRows)
    /\ handle \in [Workers -> 0..MaxEpoch]
    /\ pass \in [Reconcilers -> {"idle", "due", "renewed"}]

(* At most one worker passes the fence, although resumers share one owner     *)
(* name: _recover_durable_lease never hands out an epoch twice.               *)
SingleHolder == \A v, w \in Workers : Fence(v) /\ Fence(w) => v = w

(* _accept_checkpoint keeps one row per rank, in rank order and without a     *)
(* gap; rows are written under non-decreasing epochs, and the rows of one     *)
(* epoch are all one worker's, so a superseded worker never slips a row in.   *)
CheckpointLog ==
    /\ accepted = Len(history) - 1
    /\ \A i \in 1..Len(history) : history[i].cp = i - 1
    /\ \A i, j \in 1..Len(history) :
          /\ i <= j => history[i].epoch <= history[j].epoch
          /\ history[i].epoch = history[j].epoch => history[i].by = history[j].by

(* An interrupted task is ownerless and resumable: no worker passes the fence *)
(* until _recover_durable_lease issues a new epoch, and that call will not    *)
(* refuse the recovery classification it finds.                               *)
InterruptedIsResumable ==
    status = "INTERRUPTED" =>
        /\ \A w \in Workers : ~Fence(w)
        /\ recov \in RecoverableClasses

(* cancel_queued_task and the coordinator's claim exclude each other: a       *)
(* cancelled task was never claimed and never had a run.                      *)
CancelledNeverRan == status = "CANCELLED" => epoch = 0 /\ ~claimed

(* A terminal status is final: no late fenced writer, reconciler or resume    *)
(* moves the task again.                                                      *)
TerminalIsFinal == [][(status \in Terminal) => (status' = status)]_storeVars

(* A handle that fails the fence fails it for ever, even when a later         *)
(* resumer takes the lease under the same owner name.                         *)
FencedForever ==
    [][\A w \in Workers :
          handle[w] # 0 /\ ~Fence(w) /\ handle'[w] = handle[w] => ~Fence(w)']_storeVars

(* _reconcile_expired_runs never interrupts a lease that a heartbeat renewed  *)
(* between its SELECT and its transaction.                                    *)
LiveLeaseIsKept ==
    [][status # "INTERRUPTED" /\ status' = "INTERRUPTED" => expiry # "live"]_storeVars

(* Accepted checkpoints are never rewritten, and an epoch is never reissued:  *)
(* the log only grows, the epoch only rises, and a new holder means a new     *)
(* epoch.                                                                     *)
DurableProgress ==
    [][/\ Len(history) <= Len(history')
       /\ \A i \in 1..Len(history) : history'[i] = history[i]
       /\ epoch <= epoch'
       /\ owner' # owner /\ owner' # NoOwner => epoch' = epoch + 1]_storeVars

-----------------------------------------------------------------------------
(* The fenced log behind the rows: who passes the fence now, the epoch, and     *)
(* the checkpoint history without the artifacts.                                *)
Fenced == INSTANCE FencedLog WITH
    holders <- {w \in Workers : Fence(w)},
    term    <- epoch,
    log     <- [i \in 1..Len(history) |-> [rank |-> history[i].cp,
                                           by   |-> history[i].by,
                                           term |-> history[i].epoch]]

(* The store implements a fenced log: a checkpoint is written only by the one   *)
(* worker the newest epoch was given to, at the next rank, whatever stale       *)
(* handles, takeovers of a live lease and reconcilers do in between.            *)
FencedLogSpec == Fenced!LogSpec
=============================================================================
