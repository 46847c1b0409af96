----------------------------- MODULE DurableTeam -----------------------------
(***************************************************************************)
(* DurableExecutionService in sequential-team mode                          *)
(* (platform_v1/durable_execution.py): execute_durable_sequential_team and  *)
(* resume_sequential_team as concurrent calls on the store of DurableStore. *)
(* A planner, a coder and a reviewer work one after the other in one linked *)
(* worktree, and each role's checkpoint is accepted before the next starts.  *)
(*                                                                         *)
(* The worktree's product diff is a small number (0: no diff): the code     *)
(* compares diffs and their digests for equality and tests them for         *)
(* emptiness, nothing else.  The conventions of DurableSingle hold: pc[w] is *)
(* the next transaction or external call of worker w, and a fenced write of *)
(* a column this module does not keep (handoff digests, changed files,      *)
(* validation results, events) is folded into the step that follows it.     *)
(***************************************************************************)
EXTENDS DurableStore

CONSTANTS
    Products,    \* product diffs the worktree can show; 0 is the empty one
    Handoffs,    \* digests of the plan and of the review
    NoHandoff,   \* the empty artifact_digest
    MaxCrashes,  \* bound on process deaths
    MaxStalls    \* bound on expiries of a lease whose holder is alive

ASSUME ProductAssumption == Products \subseteq Nat /\ 0 \in Products
ASSUME TeamArtifactAssumption ==
    [digest : Handoffs \cup {NoHandoff}, attempt : 1..MaxEpoch] \subseteq Artifacts
ASSUME TeamBoundAssumption == MaxCrashes \in Nat /\ MaxStalls \in Nat

VARIABLES
    attempt,      \* durable_runs.role_attempt
    coderDigest,  \* durable_runs.coder_product_diff_digest; -1: empty
    product,      \* the worktree's product diff
    headMoved,    \* the worktree's HEAD is not the recorded base
    pc,           \* where each call is
    seen,         \* the run row a resume read before it took the lease
    basis,        \* the diff the call's next role must leave as it is
    vexit,        \* the exit code of the call's validation
    crashes, stalls

runVars   == <<attempt, coderDigest>>
treeVars  == <<product, headMoved>>
callVars  == <<pc, seen, basis, vexit>>
faultVars == <<crashes, stalls>>
vars      == <<storeVars, runVars, treeVars, callVars, faultVars>>

Attempts == 1..MaxEpoch

Artifact(digest, n) == [digest |-> digest, attempt |-> n]

-----------------------------------------------------------------------------
(* The program. *)

Roles   == {"planner", "coder", "reviewer"}
Working == [planner |-> "planning", coder |-> "coding", reviewer |-> "reviewing"]

\* Where a role leads when it succeeded, and the checkpoint accepted for it.
RoleDone   == [planning |-> "accept1", coding |-> "setCoderDigest", reviewing |-> "accept3"]
CheckpointOf == [accept0 |-> 0, accept1 |-> 1, accept2 |-> 2, accept3 |-> 3,
                 accept4 |-> 4, late4 |-> 4]
AfterAccept  == [accept0 |-> "running", accept1 |-> "coder", accept2 |-> "reviewer",
                 accept3 |-> "validate", accept4 |-> "validating", late4 |-> "successReturn"]

\* _resume_from_post_reviewer announces the status before POST_VALIDATION.
TransitionSteps ==
    [ running        |-> [to |-> "RUNNING", next |-> "planner"],
      validating     |-> [to |-> "VALIDATING", next |-> "finish"],
      lateValidating |-> [to |-> "VALIDATING", next |-> "lateFinish"] ]

ClassifySteps == [ blocked |-> "BLOCKED", contextInvalid |-> "FAILED" ]

(* Where a resume continues, by the accepted checkpoint it read. *)
ResumeAt == [a \in 0..4 |-> CASE a \in {0, 2} -> "context"
                              [] a = 1 -> "partial"
                              [] a = 3 -> "lateValidate"
                              [] a = 4 -> "successReturn"]

RemainingFrom == [a \in 0..2 |-> CASE a = 0 -> "planner"
                                   [] a = 1 -> "coder"
                                   [] a = 2 -> "reviewer"]

FencedLabels == DOMAIN CheckpointOf \cup DOMAIN TransitionSteps \cup DOMAIN ClassifySteps
                  \cup {"setCoderDigest", "partial", "setAttempt", "setInterrupted",
                        "roleFailed", "finish", "lateFinish"}

(* Labels inside the body of heartbeat_during, where the lease is held. *)
LeasedLabels == FencedLabels \cup Roles \cup {Working[r] : r \in Roles}
                  \cup {"prepare", "context", "validate", "lateValidate",
                        "successReturn", "failureReturn"}

Labels == {"idle", "readTask", "recover", "recoverAborted"} \cup LeasedLabels

NoRun == [accepted |-> -1, recov |-> "none", attempt |-> 1, coder |-> -1]

Goto(w, label) == pc' = [pc EXCEPT ![w] = label]

(* The call ends; its locals are gone. *)
Return(w) ==
    /\ pc' = [pc EXCEPT ![w] = "idle"]
    /\ seen' = [seen EXCEPT ![w] = NoRun]
    /\ basis' = [basis EXCEPT ![w] = 0]
    /\ vexit' = [vexit EXCEPT ![w] = "none"]

\* Mutant of RunRoleAttempt: the attempt is counted twice.
RunRoleAttemptTwice(w) == IF seen[w].accepted = 1 THEN seen[w].attempt + 2 ELSE seen[w].attempt

(* run_role_attempt: a resume at POST_PLANNER repeats the coder. *)
RunRoleAttempt(w) == IF seen[w].accepted = 1 THEN seen[w].attempt + 1 ELSE seen[w].attempt

TeamInit ==
    /\ Init
    /\ attempt = 1
    /\ coderDigest = -1
    /\ product = 0
    /\ headMoved = FALSE
    /\ pc = [w \in Workers |-> "idle"]
    /\ seen = [w \in Workers |-> NoRun]
    /\ basis = [w \in Workers |-> 0]
    /\ vexit = [w \in Workers |-> "none"]
    /\ crashes = 0
    /\ stalls = 0

-----------------------------------------------------------------------------
(* execute_durable_sequential_team: take the lease of a fresh run ... *)
Execute(w) ==
    /\ pc[w] = "idle"
    /\ Acquire(w)
    /\ Goto(w, "prepare")
    /\ UNCHANGED <<runVars, treeVars, seen, basis, vexit, faultVars>>

(* ... create the executor and the linked worktree and record their identity; *)
(* a failure is classified as blocked.                                        *)
Prepare(w) ==
    /\ pc[w] = "prepare"
    /\ Goto(w, "accept0") \/ Goto(w, "blocked")
    /\ UNCHANGED <<storeVars, runVars, treeVars, seen, basis, vexit, faultVars>>

(* resume_sequential_team: without a run it raises; else the run row is read, *)
(* and everything later relies on it ...                                      *)
ResumeReadRun(w) ==
    /\ pc[w] = "idle"
    /\ epoch # 0
    /\ seen' = [seen EXCEPT ![w] = [accepted |-> accepted, recov |-> recov,
                                    attempt |-> attempt, coder |-> coderDigest]]
    /\ Goto(w, "readTask")
    /\ UNCHANGED <<storeVars, runVars, treeVars, basis, vexit, faultVars>>

\* Mutants of Resumable: a running task whose lease ran out may be resumed; an
\* orphaned run is not.
ResumableOnceExpired(w) ==
    /\ \/ status = "INTERRUPTED" /\ seen[w].recov \in RecoverableClasses
       \/ status \in Aborts
       \/ status \in Live /\ expiry # "live"
    /\ ~headMoved
    /\ seen[w].accepted # -1

ResumableWhenClassified(w) ==
    /\ \/ status = "INTERRUPTED" /\ seen[w].recov = "interrupted"
       \/ status \in Aborts
    /\ ~headMoved
    /\ seen[w].accepted # -1

Resumable(w) ==
    /\ \/ status = "INTERRUPTED" /\ seen[w].recov \in RecoverableClasses
       \/ status \in Aborts
    /\ ~headMoved                 \* worktree_head_mismatch
    /\ seen[w].accepted # -1      \* pre_pre_planner_no_reconstruction_path

(* ... then the task: a ready one is answered, others are refused, or ... *)
ResumeReadTask(w) ==
    /\ pc[w] = "readTask"
    /\ IF Resumable(w)
          THEN /\ Goto(w, IF status = "INTERRUPTED" THEN "recover" ELSE "recoverAborted")
               /\ UNCHANGED <<seen, basis, vexit>>
          ELSE Return(w)
    /\ UNCHANGED <<storeVars, runVars, treeVars, faultVars>>

(* ... the lease is recovered and the work continues at the checkpoint read. *)
ResumeRecover(w) ==
    /\ pc[w] = "recover"
    /\ Recover(w)
    /\ Goto(w, ResumeAt[seen[w].accepted])
    /\ UNCHANGED <<runVars, treeVars, seen, basis, vexit, faultVars>>

ResumeRecoverAborted(w) ==
    /\ pc[w] = "recoverAborted"
    /\ TakeLease(w)
    /\ UNCHANGED status
    /\ Goto(w, ResumeAt[seen[w].accepted])
    /\ UNCHANGED <<runVars, treeVars, seen, basis, vexit, faultVars>>

(* durable_recover_wrong_task_status: another resume was faster. *)
ResumeTooLate(w) ==
    /\ pc[w] = "recover"
    /\ status # "INTERRUPTED"
    /\ Return(w)
    /\ UNCHANGED <<storeVars, runVars, treeVars, faultVars>>

-----------------------------------------------------------------------------
(* The interrupted coder: what it left is recorded as the coder's product ... *)
KeepPartial(w) ==
    /\ pc[w] = "partial"
    /\ Fence(w)
    /\ coderDigest' = IF product # 0 THEN product ELSE coderDigest
    /\ Goto(w, "setAttempt")
    /\ UNCHANGED <<storeVars, attempt, treeVars, seen, basis, vexit, faultVars>>

(* ... its attempt is counted ... *)
SetRoleAttempt(w) ==
    /\ pc[w] = "setAttempt"
    /\ Fence(w)
    /\ attempt' = RunRoleAttempt(w)
    /\ Goto(w, "setInterrupted")
    /\ UNCHANGED <<storeVars, coderDigest, treeVars, seen, basis, vexit, faultVars>>

(* ... and the run is classified, under the lease of the call that resumes it. *)
ClassifyInterrupted(w) ==
    /\ pc[w] = "setInterrupted"
    /\ SetRecoveryClassification(w, "interrupted")
    /\ Goto(w, "context")
    /\ UNCHANGED <<runVars, treeVars, seen, basis, vexit, faultVars>>

(* coder_snapshot_missing, coder_snapshot_mismatch: a reviewer resumes only on *)
(* the product the coder's digest records.                                     *)
SnapshotFits(w) == seen[w].accepted = 2 => seen[w].coder = product

(* _resume_roles before its loop: the executor is created (or the call is      *)
(* blocked), its context reconstructed (or invalid) and the product collected. *)
ResumeContext(w) ==
    /\ pc[w] = "context"
    /\ \/ /\ Goto(w, "blocked") \/ Goto(w, "contextInvalid")
          /\ UNCHANGED basis
       \/ /\ Goto(w, IF SnapshotFits(w) THEN RemainingFrom[seen[w].accepted]
                                        ELSE "contextInvalid")
          /\ basis' = [basis EXCEPT ![w] = product]
    /\ UNCHANGED <<storeVars, runVars, treeVars, seen, vexit, faultVars>>

-----------------------------------------------------------------------------
(* The role loop.  execute_role_prepared starts the role's executor ... *)
InvokeRole(w) ==
    /\ pc[w] \in Roles
    /\ Goto(w, Working[pc[w]])
    /\ UNCHANGED <<storeVars, runVars, treeVars, seen, basis, vexit, faultVars>>

(* External: ... which edits the worktree, whatever its role allows, and may   *)
(* commit there ...                                                            *)
RoleEdits(w) ==
    /\ pc[w] \in DOMAIN RoleDone
    /\ product' \in Products
    /\ headMoved' \in {headMoved, TRUE}
    /\ UNCHANGED <<storeVars, runVars, callVars, faultVars>>

\* Mutant of RoleIsValid: the reviewer's product is not compared.
RoleIsValidUnchecked(w) == CASE pc[w] = "planning"  -> product = basis[w]
                             [] pc[w] = "coding"    -> product # 0
                             [] pc[w] = "reviewing" -> TRUE

(* planner_product_mutation, no_coder_product_diff, reviewer_product_mutation *)
RoleIsValid(w) == CASE pc[w] \in {"planning", "reviewing"} -> product = basis[w]
                    [] pc[w] = "coding" -> product # 0

(* A first run also looks at HEAD after every role. *)
HeadIsKept(w) == seen[w] # NoRun \/ ~headMoved

(* ... and reports success.  The role's invariant decides, and the coder's      *)
(* product becomes the snapshot for the reviewer.                               *)
RoleSucceeds(w) ==
    /\ pc[w] \in DOMAIN RoleDone
    /\ Goto(w, IF RoleIsValid(w) /\ (pc[w] = "coding" \/ HeadIsKept(w))
                  THEN RoleDone[pc[w]] ELSE "roleFailed")
    /\ basis' = IF pc[w] = "coding" THEN [basis EXCEPT ![w] = product] ELSE basis
    /\ UNCHANGED <<storeVars, runVars, treeVars, seen, vexit, faultVars>>

(* Its executor reports a failure, raises, or left no valid handoff. *)
RoleFails(w) ==
    /\ pc[w] \in DOMAIN RoleDone
    /\ Goto(w, "roleFailed")
    /\ UNCHANGED <<storeVars, runVars, treeVars, seen, basis, vexit, faultVars>>

(* The coder's snapshot is recorded before HEAD is looked at. *)
SetCoderDigest(w) ==
    /\ pc[w] = "setCoderDigest"
    /\ Fence(w)
    /\ coderDigest' = basis[w]
    /\ Goto(w, IF HeadIsKept(w) THEN "accept2" ELSE "roleFailed")
    /\ UNCHANGED <<storeVars, attempt, treeVars, seen, basis, vexit, faultVars>>

(* _complete_durable_failure: a terminal task keeps its status, silently.  No   *)
(* role is classified "blocked", the one name the store maps to BLOCKED.        *)
RoleFailed(w) ==
    /\ pc[w] = "roleFailed"
    /\ Terminalize(w, "FAILED")
    /\ Goto(w, "failureReturn")
    /\ UNCHANGED <<runVars, treeVars, seen, basis, vexit, faultVars>>

-----------------------------------------------------------------------------
(* The artifact a checkpoint is accepted with: planner and reviewer leave a    *)
(* handoff file, the other checkpoints have no digest.                         *)
ArtifactsAt(w) ==
    CASE pc[w] = "accept0" -> {Artifact(NoHandoff, 1)}
      [] pc[w] \in {"accept1", "accept3"} -> {Artifact(h, RunRoleAttempt(w)) : h \in Handoffs}
      [] OTHER -> {Artifact(NoHandoff, RunRoleAttempt(w))}

AcceptStep(w) ==
    /\ pc[w] \in DOMAIN CheckpointOf
    /\ \E a \in ArtifactsAt(w) : AcceptCheckpoint(w, CheckpointOf[pc[w]], a)
    /\ Goto(w, AfterAccept[pc[w]])
    /\ UNCHANGED <<runVars, treeVars, seen, basis, vexit, faultVars>>

(* RUNNING is entered with the baseline product already collected. *)
TransitionStep(w) ==
    /\ pc[w] \in DOMAIN TransitionSteps
    /\ LET s == TransitionSteps[pc[w]]
       IN  TransitionTo(w, s.to) /\ Goto(w, s.next)
    /\ basis' = IF pc[w] = "running" THEN [basis EXCEPT ![w] = product] ELSE basis
    /\ UNCHANGED <<runVars, treeVars, seen, vexit, faultVars>>

ClassifyStep(w) ==
    /\ pc[w] \in DOMAIN ClassifySteps
    /\ ClassifyFailure(w, ClassifySteps[pc[w]])
    /\ Goto(w, "failureReturn")
    /\ UNCHANGED <<runVars, treeVars, seen, basis, vexit, faultVars>>

(* LocalValidationRunner *)
Validate(w) ==
    /\ pc[w] \in {"validate", "lateValidate"}
    /\ \E x \in {"ok", "bad"} : vexit' = [vexit EXCEPT ![w] = x]
    /\ Goto(w, IF pc[w] = "validate" THEN "accept4" ELSE "lateValidating")
    /\ UNCHANGED <<storeVars, runVars, treeVars, seen, basis, faultVars>>

Finish(w) ==
    /\ pc[w] \in {"finish", "lateFinish"}
    /\ IF vexit[w] = "ok"
          THEN /\ TransitionTo(w, "READY_FOR_REVIEW")
               /\ Goto(w, IF pc[w] = "finish" THEN "successReturn" ELSE "late4")
          ELSE Terminalize(w, "FAILED") /\ Goto(w, "failureReturn")
    /\ UNCHANGED <<runVars, treeVars, seen, basis, vexit, faultVars>>

(* A normal return does not release the lease: it is left to expire. *)
ReturnStep(w) ==
    /\ pc[w] \in {"successReturn", "failureReturn"}
    /\ Leave(w)
    /\ Return(w)
    /\ UNCHANGED <<runVars, treeVars, faultVars>>

-----------------------------------------------------------------------------
(* Exceptions.  The store refuses a step of a superseded worker ... *)
RaiseFenced(w) ==
    /\ pc[w] \in FencedLabels
    /\ ~Fence(w)
    /\ Leave(w)
    /\ Return(w)
    /\ UNCHANGED <<runVars, treeVars, faultVars>>

RefusedTransition(s) == s # status /\ ~TransitionRules(status, s)

Refused(w) ==
    \/ /\ pc[w] \in DOMAIN CheckpointOf
       /\ CheckpointOf[pc[w]] # accepted + 1
       /\ CheckpointOf[pc[w]] = accepted
            => \E a \in ArtifactsAt(w) : history[Len(history)].artifact # a
    \/ pc[w] \in DOMAIN TransitionSteps /\ RefusedTransition(TransitionSteps[pc[w]].to)
    \/ pc[w] \in DOMAIN ClassifySteps /\ status \in Terminal
    \/ pc[w] \in {"finish", "lateFinish"} /\ vexit[w] = "ok"
         /\ RefusedTransition("READY_FOR_REVIEW")

(* ... or the holder's own step when it does not fit the run; the wrapper then  *)
(* releases the lease and leaves the status as it is.                           *)
RaiseRefused(w) ==
    /\ pc[w] \in FencedLabels
    /\ Refused(w)
    /\ Release(w)
    /\ Return(w)
    /\ UNCHANGED <<runVars, treeVars, faultVars>>

(* The process of w dies with its role's executor: what that wrote stays. *)
Crash(w) ==
    /\ crashes < MaxCrashes
    /\ pc[w] # "idle"
    /\ crashes' = crashes + 1
    /\ IF handle[w] # 0 THEN Leave(w) ELSE UNCHANGED storeVars
    /\ Return(w)
    /\ UNCHANGED <<runVars, treeVars, stalls>>

(* _HeartbeatContext: renews while the call is under way. *)
KeepAlive(w) ==
    /\ pc[w] \in LeasedLabels
    /\ Heartbeat(w)
    /\ UNCHANGED <<runVars, treeVars, callVars, faultVars>>

(* A lease expires when nobody renews it: its holder is gone, or stalls. *)
Expire ==
    /\ LeaseTimeout
    /\ stalls' = IF \E w \in Workers : Fence(w) THEN stalls + 1 ELSE stalls
    /\ stalls' <= MaxStalls
    /\ UNCHANGED <<runVars, treeVars, callVars, crashes>>

Reconcile(r) ==
    /\ ReconcilerStep(r)
    /\ UNCHANGED <<runVars, treeVars, callVars, faultVars>>

Call(w) ==
    \/ Execute(w) \/ Prepare(w)
    \/ ResumeReadRun(w) \/ ResumeReadTask(w)
    \/ ResumeRecover(w) \/ ResumeRecoverAborted(w) \/ ResumeTooLate(w)
    \/ KeepPartial(w) \/ SetRoleAttempt(w) \/ ClassifyInterrupted(w) \/ ResumeContext(w)
    \/ InvokeRole(w) \/ RoleSucceeds(w) \/ RoleFails(w) \/ SetCoderDigest(w) \/ RoleFailed(w)
    \/ AcceptStep(w) \/ TransitionStep(w) \/ ClassifyStep(w)
    \/ Validate(w) \/ Finish(w) \/ ReturnStep(w)
    \/ RaiseFenced(w) \/ RaiseRefused(w)

TeamNext ==
    \/ \E w \in Workers : Call(w) \/ RoleEdits(w) \/ KeepAlive(w) \/ Crash(w)
    \/ \E r \in Reconcilers : Reconcile(r)
    \/ Expire

TeamSpec == TeamInit /\ [][TeamNext]_vars

(* Calls run to their end, a dead holder's lease expires, and the hosts whose *)
(* start runs the reconciliation are started again.                           *)
TeamFairness ==
    /\ \A w \in Workers : WF_vars(Call(w))
    /\ \A r \in Reconcilers : WF_vars(Reconcile(r))
    /\ WF_vars(Expire /\ \A w \in Workers : ~Fence(w))

FairTeamSpec == TeamSpec /\ TeamFairness

-----------------------------------------------------------------------------
(* The variables keep their types. *)
TeamTypeOK ==
    /\ attempt \in Attempts
    /\ coderDigest \in {-1} \cup Products
    /\ product \in Products
    /\ headMoved \in BOOLEAN
    /\ pc \in [Workers -> Labels]
    /\ seen \in [Workers -> [accepted : -1..4, recov : RecoveryClasses,
                             attempt : Attempts, coder : {-1} \cup Products]]
    /\ basis \in [Workers -> Products]
    /\ vexit \in [Workers -> {"none", "ok", "bad"}]
    /\ crashes \in 0..MaxCrashes
    /\ stalls \in 0..MaxStalls

(* What is offered for review is what the coder made and the reviewer saw: a    *)
(* task being validated or ready has all three roles accepted, and its worktree *)
(* shows, non-empty, exactly the product the run records for the coder,         *)
(* although roles may write what they like, calls crash in the middle of a role *)
(* and a resume repeats it.  Assumes that no live holder's lease runs out       *)
(* (MaxStalls = 0): nothing stops a superseded call's executor from writing.    *)
(* And that no resume is overtaken between its read of the run and its lease,   *)
(* which one crash cannot bring about: a role it then repeats from an old       *)
(* checkpoint may write the worktree before the store refuses its result.       *)
ReviewedIsCoded ==
    status \in {"VALIDATING", "READY_FOR_REVIEW"} =>
        accepted >= 3 /\ product = coderDigest /\ product # 0

(* The run reaches a point that needs no further recovery: it is terminal, all  *)
(* its checkpoints are accepted, or a resume declines it (nothing accepted yet, *)
(* or a HEAD that is not the recorded one).                                     *)
TeamSettled ==
    \/ status \in Terminal
    \/ accepted = 4
    \/ status = "INTERRUPTED" /\ (accepted = -1 \/ headMoved)

(* One crash, at any point of a first run or of a resume of an aborted task, is *)
(* recovered from: reconciliation and a resume bring the run to an end.         *)
EventuallyTeamSettled == <>[]TeamSettled
=============================================================================
