---------------------------- MODULE DurableSingle ----------------------------
(***************************************************************************)
(* DurableExecutionService in single mode (platform_v1/durable_execution.py): *)
(* execute_durable_single and resume_single as concurrent calls on the store *)
(* of DurableStore, with the external-operation journal.                     *)
(*                                                                         *)
(* pc[w] is the next store transaction or external call of worker w.  The   *)
(* program is straight-line between branches, so its checkpoint and status  *)
(* steps are tables.  A fenced write of a column this module does not keep  *)
(* (changed files, events, evidence, validation_command_id ...) is folded   *)
(* into the next step: it has no effect here but to raise when the lease is *)
(* lost, and then the next step raises as well.                             *)
(*                                                                         *)
(* A call ends by returning, by raising (the lease is released when it is   *)
(* still held) or by the death of its process (nothing is released).  Its   *)
(* worker is then idle again and may be used for another call.              *)
(***************************************************************************)
EXTENDS DurableStore

CONSTANTS
    Kind,        \* tasks.executor_kind: "opencode" or "deterministic_fixture"
    MaxCrashes,  \* bound on process deaths
    MaxStalls,   \* bound on expiries of a lease whose holder is alive
    IOFaults     \* whether a step may raise for a reason outside the model

ASSUME KindAssumption == Kind \in {"opencode", "deterministic_fixture"}
ASSUME ArtifactAssumption == {"none", "result", "error"} \subseteq Artifacts
ASSUME BoundAssumption == /\ MaxCrashes \in Nat
                          /\ MaxStalls \in Nat
                          /\ IOFaults \in BOOLEAN

VARIABLES
    pc,          \* where each call is
    mode,        \* "execute" or "resume"
    seen,        \* the run row a resume read before it took the lease
    vexit,       \* the exit code of the call's validation
    answer,      \* what the last call of the worker returned
    ops,         \* durable_external_operations: state of each request digest
    dispatched,  \* how often the executor was started for each request digest
    taskExit,    \* tasks.validation_exit_code
    crashes, stalls

callVars    == <<pc, mode, seen, vexit, answer>>
journalVars == <<ops, dispatched>>
faultVars   == <<crashes, stalls>>
vars        == <<storeVars, callVars, journalVars, taskExit, faultVars>>

Ready == {"READY_FOR_REVIEW", "READY_FOR_REVIEW_FIXTURE"}

review_status == IF Kind = "opencode" THEN "READY_FOR_REVIEW"
                                      ELSE "READY_FOR_REVIEW_FIXTURE"

-----------------------------------------------------------------------------
(* The program: the checkpoints and status changes each label stands for. *)

Accept(cp, artifact, next) == [cp |-> cp, artifact |-> artifact, next |-> next]

\* Mutant of AcceptSteps: POST_REVIEWER leads past the validation.
AcceptStepsUnvalidated ==
    [ accept0 |-> Accept(0, "none", "running"),
      accept1 |-> Accept(1, "result", "accept2"),
      accept2 |-> Accept(2, "none", "accept3"),
      accept3 |-> Accept(3, "none", "setTaskValidation"),
      accept4 |-> Accept(4, "none", "setTaskValidation"),
      failed1 |-> Accept(1, "error", "failed2"),
      failed2 |-> Accept(2, "none", "failed3"),
      failed3 |-> Accept(3, "none", "failed4"),
      failed4 |-> Accept(4, "none", "failedEnd") ]

AcceptSteps ==
    [ accept0 |-> Accept(0, "none", "running"),
      \* the executor succeeded
      accept1 |-> Accept(1, "result", "accept2"),
      accept2 |-> Accept(2, "none", "accept3"),
      accept3 |-> Accept(3, "none", "validate"),
      accept4 |-> Accept(4, "none", "setTaskValidation"),
      \* the executor reported a failure
      failed1 |-> Accept(1, "error", "failed2"),
      failed2 |-> Accept(2, "none", "failed3"),
      failed3 |-> Accept(3, "none", "failed4"),
      failed4 |-> Accept(4, "none", "failedEnd") ]

TransitionSteps ==
    [ running    |-> [to |-> "RUNNING", next |-> "record"],
      validating |-> [to |-> "VALIDATING", next |-> "finish"] ]

(* classify_failure: with the status it sets. *)
ClassifySteps ==
    [ blocked   |-> [to |-> "BLOCKED", next |-> "failureReturn"],
      raised    |-> [to |-> "FAILED", next |-> "raisedEnd"],
      ambiguous |-> [to |-> "FAILED", next |-> "ambiguousEnd"] ]

\* Mutant of ResumeAt: a checkpoint is resumed at the role it names.
ResumeAtRole == [a \in 0..3 |-> CASE a = 0 -> "checkJournal"
                                  [] a = 1 -> "coder"
                                  [] a = 2 -> "accept3"
                                  [] a = 3 -> "validate"]

(* Where a resume continues, by the accepted checkpoint it read. *)
ResumeAt == [a \in 0..3 |-> CASE a = 0 -> "checkJournal"
                              [] a = 1 -> "accept2"
                              [] a = 2 -> "accept3"
                              [] a = 3 -> "validate"]

FencedLabels == DOMAIN AcceptSteps \cup DOMAIN TransitionSteps \cup DOMAIN ClassifySteps
                  \cup {"record", "reconcileOp", "reconcileRaised", "failedEnd",
                        "raisedEnd", "ambiguousEnd", "setTaskValidation", "finish"}

(* Labels inside the body of heartbeat_during, where the lease is held. *)
LeasedLabels == FencedLabels \cup {"prepare", "dispatch", "executing", "checkJournal",
                                   "validate", "failureReturn", "successReturn"}

ResumeLabels == {"readRun", "readTask", "recover", "recoverAborted"}

Labels == {"idle"} \cup LeasedLabels \cup ResumeLabels

NoRun == [accepted |-> -1, recov |-> "none"]

Goto(w, label) == pc' = [pc EXCEPT ![w] = label]

Return(w, a) ==
    /\ pc' = [pc EXCEPT ![w] = "idle"]
    /\ answer' = [answer EXCEPT ![w] = a]
    /\ seen' = [seen EXCEPT ![w] = NoRun]
    /\ vexit' = [vexit EXCEPT ![w] = "none"]
    /\ UNCHANGED mode

(* The request digest covers workspace_root: the service's root in a first    *)
(* run, the recorded worktree path (or the empty string) in a resume.         *)
RequestDigest(w) == IF mode[w] = "execute" THEN "workspace_root" ELSE "worktree_path"

RequestDigests == {"workspace_root", "worktree_path"}

SingleInit ==
    /\ Init
    /\ pc = [w \in Workers |-> "idle"]
    /\ mode = [w \in Workers |-> "execute"]
    /\ seen = [w \in Workers |-> NoRun]
    /\ vexit = [w \in Workers |-> "none"]
    /\ answer = [w \in Workers |-> "none"]
    /\ ops = [d \in RequestDigests |-> "absent"]
    /\ dispatched = [d \in RequestDigests |-> 0]
    /\ taskExit = "none"
    /\ crashes = 0
    /\ stalls = 0

-----------------------------------------------------------------------------
(* execute_durable_single: take the lease of a fresh run. *)
Execute(w) ==
    /\ pc[w] = "idle"
    /\ Acquire(w)
    /\ Goto(w, IF Kind = "opencode" THEN "prepare" ELSE "accept0")
    /\ mode' = [mode EXCEPT ![w] = "execute"]
    /\ UNCHANGED <<seen, vexit, answer, journalVars, taskExit, faultVars>>

(* opencode: create the executor and its linked worktree, and record their    *)
(* identity in the run; a failure is classified as blocked.                   *)
Prepare(w) ==
    /\ pc[w] = "prepare"
    /\ Goto(w, "accept0") \/ Goto(w, "blocked")
    /\ UNCHANGED <<storeVars, mode, seen, vexit, answer, journalVars, taskExit, faultVars>>

(* resume_single: three separate reads.  The first answers for a task that is  *)
(* ready, refuses one that is aborted or has no run, or finds the run ...      *)
ResumeFind(w) ==
    /\ pc[w] = "idle"
    /\ \/ /\ status \in Ready
          /\ Return(w, "success")
       \/ /\ status \in Aborts \/ epoch = 0
          /\ Return(w, "error")
       \/ /\ status \notin Terminal /\ epoch # 0
          /\ Goto(w, "readRun")
          /\ mode' = [mode EXCEPT ![w] = "resume"]
          /\ UNCHANGED <<seen, vexit, answer>>
    /\ UNCHANGED <<storeVars, journalVars, taskExit, faultVars>>

(* ... the second reads the run row, and everything later relies on it ...    *)
ResumeReadRun(w) ==
    /\ pc[w] = "readRun"
    /\ seen' = [seen EXCEPT ![w] = [accepted |-> accepted, recov |-> recov]]
    /\ Goto(w, "readTask")
    /\ UNCHANGED <<storeVars, mode, vexit, answer, journalVars, taskExit, faultVars>>

\* Mutant of Resumable: a running task whose lease ran out may be resumed.
ResumableOnceExpired(w) ==
    \/ status = "INTERRUPTED" /\ seen[w].recov \in RecoverableClasses
    \/ status \in Aborts
    \/ status = "RUNNING" /\ expiry = "expired"

Resumable(w) ==
    \/ status = "INTERRUPTED" /\ seen[w].recov \in RecoverableClasses
    \/ status \in Aborts

\* Mutant of Completed: POST_REVIEWER already counts as the end.
CompletedAtReview(w) == seen[w].accepted >= 3

Completed(w) == seen[w].accepted = 4

(* ... and the third reads the task's status and decides. *)
ResumeReadTask(w) ==
    /\ pc[w] = "readTask"
    /\ \/ /\ status \in Ready
          /\ Return(w, "success")
       \/ /\ status \notin Ready
          /\ ~Resumable(w) \/ IOFaults  \* IOFaults: the worktree, its HEAD or the authority
          /\ Return(w, "error")         \* differ from what the run records
       \/ /\ Resumable(w)
          /\ Completed(w)
          /\ Return(w, "success")
       \/ /\ Resumable(w)
          /\ seen[w].accepted = -1
          /\ Return(w, "error")
       \/ /\ Resumable(w)
          /\ seen[w].accepted \in 0..3
          /\ Goto(w, IF status = "INTERRUPTED" THEN "recover" ELSE "recoverAborted")
          /\ UNCHANGED <<mode, seen, vexit, answer>>
    /\ UNCHANGED <<storeVars, journalVars, taskExit, faultVars>>

(* The lease is recovered and the work continues at the checkpoint read. *)
ResumeRecover(w) ==
    /\ pc[w] = "recover"
    /\ Recover(w)
    /\ Goto(w, ResumeAt[seen[w].accepted])
    /\ UNCHANGED <<mode, seen, vexit, answer, journalVars, taskExit, faultVars>>

ResumeRecoverAborted(w) ==
    /\ pc[w] = "recoverAborted"
    /\ TakeLease(w)
    /\ UNCHANGED status
    /\ Goto(w, ResumeAt[seen[w].accepted])
    /\ UNCHANGED <<mode, seen, vexit, answer, journalVars, taskExit, faultVars>>

(* durable_recover_wrong_task_status: another resume was faster. *)
ResumeTooLate(w) ==
    /\ pc[w] = "recover"
    /\ status # "INTERRUPTED"
    /\ Return(w, "error")
    /\ UNCHANGED <<storeVars, journalVars, taskExit, faultVars>>

-----------------------------------------------------------------------------
(* The journal and the executor. *)

\* Mutant of PreventsDispatch: a PENDING operation does not count.
PreventsAfterSuccess(w) == Fence(w) /\ ops[RequestDigest(w)] \in {"SUCCESS", "RECONCILED"}

(* _external_operation_prevents_dispatch: a fenced caller is told FALSE, and  *)
(* then fails to record.                                                      *)
PreventsDispatch(w) == Fence(w) /\ ops[RequestDigest(w)] # "absent"

CheckJournal(w) ==
    /\ pc[w] = "checkJournal"
    /\ \/ Goto(w, IF PreventsDispatch(w) THEN "ambiguous" ELSE "record")
       \/ IOFaults /\ Goto(w, "record")    \* a database error is answered FALSE
    /\ UNCHANGED <<storeVars, mode, seen, vexit, answer, journalVars, taskExit, faultVars>>

(* _record_external_operation: an existing record is returned as it is. *)
RecordOperation(w) ==
    /\ pc[w] = "record"
    /\ Fence(w)
    /\ ops' = [ops EXCEPT ![RequestDigest(w)] = IF @ = "absent" THEN "PENDING" ELSE @]
    /\ Goto(w, "dispatch")
    /\ UNCHANGED <<storeVars, mode, seen, vexit, answer, dispatched, taskExit, faultVars>>

(* External: the executor process is started. *)
Dispatch(w) ==
    /\ pc[w] = "dispatch"
    /\ dispatched' = [dispatched EXCEPT ![RequestDigest(w)] = @ + 1]
    /\ Goto(w, "executing")
    /\ UNCHANGED <<storeVars, mode, seen, vexit, answer, ops, taskExit, faultVars>>

(* create_executor fails after the record; a first opencode run has created   *)
(* its executor long before.                                                  *)
CreateFails(w) ==
    /\ pc[w] = "dispatch"
    /\ mode[w] = "resume" \/ Kind = "deterministic_fixture"
    /\ Goto(w, "blocked")
    /\ UNCHANGED <<storeVars, mode, seen, vexit, answer, journalVars, taskExit, faultVars>>

(* External: the executor reports success, reports a failure or raises. *)
ExecutorEnds(w) ==
    /\ pc[w] = "executing"
    /\ \E x \in {"ok", "bad"} : vexit' = [vexit EXCEPT ![w] = x]
    /\ Goto(w, "reconcileOp")
    /\ UNCHANGED <<storeVars, mode, seen, answer, journalVars, taskExit, faultVars>>

ExecutorRaises(w) ==
    /\ pc[w] = "executing"
    /\ Goto(w, "raised")
    /\ UNCHANGED <<storeVars, mode, seen, vexit, answer, journalVars, taskExit, faultVars>>

\* Mutant of ReconcileOperation: the operation is left PENDING.
ReconcileForgotten(w) ==
    /\ pc[w] = "reconcileOp"
    /\ Fence(w)
    /\ Goto(w, IF vexit[w] = "ok" THEN "accept1" ELSE "failed1")
    /\ UNCHANGED <<storeVars, mode, seen, vexit, answer, journalVars, taskExit, faultVars>>

(* _reconcile_external_operation with the result, then the branch on it. *)
ReconcileOperation(w) ==
    /\ pc[w] = "reconcileOp"
    /\ Fence(w)
    /\ ops' = [ops EXCEPT ![RequestDigest(w)] =
                  IF vexit[w] = "ok" THEN "SUCCESS" ELSE "RECONCILED"]
    /\ Goto(w, IF vexit[w] = "ok" THEN "accept1" ELSE "failed1")
    /\ UNCHANGED <<storeVars, mode, seen, vexit, answer, dispatched, taskExit, faultVars>>

ReconcileRaised(w) ==
    /\ pc[w] = "reconcileRaised"
    /\ Fence(w)
    /\ ops' = [ops EXCEPT ![RequestDigest(w)] = "RECONCILED"]
    /\ Goto(w, "failureReturn")
    /\ UNCHANGED <<storeVars, mode, seen, vexit, answer, dispatched, taskExit, faultVars>>

-----------------------------------------------------------------------------
(* The table-driven steps. *)

AcceptStep(w) ==
    /\ pc[w] \in DOMAIN AcceptSteps
    /\ LET s == AcceptSteps[pc[w]]
       IN  AcceptCheckpoint(w, s.cp, s.artifact) /\ Goto(w, s.next)
    /\ UNCHANGED <<mode, seen, vexit, answer, journalVars, taskExit, faultVars>>

TransitionStep(w) ==
    /\ pc[w] \in DOMAIN TransitionSteps
    /\ LET s == TransitionSteps[pc[w]]
       IN  TransitionTo(w, s.to) /\ Goto(w, s.next)
    /\ UNCHANGED <<mode, seen, vexit, answer, journalVars, taskExit, faultVars>>

ClassifyStep(w) ==
    /\ pc[w] \in DOMAIN ClassifySteps
    /\ LET s == ClassifySteps[pc[w]]
       IN  ClassifyFailure(w, s.to) /\ Goto(w, s.next)
    /\ UNCHANGED <<mode, seen, vexit, answer, journalVars, taskExit, faultVars>>

(* LocalValidationRunner, or the exit code a first fixture run reported. *)
Validate(w) ==
    /\ pc[w] = "validate"
    /\ \E x \in {"ok", "bad"} : vexit' = [vexit EXCEPT ![w] = x]
    /\ Goto(w, "accept4")
    /\ UNCHANGED <<storeVars, mode, seen, answer, journalVars, taskExit, faultVars>>

SetTaskValidation(w) ==
    /\ pc[w] = "setTaskValidation"
    /\ Fence(w)
    /\ taskExit' = vexit[w]
    /\ Goto(w, "validating")
    /\ UNCHANGED <<storeVars, mode, seen, vexit, answer, journalVars, faultVars>>

\* Mutant of FinishReady: the exit code is not looked at.
FinishReadyAlways(w) ==
    /\ pc[w] = "finish"
    /\ TransitionTo(w, review_status)
    /\ Goto(w, "successReturn")
    /\ UNCHANGED <<mode, seen, vexit, answer, journalVars, taskExit, faultVars>>

FinishReady(w) ==
    /\ pc[w] = "finish"
    /\ vexit[w] = "ok"
    /\ TransitionTo(w, review_status)
    /\ Goto(w, "successReturn")
    /\ UNCHANGED <<mode, seen, vexit, answer, journalVars, taskExit, faultVars>>

Terminalizing == {"finish", "failedEnd", "raisedEnd", "ambiguousEnd"}

FinishFailed(w) ==
    /\ pc[w] \in Terminalizing
    /\ pc[w] = "finish" => vexit[w] # "ok"
    /\ Terminalize(w, "FAILED")
    /\ taskExit' = IF status \in Terminal THEN taskExit ELSE "bad"
    /\ Goto(w, IF pc[w] = "raisedEnd" THEN "reconcileRaised" ELSE "failureReturn")
    /\ UNCHANGED <<mode, seen, vexit, answer, journalVars, faultVars>>

(* A normal return does not release the lease: it is left to expire. *)
ReturnStep(w) ==
    /\ pc[w] \in {"successReturn", "failureReturn"}
    /\ Leave(w)
    /\ Return(w, IF pc[w] = "successReturn" THEN "success" ELSE "failure")
    /\ UNCHANGED <<journalVars, taskExit, faultVars>>

-----------------------------------------------------------------------------
(* Exceptions.  The store refuses a step of a superseded worker ... *)
RaiseFenced(w) ==
    /\ pc[w] \in FencedLabels
    /\ ~Fence(w)
    /\ Leave(w)
    /\ Return(w, "error")
    /\ UNCHANGED <<journalVars, taskExit, faultVars>>

Refused(w) ==
    \/ /\ pc[w] \in DOMAIN AcceptSteps
       /\ LET s == AcceptSteps[pc[w]]
          IN  /\ s.cp # accepted + 1
              /\ s.cp = accepted => history[Len(history)].artifact # s.artifact
    \/ /\ pc[w] \in DOMAIN TransitionSteps
       /\ LET s == TransitionSteps[pc[w]]
          IN  s.to # status /\ ~TransitionRules(status, s.to)
    \/ /\ pc[w] \in DOMAIN ClassifySteps
       /\ status \in Terminal
    \/ /\ pc[w] = "finish" /\ vexit[w] = "ok"
       /\ review_status # status /\ ~TransitionRules(status, review_status)

(* ... or the holder's own step when it does not fit the run: a checkpoint    *)
(* out of sequence, a forbidden transition, a second classification.  The     *)
(* wrapper then releases the lease and leaves the status as it is.            *)
RaiseRefused(w) ==
    /\ pc[w] \in FencedLabels
    /\ Refused(w)
    /\ Release(w)
    /\ Return(w, "error")
    /\ UNCHANGED <<journalVars, taskExit, faultVars>>

(* Any other exception under the lease, such as a git or database error. *)
RaiseIOFault(w) ==
    /\ IOFaults
    /\ pc[w] \in FencedLabels
    /\ Release(w)
    /\ Return(w, "error")
    /\ UNCHANGED <<journalVars, taskExit, faultVars>>

(* The process of w dies: its locals are lost, its lease row stays. *)
Crash(w) ==
    /\ crashes < MaxCrashes
    /\ pc[w] # "idle"
    /\ crashes' = crashes + 1
    /\ IF handle[w] # 0 THEN Leave(w) ELSE UNCHANGED storeVars
    /\ Return(w, "none")
    /\ UNCHANGED <<journalVars, taskExit, stalls>>

(* _HeartbeatContext: renews while the call is under way. *)
KeepAlive(w) ==
    /\ pc[w] \in LeasedLabels
    /\ Heartbeat(w)
    /\ UNCHANGED <<callVars, journalVars, taskExit, faultVars>>

(* A lease expires when nobody renews it: its holder is gone, or stalls. *)
Expire ==
    /\ LeaseTimeout
    /\ stalls' = IF \E w \in Workers : Fence(w) THEN stalls + 1 ELSE stalls
    /\ stalls' <= MaxStalls
    /\ UNCHANGED <<callVars, journalVars, taskExit, crashes>>

Reconcile(r) ==
    /\ ReconcilerStep(r)
    /\ UNCHANGED <<callVars, journalVars, taskExit, faultVars>>

(* The steps of a call that nothing outside it can prevent. *)
Call(w) ==
    \/ Execute(w) \/ Prepare(w)
    \/ ResumeFind(w) \/ ResumeReadRun(w) \/ ResumeReadTask(w)
    \/ ResumeRecover(w) \/ ResumeRecoverAborted(w) \/ ResumeTooLate(w)
    \/ CheckJournal(w) \/ RecordOperation(w)
    \/ Dispatch(w) \/ CreateFails(w) \/ ExecutorEnds(w) \/ ExecutorRaises(w)
    \/ ReconcileOperation(w) \/ ReconcileRaised(w)
    \/ AcceptStep(w) \/ TransitionStep(w) \/ ClassifyStep(w)
    \/ Validate(w) \/ SetTaskValidation(w)
    \/ FinishReady(w) \/ FinishFailed(w) \/ ReturnStep(w)
    \/ RaiseFenced(w) \/ RaiseRefused(w)

SingleNext ==
    \/ \E w \in Workers : Call(w) \/ KeepAlive(w) \/ RaiseIOFault(w) \/ Crash(w)
    \/ \E r \in Reconcilers : Reconcile(r)
    \/ Expire

SingleSpec == SingleInit /\ [][SingleNext]_vars

(* Calls run to their end, a dead holder's lease expires, and the hosts whose *)
(* start runs the reconciliation are started again.                           *)
SingleFairness ==
    /\ \A w \in Workers : WF_vars(Call(w))
    /\ \A r \in Reconcilers : WF_vars(Reconcile(r))
    /\ WF_vars(Expire /\ \A w \in Workers : ~Fence(w))

FairSingleSpec == SingleSpec /\ SingleFairness

-----------------------------------------------------------------------------
(* The variables keep their types. *)
SingleTypeOK ==
    /\ pc \in [Workers -> Labels]
    /\ mode \in [Workers -> {"execute", "resume"}]
    /\ seen \in [Workers -> [accepted : -1..4, recov : RecoveryClasses]]
    /\ vexit \in [Workers -> {"none", "ok", "bad"}]
    /\ answer \in [Workers -> {"none", "success", "failure", "error"}]
    /\ ops \in [RequestDigests -> {"absent", "PENDING", "SUCCESS", "RECONCILED"}]
    /\ dispatched \in [RequestDigests -> Nat]
    /\ taskExit \in {"none", "ok", "bad"}
    /\ crashes \in 0..MaxCrashes
    /\ stalls \in 0..MaxStalls

(* A task shown as ready for review has passed its validation: POST_VALIDATION *)
(* is accepted, the task records exit code 0, and no worker left over from an  *)
(* earlier epoch can have replaced either.                                     *)
ReadyIsValidated == status \in Ready => accepted = 4 /\ taskExit = "ok"

(* A call that answers success leaves a run whose POST_VALIDATION is durable.  *)
SuccessIsDurable == \A w \in Workers : answer[w] = "success" => accepted = 4

(* The journal is written before the executor starts and stops every later     *)
(* start for the same request digest, across crashes, takeovers and stalls.    *)
JournalledDispatch ==
    \A d \in RequestDigests :
        /\ dispatched[d] <= 1
        /\ dispatched[d] = 1 => ops[d] # "absent"

(* The executor result in the checkpoint log is the one the journal records:   *)
(* POST_PLANNER is never accepted on a result that was not reconciled first,   *)
(* whoever takes the run over in between.                                      *)
JournalBacksLog ==
    accepted >= 1 =>
        \E d \in RequestDigests :
            ops[d] = IF history[2].artifact = "result" THEN "SUCCESS" ELSE "RECONCILED"

(* Every task is eventually settled: it is terminal, or it is interrupted at a *)
(* point resume_single declines to continue from (nothing accepted yet, or     *)
(* POST_VALIDATION).                                                           *)
Settled ==
    \/ status \in Terminal
    \/ status = "INTERRUPTED" /\ accepted \in {-1, 4}

EventuallySettled == <>[]Settled

(* A statement of the code's own comments that a run refutes: *)
\* "prevent re-dispatch for ANY existing state" (_external_operation_prevents_dispatch)
DispatchedOnce == dispatched["workspace_root"] + dispatched["worktree_path"] <= 1
=============================================================================
