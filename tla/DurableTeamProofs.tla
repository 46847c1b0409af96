-------------------------- MODULE DurableTeamProofs --------------------------
(***************************************************************************)
(* Proofs about DurableTeam, for every number of workers and reconcilers and *)
(* every set of products: every step of the service is a step of the store,  *)
(* role attempts never outrun the lease epochs, and what is offered for      *)
(* review is what the coder made and the reviewer saw.                       *)
(*                                                                         *)
(* The last needs two bounds.  No live holder's lease runs out               *)
(* (MaxStalls = 0): nothing keeps a superseded call's executor from writing.  *)
(* And at most one process dies: with more, a resume that slept through       *)
(* another one starts a role of the past again, which may write the worktree  *)
(* before the store refuses its checkpoint.  With one, every step is Fresh.   *)
(***************************************************************************)
EXTENDS DurableTeam, DurableStoreProofs

(* A call is under its lease exactly while it has a handle, and what it read of  *)
(* the run decides where it goes.                                                *)
CallOK(w) ==
    /\ pc[w] \in LeasedLabels <=> handle[w] # 0
    /\ pc[w] = "idle" => seen[w] = NoRun
    /\ pc[w] = "recoverAborted" => status \in Aborts
    /\ pc[w] \in {"recover", "recoverAborted"} => seen[w].accepted \in 0..4
    /\ pc[w] \in {"partial", "setAttempt", "setInterrupted"} => seen[w].accepted = 1
    /\ pc[w] = "context" => seen[w].accepted \in 0..2
    /\ seen[w].accepted <= accepted

(* An attempt is counted once per epoch at most: the attempt a call works under  *)
(* is not above the epoch it was given.                                          *)
AttemptOK(w) ==
    /\ handle[w] # 0 => RunRoleAttempt(w) <= handle[w]
    /\ pc[w] \in {"readTask", "recover", "recoverAborted"} => seen[w].attempt <= epoch

AttemptInv == attempt = 1 \/ attempt <= epoch

TeamInv ==
    /\ StoreInv
    /\ TeamTypeOK
    /\ AttemptInv
    /\ \A w \in Workers : CallOK(w) /\ AttemptOK(w)

(* Without stalls a task that is not aborted has no superseded call: whoever has *)
(* a handle passes the fence, and its lease has not run out.                     *)
HolderInv ==
    \A w \in Workers :
        /\ Fence(w) => expiry = "live"
        /\ status \notin Aborts /\ handle[w] # 0 => Fence(w)

(* The rank of the run at each label of its holder. *)
RankOK(w) ==
    /\ pc[w] \in {"running", "planner", "planning", "accept1"} => accepted = 0
    /\ pc[w] \in {"partial", "setAttempt", "setInterrupted", "coder", "coding",
                  "setCoderDigest", "accept2"} => accepted = 1
    /\ pc[w] \in {"reviewer", "reviewing", "accept3"} => accepted = 2
    /\ pc[w] \in {"validate", "accept4", "lateValidate", "lateValidating", "lateFinish",
                  "late4"} => accepted = 3
    /\ pc[w] \in {"validating", "finish", "successReturn"} => accepted = 4
    /\ pc[w] = "context" => accepted = seen[w].accepted

(* The product a call has in hand on its way from the coder to the reviewer. *)
SnapshotOK(w) ==
    /\ pc[w] \in {"setCoderDigest", "accept2"} => product = basis[w] /\ product # 0
    /\ pc[w] \in {"accept2", "reviewer", "reviewing"} => basis[w] = coderDigest
    /\ pc[w] = "accept3" => product = coderDigest
    /\ seen[w].accepted >= 2 => seen[w].coder = coderDigest

(* From the coder's checkpoint on its digest is fixed, and from the reviewer's   *)
(* on the worktree shows it.                                                     *)
ProductInv ==
    /\ \A w \in Workers : RankOK(w) /\ SnapshotOK(w)
    /\ accepted >= 2 => coderDigest > 0
    /\ accepted >= 3 => product = coderDigest
    /\ status \in {"VALIDATING", "READY_FOR_REVIEW"} => accepted >= 3

ReviewInv == HolderInv /\ (status \notin Aborts => ProductInv)

(* resume_sequential_team recovers the lease of a run that no other call has      *)
(* advanced since it read the row.                                                *)
Fresh ==
    \A w \in Workers :
        pc[w] = "recover" /\ handle'[w] # handle[w] => seen[w].accepted = accepted

(* The status of a task at each label of the holder of its lease. *)
StatusOK(w) ==
    /\ pc[w] \in {"prepare", "accept0"} => accepted = -1
    /\ pc[w] \in {"prepare", "accept0", "running"} => status = "PREPARING_WORKSPACE"
    /\ pc[w] = "blocked" => status \in {"PREPARING_WORKSPACE", "RUNNING"}
    /\ pc[w] \in {"context", "contextInvalid", "partial", "setAttempt", "setInterrupted",
                  "planner", "planning", "accept1", "coder", "coding", "setCoderDigest",
                  "accept2", "reviewer", "reviewing", "accept3", "roleFailed", "validate",
                  "accept4", "validating", "lateValidate", "lateValidating"}
         => status = "RUNNING"
    /\ pc[w] \in {"finish", "lateFinish"} => status = "VALIDATING"
    /\ pc[w] = "late4" => status = "READY_FOR_REVIEW"
    /\ pc[w] = "successReturn" => status \in {"RUNNING", "READY_FOR_REVIEW"}
    /\ pc[w] = "failureReturn" => status \in Terminal
    /\ pc[w] \in {"partial", "setAttempt", "setInterrupted"} => recov \in RecoverableClasses
    /\ pc[w] = "recover" => seen[w].recov \in RecoverableClasses
    /\ seen[w].recov \in RecoverableClasses => recov \in RecoverableClasses

(* What every resume that may still take the lease has read is current. *)
AllFresh ==
    \A w \in Workers : seen[w].recov \in RecoverableClasses => seen[w].accepted = accepted

Held == \E w \in Workers : handle[w] # 0

(* After the one crash a live task loses its holder again only when there is      *)
(* nothing left to run, so no resume is overtaken.                                *)
OrphanInv ==
    /\ epoch = 0 => status \notin Live /\ recov \notin RecoverableClasses
    /\ recov \in RecoverableClasses => crashes >= 1
    /\ status \in Live /\ ~Held => crashes >= 1 /\ AllFresh
    /\ status = "INTERRUPTED" => AllFresh
    /\ \A w \in Workers :
          pc[w] = "successReturn" /\ status \in Live
            => recov \in RecoverableClasses /\ AllFresh

FreshInv == OrphanInv /\ \A w \in Workers : StatusOK(w)

OnceInv == ReviewInv /\ (status \notin Aborts => FreshInv)

-----------------------------------------------------------------------------
(* The program tables, label by label. *)
LEMMA AcceptTable ==
  /\ DOMAIN CheckpointOf = {"accept0", "accept1", "accept2", "accept3", "accept4", "late4"}
  /\ \A l \in DOMAIN CheckpointOf : CheckpointOf[l] \in Checkpoints
  /\ CheckpointOf["accept0"] = 0 /\ AfterAccept["accept0"] = "running"
  /\ CheckpointOf["accept1"] = 1 /\ AfterAccept["accept1"] = "coder"
  /\ CheckpointOf["accept2"] = 2 /\ AfterAccept["accept2"] = "reviewer"
  /\ CheckpointOf["accept3"] = 3 /\ AfterAccept["accept3"] = "validate"
  /\ CheckpointOf["accept4"] = 4 /\ AfterAccept["accept4"] = "validating"
  /\ CheckpointOf["late4"] = 4 /\ AfterAccept["late4"] = "successReturn"
  BY DEF CheckpointOf, AfterAccept, Checkpoints

LEMMA TransitionTable ==
  /\ DOMAIN TransitionSteps = {"running", "validating", "lateValidating"}
  /\ TransitionSteps["running"].to = "RUNNING"
  /\ TransitionSteps["running"].next = "planner"
  /\ TransitionSteps["validating"].to = "VALIDATING"
  /\ TransitionSteps["validating"].next = "finish"
  /\ TransitionSteps["lateValidating"].to = "VALIDATING"
  /\ TransitionSteps["lateValidating"].next = "lateFinish"
  BY DEF TransitionSteps

LEMMA ClassifyTable ==
  /\ DOMAIN ClassifySteps = {"blocked", "contextInvalid"}
  /\ ClassifySteps["blocked"] = "BLOCKED" /\ ClassifySteps["contextInvalid"] = "FAILED"
  BY DEF ClassifySteps

LEMMA RoleTable ==
  /\ DOMAIN RoleDone = {"planning", "coding", "reviewing"}
  /\ Roles = {"planner", "coder", "reviewer"}
  /\ Working["planner"] = "planning" /\ RoleDone["planning"] = "accept1"
  /\ Working["coder"] = "coding" /\ RoleDone["coding"] = "setCoderDigest"
  /\ Working["reviewer"] = "reviewing" /\ RoleDone["reviewing"] = "accept3"
  BY DEF RoleDone, Roles, Working

LEMMA ResumeTable ==
  /\ ResumeAt[0] = "context" /\ ResumeAt[1] = "partial" /\ ResumeAt[2] = "context"
  /\ ResumeAt[3] = "lateValidate" /\ ResumeAt[4] = "successReturn"
  /\ RemainingFrom[0] = "planner"
  /\ RemainingFrom[1] = "coder"
  /\ RemainingFrom[2] = "reviewer"
  BY DEF ResumeAt, RemainingFrom

LEMMA LabelSets ==
  /\ FencedLabels = {"accept0", "accept1", "accept2", "accept3", "accept4", "late4",
                     "running", "validating", "lateValidating", "blocked",
                     "contextInvalid", "setCoderDigest", "partial", "setAttempt",
                     "setInterrupted", "roleFailed", "finish", "lateFinish"}
  /\ LeasedLabels = FencedLabels \cup {"planner", "coder", "reviewer", "planning",
                     "coding", "reviewing", "prepare", "context", "validate",
                     "lateValidate", "successReturn", "failureReturn"}
<1>1. {Working[r] : r \in Roles} = {"planning", "coding", "reviewing"}
  BY RoleTable
<1>2. Roles = {"planner", "coder", "reviewer"}
  BY RoleTable
<1> QED
  BY <1>1, <1>2, AcceptTable, TransitionTable, ClassifyTable DEF FencedLabels, LeasedLabels

(* The attempt a leased call accepts its checkpoints under is a possible one. *)
LEMMA AttemptRange ==
  ASSUME NEW w \in Workers, TypeOK, TeamTypeOK, AttemptOK(w), handle[w] # 0
  PROVE  RunRoleAttempt(w) \in 1..MaxEpoch
  BY EpochAssumption DEF TypeOK, TeamTypeOK, AttemptOK, RunRoleAttempt, Attempts

(* Every artifact a checkpoint of the team carries is one of the store's. *)
LEMMA ArtifactRange ==
  ASSUME NEW w \in Workers, TypeOK, TeamTypeOK, AttemptOK(w), handle[w] # 0
  PROVE  ArtifactsAt(w) \subseteq Artifacts
<1>1. RunRoleAttempt(w) \in 1..MaxEpoch /\ 1 \in 1..MaxEpoch
  BY AttemptRange, EpochAssumption
<1>2. \A h \in Handoffs \cup {NoHandoff}, n \in 1..MaxEpoch : Artifact(h, n) \in Artifacts
  BY TeamArtifactAssumption DEF Artifact
<1> QED
  BY <1>1, <1>2 DEF ArtifactsAt

-----------------------------------------------------------------------------
(* The steps of a worker, and what no step of another worker touches. *)
WorkerAct(w) == Call(w) \/ RoleEdits(w) \/ KeepAlive(w) \/ Crash(w)

Untouched(v) ==
    /\ pc'[v] = pc[v]
    /\ seen'[v] = seen[v]
    /\ basis'[v] = basis[v]
    /\ vexit'[v] = vexit[v]
    /\ handle'[v] = handle[v]

(* A step of a call performs one operation of the store, or none. *)
LEMMA WorkerStepImplements ==
  ASSUME NEW w \in Workers, TypeOK, TeamTypeOK, CallOK(w), AttemptOK(w), WorkerAct(w)
  PROVE  WorkerStep(w) \/ UNCHANGED storeVars
<1>1. CASE Execute(w)
  BY <1>1 DEF Execute, WorkerStep
<1>2. CASE Prepare(w)
  BY <1>2 DEF Prepare
<1>3. CASE ResumeReadRun(w)
  BY <1>3 DEF ResumeReadRun
<1>4. CASE ResumeReadTask(w)
  BY <1>4 DEF ResumeReadTask
<1>5. CASE ResumeRecover(w)
  BY <1>5 DEF ResumeRecover, WorkerStep
<1>6. CASE ResumeRecoverAborted(w)
  BY <1>6 DEF ResumeRecoverAborted, RecoverAborted, CallOK, WorkerStep
<1>7. CASE ResumeTooLate(w)
  BY <1>7 DEF ResumeTooLate
<1>8. CASE KeepPartial(w)
  BY <1>8 DEF KeepPartial
<1>9. CASE SetRoleAttempt(w)
  BY <1>9 DEF SetRoleAttempt
<1>10. CASE ClassifyInterrupted(w)
  BY <1>10 DEF ClassifyInterrupted, WorkerStep
<1>11. CASE ResumeContext(w)
  BY <1>11 DEF ResumeContext
<1>12. CASE InvokeRole(w)
  BY <1>12 DEF InvokeRole
<1>13. CASE RoleSucceeds(w)
  BY <1>13 DEF RoleSucceeds
<1>14. CASE RoleFails(w)
  BY <1>14 DEF RoleFails
<1>15. CASE SetCoderDigest(w)
  BY <1>15 DEF SetCoderDigest
<1>16. CASE RoleFailed(w)
  BY <1>16 DEF RoleFailed, WorkerStep
<1>17. CASE AcceptStep(w)
  <2>1. handle[w] # 0 /\ CheckpointOf[pc[w]] \in Checkpoints
    BY <1>17, AcceptTable DEF AcceptStep, AcceptCheckpoint, AcceptNext, AcceptAgain, Fence
  <2> QED
    BY <1>17, <2>1, ArtifactRange DEF AcceptStep, WorkerStep
<1>18. CASE TransitionStep(w)
  BY <1>18, TransitionTable DEF TransitionStep, ServiceTargets, WorkerStep
<1>19. CASE ClassifyStep(w)
  BY <1>19, ClassifyTable DEF ClassifyStep, WorkerStep
<1>20. CASE Validate(w)
  BY <1>20 DEF Validate
<1>21. CASE Finish(w)
  BY <1>21 DEF Finish, ServiceTargets, WorkerStep
<1>22. CASE ReturnStep(w)
  BY <1>22 DEF ReturnStep, WorkerStep
<1>23. CASE RaiseFenced(w)
  BY <1>23 DEF RaiseFenced, WorkerStep
<1>24. CASE RaiseRefused(w)
  BY <1>24 DEF RaiseRefused, WorkerStep
<1>25. CASE RoleEdits(w)
  BY <1>25 DEF RoleEdits
<1>26. CASE KeepAlive(w)
  BY <1>26 DEF KeepAlive, WorkerStep
<1>27. CASE Crash(w)
  BY <1>27 DEF Crash, WorkerStep
<1> QED
  BY <1>1, <1>2, <1>3, <1>4, <1>5, <1>6, <1>7, <1>8, <1>9, <1>10, <1>11, <1>12, <1>13,
     <1>14, <1>15, <1>16, <1>17, <1>18, <1>19, <1>20, <1>21, <1>22, <1>23, <1>24, <1>25,
     <1>26, <1>27 DEF WorkerAct, Call

(* A step of a call leaves the locals and the handle of every other call alone. *)
LEMMA OthersUntouched ==
  ASSUME NEW w \in Workers, NEW v \in Workers, v # w, TypeOK, TeamTypeOK, WorkerAct(w)
  PROVE  Untouched(v)
<1> USE DEF TypeOK, TeamTypeOK, Untouched
<1>1. CASE Execute(w)
  BY <1>1 DEF Execute, Goto, Acquire
<1>2. CASE Prepare(w)
  BY <1>2 DEF Prepare, Goto, storeVars
<1>3. CASE ResumeReadRun(w)
  BY <1>3 DEF ResumeReadRun, Goto, storeVars
<1>4. CASE ResumeReadTask(w)
  BY <1>4 DEF ResumeReadTask, Goto, Return, storeVars
<1>5. CASE ResumeRecover(w)
  BY <1>5 DEF ResumeRecover, Goto, Recover, TakeLease, NextEpoch
<1>6. CASE ResumeRecoverAborted(w)
  BY <1>6 DEF ResumeRecoverAborted, Goto, TakeLease, NextEpoch
<1>7. CASE ResumeTooLate(w)
  BY <1>7 DEF ResumeTooLate, Return, storeVars
<1>8. CASE KeepPartial(w)
  BY <1>8 DEF KeepPartial, Goto, storeVars
<1>9. CASE SetRoleAttempt(w)
  BY <1>9 DEF SetRoleAttempt, Goto, storeVars
<1>10. CASE ClassifyInterrupted(w)
  BY <1>10 DEF ClassifyInterrupted, Goto, SetRecoveryClassification
<1>11. CASE ResumeContext(w)
  BY <1>11 DEF ResumeContext, Goto, storeVars
<1>12. CASE InvokeRole(w)
  BY <1>12 DEF InvokeRole, Goto, storeVars
<1>13. CASE RoleSucceeds(w)
  BY <1>13 DEF RoleSucceeds, Goto, storeVars
<1>14. CASE RoleFails(w)
  BY <1>14 DEF RoleFails, Goto, storeVars
<1>15. CASE SetCoderDigest(w)
  BY <1>15 DEF SetCoderDigest, Goto, storeVars
<1>16. CASE RoleFailed(w)
  BY <1>16 DEF RoleFailed, Goto, Terminalize
<1>17. CASE AcceptStep(w)
  BY <1>17 DEF AcceptStep, Goto, AcceptCheckpoint, AcceptNext, AcceptAgain, storeVars
<1>18. CASE TransitionStep(w)
  BY <1>18 DEF TransitionStep, Goto, TransitionTo
<1>19. CASE ClassifyStep(w)
  BY <1>19 DEF ClassifyStep, Goto, ClassifyFailure
<1>20. CASE Validate(w)
  BY <1>20 DEF Validate, Goto, storeVars
<1>21. CASE Finish(w)
  BY <1>21 DEF Finish, Goto, TransitionTo, Terminalize
<1>22. CASE ReturnStep(w)
  BY <1>22 DEF ReturnStep, Return, Leave
<1>23. CASE RaiseFenced(w)
  BY <1>23 DEF RaiseFenced, Return, Leave
<1>24. CASE RaiseRefused(w)
  BY <1>24 DEF RaiseRefused, Return, Release
<1>25. CASE RoleEdits(w)
  BY <1>25 DEF RoleEdits, callVars, storeVars
<1>26. CASE KeepAlive(w)
  BY <1>26 DEF KeepAlive, callVars, Heartbeat
<1>27. CASE Crash(w)
  BY <1>27 DEF Crash, Return, Leave, storeVars
<1> QED
  BY <1>1, <1>2, <1>3, <1>4, <1>5, <1>6, <1>7, <1>8, <1>9, <1>10, <1>11, <1>12, <1>13,
     <1>14, <1>15, <1>16, <1>17, <1>18, <1>19, <1>20, <1>21, <1>22, <1>23, <1>24, <1>25,
     <1>26, <1>27 DEF WorkerAct, Call

(* Every step of the service is a step of the store, or leaves it alone. *)
LEMMA StepImplements == TeamInv /\ [TeamNext]_vars => [Next]_storeVars
<1> SUFFICES ASSUME TeamInv, [TeamNext]_vars PROVE [Next]_storeVars
  OBVIOUS
<1>1. ASSUME NEW w \in Workers, WorkerAct(w) PROVE [Next]_storeVars
  BY <1>1, WorkerStepImplements DEF TeamInv, StoreInv, Next
<1>2. ASSUME NEW r \in Reconcilers, Reconcile(r) PROVE Next
  BY <1>2 DEF Reconcile, Next
<1>3. CASE Expire
  BY <1>3 DEF Expire, Next
<1>4. CASE UNCHANGED vars
  BY <1>4 DEF vars
<1> QED
  BY <1>1, <1>2, <1>3, <1>4 DEF TeamNext, WorkerAct

(* What every step inherits from the store. *)
LEMMA Inherited ==
  ASSUME TeamInv, [TeamNext]_vars
  PROVE  /\ StoreInv' /\ TerminalStable /\ FencedStays /\ Progress
         /\ accepted <= accepted'
         /\ accepted \in -1..4 /\ accepted' \in -1..4
         /\ epoch \in Nat /\ epoch' \in Nat
<1>1. [Next]_storeVars
  BY StepImplements
<1>2. StoreInv' /\ TerminalStable /\ FencedStays /\ Progress
  BY <1>1, TypeStep, HandleStep, LogStep, RowStep, TerminalStep, FencedStep, ProgressStep
     DEF StoreInv, TeamInv
<1>3. Len(history) \in Nat /\ Len(history') \in Nat
  BY <1>2, RowTypes DEF StoreInv, TypeOK, TeamInv
<1>4. accepted = Len(history) - 1 /\ accepted' = Len(history') - 1
  BY <1>2 DEF StoreInv, LogInv, CheckpointLog, TeamInv
<1>5. accepted \in -1..4 /\ accepted' \in -1..4 /\ epoch \in Nat /\ epoch' \in Nat
  BY <1>2 DEF TeamInv, StoreInv, TypeOK
<1>6. Len(history) <= Len(history')
  BY <1>2 DEF Progress
<1>7. accepted <= accepted'
  BY <1>3, <1>4, <1>6
<1> QED
  BY <1>2, <1>5, <1>7

-----------------------------------------------------------------------------
(* Where a resume goes by the checkpoint it read. *)
LEMMA ResumeTargets ==
  /\ \A a \in 0..4 : ResumeAt[a] \in {"context", "partial", "lateValidate", "successReturn"}
  /\ \A a \in 0..4 : ResumeAt[a] = "context" => a \in 0..2
  /\ \A a \in 0..4 : ResumeAt[a] = "partial" => a = 1
  /\ \A a \in 0..4 : ResumeAt[a] = "lateValidate" => a = 3
  /\ \A a \in 0..4 : ResumeAt[a] = "successReturn" => a = 4
  /\ \A a \in 0..2 : RemainingFrom[a] \in {"planner", "coder", "reviewer"}
  /\ \A a \in 0..2 : RemainingFrom[a] = "planner" => a = 0
  /\ \A a \in 0..2 : RemainingFrom[a] = "coder" => a = 1
  /\ \A a \in 0..2 : RemainingFrom[a] = "reviewer" => a = 2
  BY DEF ResumeAt, RemainingFrom

(* A call that ends leaves its locals typed. *)
LEMMA ReturnTypes ==
  ASSUME NEW w \in Workers, TeamTypeOK, Return(w)
  PROVE  /\ pc' \in [Workers -> Labels]
         /\ seen' \in [Workers -> [accepted : -1..4, recov : RecoveryClasses,
                                   attempt : Attempts, coder : {-1} \cup Products]]
         /\ basis' \in [Workers -> Products]
         /\ vexit' \in [Workers -> {"none", "ok", "bad"}]
<1>1. NoRun \in [accepted : -1..4, recov : RecoveryClasses, attempt : Attempts,
                 coder : {-1} \cup Products]
  BY EpochAssumption DEF NoRun, RecoveryClasses, Attempts
<1> QED
  BY <1>1, ProductAssumption DEF Return, TeamTypeOK, Labels

(* A call keeps the types of its locals, of the run and of the worktree. *)
LEMMA WorkerKeepsTypes ==
  ASSUME NEW w \in Workers, TypeOK, TeamTypeOK, CallOK(w), AttemptOK(w), WorkerAct(w)
  PROVE  TeamTypeOK'
<1>a. {"idle", "readTask", "recover", "recoverAborted"} \cup LeasedLabels = Labels
  BY DEF Labels
<1>b. \A l \in Labels : Goto(w, l) => pc' \in [Workers -> Labels]
  BY DEF Goto, TeamTypeOK
<1> USE LabelSets, <1>a, <1>b DEF runVars, treeVars, faultVars
<1>1. CASE Execute(w)
  BY <1>1 DEF Execute, TeamTypeOK
<1>2. CASE Prepare(w)
  BY <1>2 DEF Prepare, TeamTypeOK
<1>3. CASE ResumeReadRun(w)
  BY <1>3 DEF ResumeReadRun, TeamTypeOK, TypeOK
<1>4. CASE ResumeReadTask(w)
  <2>1. CASE Resumable(w)
    BY <1>4, <2>1 DEF ResumeReadTask, TeamTypeOK
  <2>2. CASE ~Resumable(w)
    BY <1>4, <2>2, ReturnTypes DEF ResumeReadTask, TeamTypeOK
  <2> QED
    BY <2>1, <2>2
<1>5. CASE ResumeRecover(w)
  BY <1>5, ResumeTargets DEF ResumeRecover, TeamTypeOK, CallOK
<1>6. CASE ResumeRecoverAborted(w)
  BY <1>6, ResumeTargets DEF ResumeRecoverAborted, TeamTypeOK, CallOK
<1>7. CASE ResumeTooLate(w)
  BY <1>7, ReturnTypes DEF ResumeTooLate, TeamTypeOK
<1>8. CASE KeepPartial(w)
  BY <1>8 DEF KeepPartial, TeamTypeOK
<1>9. CASE SetRoleAttempt(w)
  <2>1. RunRoleAttempt(w) \in Attempts
    BY <1>9, AttemptRange DEF SetRoleAttempt, Fence, Attempts
  <2> QED
    BY <1>9, <2>1 DEF SetRoleAttempt, TeamTypeOK
<1>10. CASE ClassifyInterrupted(w)
  BY <1>10 DEF ClassifyInterrupted, TeamTypeOK
<1>11. CASE ResumeContext(w)
  BY <1>11, ResumeTargets DEF ResumeContext, TeamTypeOK, CallOK
<1>12. CASE InvokeRole(w)
  BY <1>12, RoleTable DEF InvokeRole, TeamTypeOK
<1>13. CASE RoleSucceeds(w)
  BY <1>13, RoleTable DEF RoleSucceeds, TeamTypeOK
<1>14. CASE RoleFails(w)
  BY <1>14, RoleTable DEF RoleFails, TeamTypeOK
<1>15. CASE SetCoderDigest(w)
  BY <1>15 DEF SetCoderDigest, TeamTypeOK
<1>16. CASE RoleFailed(w)
  BY <1>16 DEF RoleFailed, TeamTypeOK
<1>17. CASE AcceptStep(w)
  BY <1>17, AcceptTable DEF AcceptStep, TeamTypeOK
<1>18. CASE TransitionStep(w)
  BY <1>18, TransitionTable DEF TransitionStep, TeamTypeOK
<1>19. CASE ClassifyStep(w)
  BY <1>19, ClassifyTable DEF ClassifyStep, TeamTypeOK
<1>20. CASE Validate(w)
  BY <1>20 DEF Validate, TeamTypeOK
<1>21. CASE Finish(w)
  BY <1>21 DEF Finish, TeamTypeOK
<1>22. CASE ReturnStep(w)
  BY <1>22, ReturnTypes DEF ReturnStep, TeamTypeOK
<1>23. CASE RaiseFenced(w)
  BY <1>23, ReturnTypes DEF RaiseFenced, TeamTypeOK
<1>24. CASE RaiseRefused(w)
  BY <1>24, ReturnTypes DEF RaiseRefused, TeamTypeOK
<1>25. CASE RoleEdits(w)
  BY <1>25, RoleTable DEF RoleEdits, TeamTypeOK, callVars
<1>26. CASE KeepAlive(w)
  BY <1>26 DEF KeepAlive, TeamTypeOK, callVars
<1>27. CASE Crash(w)
  BY <1>27, ReturnTypes, TeamBoundAssumption DEF Crash, TeamTypeOK
<1> QED
  BY <1>1, <1>2, <1>3, <1>4, <1>5, <1>6, <1>7, <1>8, <1>9, <1>10, <1>11, <1>12, <1>13,
     <1>14, <1>15, <1>16, <1>17, <1>18, <1>19, <1>20, <1>21, <1>22, <1>23, <1>24, <1>25,
     <1>26, <1>27 DEF WorkerAct, Call

(* An accepted checkpoint: the rank is the table's, and nothing else moves but    *)
(* the log and the label.                                                         *)
LEMMA AcceptEffect ==
  ASSUME NEW w \in Workers, TeamTypeOK, AcceptStep(w)
  PROVE  /\ Fence(w)
         /\ \/ pc[w] = "accept0" /\ accepted' = 0 /\ pc'[w] = "running"
            \/ pc[w] = "accept1" /\ accepted' = 1 /\ pc'[w] = "coder"
            \/ pc[w] = "accept2" /\ accepted' = 2 /\ pc'[w] = "reviewer"
            \/ pc[w] = "accept3" /\ accepted' = 3 /\ pc'[w] = "validate"
            \/ pc[w] = "accept4" /\ accepted' = 4 /\ pc'[w] = "validating"
            \/ pc[w] = "late4" /\ accepted' = 4 /\ pc'[w] = "successReturn"
         /\ UNCHANGED <<status, owner, epoch, expiry, handle, attempt, coderDigest,
                        product, seen, basis, vexit>>
<1>1. /\ Fence(w)
      /\ pc[w] \in DOMAIN CheckpointOf
      /\ accepted' = CheckpointOf[pc[w]]
      /\ pc'[w] = AfterAccept[pc[w]]
      /\ UNCHANGED <<status, owner, epoch, expiry, handle, attempt, coderDigest,
                     product, seen, basis, vexit>>
  BY DEF AcceptStep, Goto, AcceptCheckpoint, AcceptNext, AcceptAgain, storeVars, leaseVars,
     runVars, treeVars, TeamTypeOK
<1> QED
  BY <1>1, AcceptTable

(* A call's own steps keep what CallOK says of it. *)
LEMMA WorkerKeepsCall ==
  ASSUME NEW w \in Workers, TypeOK, TeamTypeOK, CallOK(w), WorkerAct(w),
         accepted <= accepted', accepted' \in -1..4
  PROVE  CallOK(w)'
<1>a. seen[w].accepted \in -1..4 /\ accepted \in -1..4
  BY DEF TeamTypeOK, TypeOK
<1>b. NoRun.accepted = -1
  BY DEF NoRun
<1> USE <1>a, <1>b, LabelSets DEF CallOK, TeamTypeOK, TypeOK
<1>1. CASE Execute(w)
  BY <1>1 DEF Execute, Goto, Acquire
<1>2. CASE Prepare(w)
  BY <1>2 DEF Prepare, Goto, storeVars
<1>3. CASE ResumeReadRun(w)
  BY <1>3 DEF ResumeReadRun, Goto, storeVars
<1>4. CASE ResumeReadTask(w)
  BY <1>4 DEF ResumeReadTask, Goto, Return, storeVars, Resumable
<1>5. CASE ResumeRecover(w)
  BY <1>5, ResumeTargets DEF ResumeRecover, Goto, Recover, TakeLease, NextEpoch
<1>6. CASE ResumeRecoverAborted(w)
  BY <1>6, ResumeTargets DEF ResumeRecoverAborted, Goto, TakeLease, NextEpoch
<1>7. CASE ResumeTooLate(w)
  BY <1>7 DEF ResumeTooLate, Return, storeVars
<1>8. CASE KeepPartial(w)
  BY <1>8 DEF KeepPartial, Goto, storeVars
<1>9. CASE SetRoleAttempt(w)
  BY <1>9 DEF SetRoleAttempt, Goto, storeVars
<1>10. CASE ClassifyInterrupted(w)
  BY <1>10 DEF ClassifyInterrupted, Goto, SetRecoveryClassification
<1>11. CASE ResumeContext(w)
  BY <1>11, ResumeTargets DEF ResumeContext, Goto, storeVars
<1>12. CASE InvokeRole(w)
  BY <1>12, RoleTable DEF InvokeRole, Goto, storeVars
<1>13. CASE RoleSucceeds(w)
  BY <1>13, RoleTable DEF RoleSucceeds, Goto, storeVars
<1>14. CASE RoleFails(w)
  BY <1>14, RoleTable DEF RoleFails, Goto, storeVars
<1>15. CASE SetCoderDigest(w)
  BY <1>15 DEF SetCoderDigest, Goto, storeVars
<1>16. CASE RoleFailed(w)
  BY <1>16 DEF RoleFailed, Goto, Terminalize
<1>17. CASE AcceptStep(w)
  <2>1. /\ pc[w] \in LeasedLabels /\ UNCHANGED <<handle, seen>>
        /\ pc'[w] \in {"running", "coder", "reviewer", "validate", "validating",
                       "successReturn"}
    BY <1>17, AcceptEffect
  <2>2. handle'[w] # 0 /\ seen'[w].accepted <= accepted'
    BY <2>1
  <2> QED
    BY <2>1, <2>2
<1>18. CASE TransitionStep(w)
  BY <1>18, TransitionTable DEF TransitionStep, Goto, TransitionTo
<1>19. CASE ClassifyStep(w)
  BY <1>19, ClassifyTable DEF ClassifyStep, Goto, ClassifyFailure
<1>20. CASE Validate(w)
  BY <1>20 DEF Validate, Goto, storeVars
<1>21. CASE Finish(w)
  BY <1>21 DEF Finish, Goto, TransitionTo, Terminalize
<1>22. CASE ReturnStep(w)
  BY <1>22 DEF ReturnStep, Return, Leave
<1>23. CASE RaiseFenced(w)
  BY <1>23 DEF RaiseFenced, Return, Leave
<1>24. CASE RaiseRefused(w)
  BY <1>24 DEF RaiseRefused, Return, Release
<1>25. CASE RoleEdits(w)
  BY <1>25, RoleTable DEF RoleEdits, callVars, storeVars
<1>26. CASE KeepAlive(w)
  BY <1>26 DEF KeepAlive, callVars, Heartbeat
<1>27. CASE Crash(w)
  BY <1>27 DEF Crash, Return, Leave, storeVars
<1> QED
  BY <1>1, <1>2, <1>3, <1>4, <1>5, <1>6, <1>7, <1>8, <1>9, <1>10, <1>11, <1>12, <1>13,
     <1>14, <1>15, <1>16, <1>17, <1>18, <1>19, <1>20, <1>21, <1>22, <1>23, <1>24, <1>25,
     <1>26, <1>27 DEF WorkerAct, Call

(* A call's own steps keep the attempts behind the epochs: a call takes over the  *)
(* attempt it read only together with a new epoch.                                *)
LEMMA WorkerKeepsAttempt ==
  ASSUME NEW w \in Workers, TypeOK, TeamTypeOK, HandleInv, CallOK(w), AttemptOK(w),
         AttemptInv, WorkerAct(w), epoch <= epoch', epoch' \in Nat
  PROVE  AttemptInv' /\ AttemptOK(w)'
<1>a. /\ seen[w].attempt \in Nat /\ attempt \in Nat /\ epoch \in Nat
      /\ handle[w] \in Nat /\ handle[w] <= epoch /\ seen[w].attempt >= 1
  BY DEF TeamTypeOK, TypeOK, Attempts, HandleInv
<1>b. RunRoleAttempt(w) \in Nat /\ RunRoleAttempt(w) <= seen[w].attempt + 1
  BY <1>a DEF RunRoleAttempt
<1>c. ASSUME UNCHANGED <<attempt, handle, seen>>, pc'[w] \in LeasedLabels
      PROVE  AttemptInv' /\ AttemptOK(w)'
  BY <1>a, <1>b, <1>c, LabelSets DEF AttemptInv, AttemptOK, RunRoleAttempt
<1>d. ASSUME UNCHANGED attempt, handle'[w] = 0, pc'[w] = "idle"
      PROVE  AttemptInv' /\ AttemptOK(w)'
  BY <1>a, <1>d DEF AttemptInv, AttemptOK
<1>1. CASE Execute(w)
  <2>1. /\ handle'[w] = 1 /\ UNCHANGED <<attempt, seen>> /\ pc'[w] = "prepare"
    BY <1>1 DEF Execute, Acquire, Goto, TypeOK, TeamTypeOK, runVars
  <2>2. seen[w] = NoRun
    BY <1>1 DEF Execute, CallOK
  <2> QED
    BY <1>a, <1>b, <2>1, <2>2 DEF AttemptInv, AttemptOK, RunRoleAttempt, NoRun
<1>2. CASE Prepare(w)
  BY <1>2, <1>c, LabelSets DEF Prepare, Goto, storeVars, runVars, TeamTypeOK
<1>3. CASE ResumeReadRun(w)
  <2>1. /\ handle'[w] = 0 /\ epoch' = epoch /\ epoch >= 1 /\ UNCHANGED attempt
        /\ seen'[w].attempt = attempt
    BY <1>3, <1>a, LabelSets DEF ResumeReadRun, storeVars, CallOK, TeamTypeOK, runVars
  <2> QED
    BY <1>a, <2>1 DEF AttemptInv, AttemptOK
<1>4. CASE ResumeReadTask(w)
  <2>1. CASE Resumable(w)
    <3>1. /\ handle'[w] = 0 /\ pc[w] = "readTask"
          /\ UNCHANGED <<attempt, epoch, seen>>
      BY <1>4, <2>1, LabelSets DEF ResumeReadTask, storeVars, CallOK, runVars
    <3> QED
      BY <1>a, <3>1 DEF AttemptInv, AttemptOK
  <2>2. CASE ~Resumable(w)
    BY <1>4, <1>d, <2>2, LabelSets DEF ResumeReadTask, Return, storeVars, CallOK, runVars,
       TeamTypeOK
  <2> QED
    BY <2>1, <2>2
<1>5. CASE ResumeRecover(w)
  <2>1. /\ handle'[w] = epoch + 1 /\ epoch' = epoch + 1 /\ UNCHANGED <<attempt, seen>>
        /\ pc[w] \in {"recover", "recoverAborted"} /\ pc'[w] \in LeasedLabels
    BY <1>5, ResumeTargets, LabelSets DEF ResumeRecover, Recover, TakeLease, NextEpoch, CallOK, Goto,
       TypeOK, TeamTypeOK, runVars
  <2>2. seen[w].attempt <= epoch /\ RunRoleAttempt(w)' = RunRoleAttempt(w)
    BY <2>1 DEF AttemptOK, RunRoleAttempt
  <2> QED
    BY <1>a, <1>b, <2>1, <2>2, LabelSets DEF AttemptInv, AttemptOK
<1>6. CASE ResumeRecoverAborted(w)
  <2>1. /\ handle'[w] = epoch + 1 /\ epoch' = epoch + 1 /\ UNCHANGED <<attempt, seen>>
        /\ pc[w] \in {"recover", "recoverAborted"} /\ pc'[w] \in LeasedLabels
    BY <1>6, ResumeTargets, LabelSets DEF ResumeRecoverAborted, TakeLease, NextEpoch, CallOK, Goto,
       TypeOK, TeamTypeOK, runVars
  <2>2. seen[w].attempt <= epoch /\ RunRoleAttempt(w)' = RunRoleAttempt(w)
    BY <2>1 DEF AttemptOK, RunRoleAttempt
  <2> QED
    BY <1>a, <1>b, <2>1, <2>2, LabelSets DEF AttemptInv, AttemptOK
<1>7. CASE ResumeTooLate(w)
  BY <1>7, <1>d, LabelSets DEF ResumeTooLate, Return, storeVars, CallOK, runVars,
     TeamTypeOK
<1>8. CASE KeepPartial(w)
  BY <1>8, <1>c, LabelSets DEF KeepPartial, Goto, storeVars, runVars, TeamTypeOK
<1>9. CASE SetRoleAttempt(w)
  <2>1. /\ attempt' = RunRoleAttempt(w) /\ handle[w] # 0 /\ epoch' = epoch
        /\ UNCHANGED <<handle, seen>> /\ pc'[w] = "setInterrupted"
    BY <1>9 DEF SetRoleAttempt, Fence, storeVars, Goto, TeamTypeOK
  <2> QED
    BY <1>a, <1>b, <2>1 DEF AttemptInv, AttemptOK, RunRoleAttempt
<1>10. CASE ClassifyInterrupted(w)
  BY <1>10, <1>c, LabelSets DEF ClassifyInterrupted, Goto, SetRecoveryClassification,
     runVars, TeamTypeOK
<1>11. CASE ResumeContext(w)
  BY <1>11, <1>c, LabelSets, ResumeTargets DEF ResumeContext, Goto, storeVars, runVars,
     TeamTypeOK, CallOK
<1>12. CASE InvokeRole(w)
  BY <1>12, <1>c, LabelSets, RoleTable DEF InvokeRole, Goto, storeVars, runVars,
     TeamTypeOK
<1>13. CASE RoleSucceeds(w)
  BY <1>13, <1>c, LabelSets, RoleTable DEF RoleSucceeds, Goto, storeVars, runVars,
     TeamTypeOK
<1>14. CASE RoleFails(w)
  BY <1>14, <1>c, LabelSets, RoleTable DEF RoleFails, Goto, storeVars, runVars,
     TeamTypeOK
<1>15. CASE SetCoderDigest(w)
  BY <1>15, <1>c, LabelSets DEF SetCoderDigest, Goto, storeVars, runVars, TeamTypeOK
<1>16. CASE RoleFailed(w)
  BY <1>16, <1>c, LabelSets DEF RoleFailed, Goto, Terminalize, runVars, TeamTypeOK
<1>17. CASE AcceptStep(w)
  BY <1>17, <1>c, AcceptEffect, LabelSets
<1>18. CASE TransitionStep(w)
  BY <1>18, <1>c, LabelSets, TransitionTable DEF TransitionStep, Goto, TransitionTo,
     runVars, TeamTypeOK
<1>19. CASE ClassifyStep(w)
  BY <1>19, <1>c, LabelSets, ClassifyTable DEF ClassifyStep, Goto, ClassifyFailure,
     runVars, TeamTypeOK
<1>20. CASE Validate(w)
  BY <1>20, <1>c, LabelSets DEF Validate, Goto, storeVars, runVars, TeamTypeOK
<1>21. CASE Finish(w)
  BY <1>21, <1>c, LabelSets DEF Finish, Goto, TransitionTo, Terminalize, runVars,
     TeamTypeOK
<1>22. CASE ReturnStep(w)
  BY <1>22, <1>d DEF ReturnStep, Return, Leave, TypeOK, runVars, TeamTypeOK
<1>23. CASE RaiseFenced(w)
  BY <1>23, <1>d DEF RaiseFenced, Return, Leave, TypeOK, runVars, TeamTypeOK
<1>24. CASE RaiseRefused(w)
  BY <1>24, <1>d DEF RaiseRefused, Return, Release, TypeOK, runVars, TeamTypeOK
<1>25. CASE RoleEdits(w)
  BY <1>25, <1>c, LabelSets, RoleTable DEF RoleEdits, callVars, storeVars, runVars,
     TeamTypeOK
<1>26. CASE KeepAlive(w)
  BY <1>26, <1>c, LabelSets DEF KeepAlive, callVars, Heartbeat, runVars, TeamTypeOK
<1>27. CASE Crash(w)
  BY <1>27, <1>d DEF Crash, Return, Leave, storeVars, TypeOK, runVars, TeamTypeOK
<1> QED
  BY <1>1, <1>2, <1>3, <1>4, <1>5, <1>6, <1>7, <1>8, <1>9, <1>10, <1>11, <1>12, <1>13,
     <1>14, <1>15, <1>16, <1>17, <1>18, <1>19, <1>20, <1>21, <1>22, <1>23, <1>24, <1>25,
     <1>26, <1>27 DEF WorkerAct, Call

(* The inductive invariant of the types, the leases and the attempts is kept. *)
LEMMA TeamStep == TeamInv /\ [TeamNext]_vars => TeamInv'
<1> SUFFICES ASSUME TeamInv, [TeamNext]_vars PROVE TeamInv'
  OBVIOUS
<1>a. /\ TypeOK /\ HandleInv /\ TeamTypeOK /\ AttemptInv /\ StoreInv'
      /\ epoch <= epoch' /\ epoch \in Nat /\ epoch' \in Nat
  BY Inherited DEF TeamInv, StoreInv, Progress
<1>b. accepted <= accepted' /\ accepted \in -1..4 /\ accepted' \in -1..4
  BY Inherited
<1>c. status \in Aborts => status' \in Aborts
  BY Inherited DEF TerminalStable, Aborts, Terminal
<1>d. ASSUME NEW v \in Workers,
             pc'[v] = pc[v], seen'[v] = seen[v], handle'[v] = handle[v]
      PROVE  CallOK(v)' /\ AttemptOK(v)'
  <2>1. /\ CallOK(v) /\ AttemptOK(v)
        /\ seen[v].accepted \in -1..4 /\ seen[v].attempt \in Nat
    BY <1>a DEF TeamInv, TeamTypeOK, Attempts
  <2>2. CallOK(v)'
    BY <1>b, <1>c, <1>d, <2>1 DEF CallOK
  <2>3. AttemptOK(v)'
    BY <1>a, <1>d, <2>1 DEF AttemptOK, RunRoleAttempt
  <2> QED
    BY <2>2, <2>3
<1>1. ASSUME NEW w \in Workers, WorkerAct(w) PROVE TeamInv'
  <2>a. CallOK(w) /\ AttemptOK(w)
    BY DEF TeamInv
  <2>1. TeamTypeOK'
    BY <1>a, <1>1, <2>a, WorkerKeepsTypes
  <2>2. CallOK(w)'
    BY <1>a, <1>b, <1>1, <2>a, WorkerKeepsCall
  <2>3. AttemptInv' /\ AttemptOK(w)'
    BY <1>a, <1>1, <2>a, WorkerKeepsAttempt
  <2>4. ASSUME NEW v \in Workers, v # w PROVE CallOK(v)' /\ AttemptOK(v)'
    BY <1>a, <1>d, <1>1, <2>4, OthersUntouched DEF Untouched
  <2> QED
    BY <1>a, <2>1, <2>2, <2>3, <2>4 DEF TeamInv
<1>2. ASSUME UNCHANGED <<runVars, treeVars, callVars, handle>>,
             crashes' \in 0..MaxCrashes, stalls' \in 0..MaxStalls
      PROVE  TeamInv'
  <2>1. TeamTypeOK'
    BY <1>a, <1>2 DEF TeamTypeOK, runVars, treeVars, callVars
  <2>2. AttemptInv'
    BY <1>a, <1>2 DEF AttemptInv, TeamTypeOK, Attempts, runVars
  <2>3. \A v \in Workers : CallOK(v)' /\ AttemptOK(v)'
    BY <1>2, <1>d DEF callVars
  <2> QED
    BY <1>a, <2>1, <2>2, <2>3 DEF TeamInv
<1>3. ASSUME NEW r \in Reconcilers, Reconcile(r) PROVE TeamInv'
  BY <1>a, <1>2, <1>3 DEF Reconcile, ReconcilerStep, ReconcileSelect, ReconcileInterrupt,
     ReconcileSkip, faultVars, TeamTypeOK
<1>4. CASE Expire
  BY <1>a, <1>2, <1>4, TeamBoundAssumption DEF Expire, LeaseTimeout, TeamTypeOK
<1>5. CASE UNCHANGED vars
  BY <1>a, <1>2, <1>5 DEF vars, storeVars, faultVars, TeamTypeOK
<1> QED
  BY <1>1, <1>3, <1>4, <1>5 DEF TeamNext, WorkerAct

-----------------------------------------------------------------------------
(* Without stalls nobody is superseded while the task is not aborted: a lease is  *)
(* interrupted only when its holder is gone, and taken over only then or from an  *)
(* aborted task.                                                                  *)
LEMMA HolderStep ==
  ASSUME MaxStalls = 0, TeamInv, HolderInv, [TeamNext]_vars
  PROVE  HolderInv'
<1>a. /\ TypeOK /\ HandleInv /\ RowInv /\ TeamTypeOK
      /\ \A w \in Workers : CallOK(w) /\ AttemptOK(w)
  BY DEF TeamInv, StoreInv
<1>b. FencedStays /\ (status' \notin Aborts => status \notin Aborts)
  BY Inherited DEF TerminalStable, Aborts, Terminal
<1>c. \A u, v \in Workers : Fence(u) /\ Fence(v) => u = v
  BY <1>a DEF HandleInv, Fence
<1>d. CASE UNCHANGED <<owner, epoch, expiry, handle>>
  BY <1>b, <1>d DEF HolderInv, Fence
<1>e. ASSUME status \notin Aborts, \A v \in Workers : ~Fence(v)
      PROVE  \A v \in Workers : handle[v] = 0
  BY <1>e DEF HolderInv
<1>1. ASSUME NEW w \in Workers, WorkerStep(w) PROVE HolderInv'
  <2>1. CASE Acquire(w)
    <3>1. \A v \in Workers : handle[v] = 0
      BY <1>a, <2>1 DEF Acquire, HandleInv, TypeOK
    <3> QED
      BY <1>a, <2>1, <3>1 DEF Acquire, HolderInv, Fence, TypeOK
  <2>2. CASE Recover(w)
    <3>1. \A v \in Workers : handle[v] = 0
      BY <1>a, <1>e, <2>2, OwnerAssumption DEF Recover, RowInv, Fence, Aborts
    <3> QED
      BY <1>a, <2>2, <3>1 DEF Recover, TakeLease, NextEpoch, HolderInv, Fence, TypeOK
  <2>3. CASE RecoverAborted(w)
    BY <2>3 DEF RecoverAborted, TakeLease, HolderInv
  <2>4. CASE Heartbeat(w)
    BY <1>b, <2>4 DEF Heartbeat, HolderInv, Fence
  <2>5. CASE Release(w)
    <3>1. \A v \in Workers : ~Fence(v)'
      BY <2>5, OwnerAssumption DEF Release, Fence
    <3>2. Fence(w) /\ status' = status /\ handle' = [handle EXCEPT ![w] = 0]
      BY <2>5 DEF Release
    <3>3. \A v \in Workers : status \notin Aborts /\ v # w => handle'[v] = 0
      BY <1>a, <1>c, <3>2 DEF HolderInv, TypeOK
    <3> QED
      BY <1>a, <3>1, <3>2, <3>3 DEF HolderInv, TypeOK
  <2>6. CASE Leave(w)
    BY <1>a, <2>6 DEF Leave, HolderInv, Fence, leaseVars, TypeOK
  <2>7. CASE ~(Acquire(w) \/ Recover(w) \/ RecoverAborted(w) \/ Heartbeat(w) \/ Release(w)
               \/ Leave(w))
    BY <1>1, <1>d, <2>7 DEF WorkerStep, SetRecoveryClassification, AcceptCheckpoint,
       AcceptNext, AcceptAgain, TransitionTo, ClassifyFailure, Terminalize, leaseVars,
       storeVars
  <2> QED
    BY <2>1, <2>2, <2>3, <2>4, <2>5, <2>6, <2>7
<1>2. ASSUME NEW w \in Workers, WorkerAct(w) PROVE HolderInv'
  <2>1. CASE WorkerStep(w)
    BY <1>1, <2>1
  <2>2. CASE UNCHANGED storeVars
    BY <1>d, <2>2 DEF storeVars
  <2> QED
    BY <1>a, <1>2, <2>1, <2>2, WorkerStepImplements
<1>3. ASSUME NEW r \in Reconcilers, Reconcile(r) PROVE HolderInv'
  <2>1. CASE ReconcileSelect(r) \/ ReconcileSkip(r)
    BY <1>d, <2>1 DEF ReconcileSelect, ReconcileSkip, leaseVars
  <2>2. CASE ReconcileInterrupt(r)
    <3>1. expiry # "live" /\ status \notin Aborts
      BY <1>a, <2>2 DEF ReconcileInterrupt, StillStale, RowInv, Live, Aborts
    <3>2. \A v \in Workers : ~Fence(v)
      BY <3>1 DEF HolderInv
    <3>3. \A v \in Workers : handle[v] = 0
      BY <1>e, <3>1, <3>2
    <3> QED
      BY <2>2, <3>3 DEF ReconcileInterrupt, HolderInv, Fence
  <2> QED
    BY <1>3, <2>1, <2>2 DEF Reconcile, ReconcilerStep
<1>4. CASE Expire
  <2>1. \A v \in Workers : ~Fence(v)
    BY <1>a, <1>4 DEF Expire, TeamTypeOK
  <2> QED
    BY <1>4, <2>1 DEF Expire, LeaseTimeout, HolderInv, Fence
<1>5. CASE UNCHANGED vars
  BY <1>d, <1>5 DEF vars, storeVars
<1> QED
  BY <1>2, <1>3, <1>4, <1>5 DEF TeamNext, WorkerAct

(* A call without a lease changes neither the log nor the product. *)
LEMMA IdleWritesNothing ==
  ASSUME NEW w \in Workers, CallOK(w), handle[w] = 0, WorkerAct(w)
  PROVE  UNCHANGED <<accepted, product, coderDigest>>
<1> USE LabelSets DEF runVars, treeVars, logVars
<1>1. CASE Execute(w)
  BY <1>1 DEF Execute, Acquire
<1>2. CASE Prepare(w)
  BY <1>2 DEF Prepare, storeVars
<1>3. CASE ResumeReadRun(w)
  BY <1>3 DEF ResumeReadRun, storeVars
<1>4. CASE ResumeReadTask(w)
  BY <1>4 DEF ResumeReadTask, storeVars
<1>5. CASE ResumeRecover(w)
  BY <1>5 DEF ResumeRecover, Recover, TakeLease, NextEpoch
<1>6. CASE ResumeRecoverAborted(w)
  BY <1>6 DEF ResumeRecoverAborted, TakeLease, NextEpoch
<1>7. CASE ResumeTooLate(w)
  BY <1>7 DEF ResumeTooLate, storeVars
<1>8. CASE KeepPartial(w)
  BY <1>8 DEF KeepPartial, Fence
<1>9. CASE SetRoleAttempt(w)
  BY <1>9 DEF SetRoleAttempt, storeVars
<1>10. CASE ClassifyInterrupted(w)
  BY <1>10 DEF ClassifyInterrupted, SetRecoveryClassification
<1>11. CASE ResumeContext(w)
  BY <1>11 DEF ResumeContext, storeVars
<1>12. CASE InvokeRole(w)
  BY <1>12 DEF InvokeRole, storeVars
<1>13. CASE RoleSucceeds(w)
  BY <1>13 DEF RoleSucceeds, storeVars
<1>14. CASE RoleFails(w)
  BY <1>14 DEF RoleFails, storeVars
<1>15. CASE SetCoderDigest(w)
  BY <1>15 DEF SetCoderDigest, Fence
<1>16. CASE RoleFailed(w)
  BY <1>16 DEF RoleFailed, Terminalize
<1>17. CASE AcceptStep(w)
  BY <1>17, AcceptTable DEF AcceptStep, AcceptCheckpoint, AcceptNext, AcceptAgain,
     storeVars, CallOK
<1>18. CASE TransitionStep(w)
  BY <1>18 DEF TransitionStep, TransitionTo
<1>19. CASE ClassifyStep(w)
  BY <1>19 DEF ClassifyStep, ClassifyFailure
<1>20. CASE Validate(w)
  BY <1>20 DEF Validate, storeVars
<1>21. CASE Finish(w)
  BY <1>21 DEF Finish, TransitionTo, Terminalize
<1>22. CASE ReturnStep(w)
  BY <1>22 DEF ReturnStep, Leave
<1>23. CASE RaiseFenced(w)
  BY <1>23 DEF RaiseFenced, Leave
<1>24. CASE RaiseRefused(w)
  BY <1>24 DEF RaiseRefused, Release
<1>25. CASE RoleEdits(w)
  BY <1>25, RoleTable DEF RoleEdits, storeVars, CallOK
<1>26. CASE KeepAlive(w)
  BY <1>26 DEF KeepAlive, Heartbeat
<1>27. CASE Crash(w)
  BY <1>27 DEF Crash, Leave, storeVars
<1> QED
  BY <1>1, <1>2, <1>3, <1>4, <1>5, <1>6, <1>7, <1>8, <1>9, <1>10, <1>11, <1>12, <1>13,
     <1>14, <1>15, <1>16, <1>17, <1>18, <1>19, <1>20, <1>21, <1>22, <1>23, <1>24, <1>25,
     <1>26, <1>27 DEF WorkerAct, Call

(* What a call's own step does to the product, its digest and the ranks, when the *)
(* call holds the lease if it has a handle and resumes the run as it read it.      *)
LEMMA WorkerKeepsProduct ==
  ASSUME NEW w \in Workers, TypeOK, TeamTypeOK, CallOK(w), WorkerAct(w),
         ProductInv, status \notin Aborts, Fresh,
         accepted <= accepted', accepted' \in -1..4
  PROVE  /\ RankOK(w)' /\ SnapshotOK(w)'
         /\ (accepted >= 2 => coderDigest > 0)'
         /\ (accepted >= 3 => product = coderDigest)'
         /\ (status \in {"VALIDATING", "READY_FOR_REVIEW"} => accepted >= 3)'
<1>a. /\ seen[w].accepted \in -1..4 /\ accepted \in -1..4 /\ seen[w].accepted <= accepted
      /\ product \in Nat /\ coderDigest \in {-1} \cup Nat /\ basis[w] \in Nat
      /\ NoRun.accepted = -1
  BY ProductAssumption DEF TeamTypeOK, TypeOK, CallOK, NoRun
<1>b. /\ RankOK(w) /\ SnapshotOK(w)
      /\ accepted >= 2 => coderDigest > 0
      /\ accepted >= 3 => product = coderDigest
      /\ status \in {"VALIDATING", "READY_FOR_REVIEW"} => accepted >= 3
  BY DEF ProductInv
<1> USE <1>a, <1>b DEF RankOK, SnapshotOK, TeamTypeOK
<1>1. CASE Execute(w)
  BY <1>1 DEF Execute, Goto, Acquire, runVars, treeVars, logVars
<1>2. CASE Prepare(w)
  BY <1>2 DEF Prepare, Goto, storeVars, runVars, treeVars
<1>3. CASE ResumeReadRun(w)
  BY <1>3 DEF ResumeReadRun, Goto, storeVars, runVars, treeVars
<1>4. CASE ResumeReadTask(w)
  BY <1>4 DEF ResumeReadTask, Goto, Return, storeVars, runVars, treeVars
<1>5. CASE ResumeRecover(w)
  <2>1. /\ pc[w] = "recover" /\ seen[w].accepted \in 0..4
        /\ pc'[w] = ResumeAt[seen[w].accepted] /\ status' = "RUNNING"
        /\ UNCHANGED <<accepted, product, coderDigest, seen, basis>>
    BY <1>5 DEF ResumeRecover, Goto, Recover, TakeLease, runVars, treeVars, logVars, CallOK
  <2>2. handle'[w] # handle[w]
    BY <1>5, LabelSets DEF ResumeRecover, Recover, TakeLease, NextEpoch, CallOK, TypeOK
  <2>3. seen[w].accepted = accepted
    BY <2>1, <2>2 DEF Fresh
  <2>4. /\ pc'[w] \in {"context", "partial", "lateValidate", "successReturn"}
        /\ pc'[w] = "partial" => accepted = 1
        /\ pc'[w] = "lateValidate" => accepted = 3
        /\ pc'[w] = "successReturn" => accepted = 4
    BY <2>1, <2>3, ResumeTargets
  <2>5. RankOK(w)'
    BY <2>1, <2>3, <2>4
  <2>6. SnapshotOK(w)'
    BY <2>1, <2>4
  <2> QED
    BY <2>1, <2>5, <2>6
<1>6. CASE ResumeRecoverAborted(w)
  BY <1>6 DEF ResumeRecoverAborted, CallOK
<1>7. CASE ResumeTooLate(w)
  BY <1>7 DEF ResumeTooLate, Return, storeVars, runVars, treeVars
<1>8. CASE KeepPartial(w)
  BY <1>8 DEF KeepPartial, Goto, storeVars, runVars, treeVars
<1>9. CASE SetRoleAttempt(w)
  BY <1>9 DEF SetRoleAttempt, Goto, storeVars, runVars, treeVars
<1>10. CASE ClassifyInterrupted(w)
  BY <1>10 DEF ClassifyInterrupted, Goto, SetRecoveryClassification, runVars, treeVars,
     logVars, CallOK
<1>11. CASE ResumeContext(w)
  BY <1>11, ResumeTargets DEF ResumeContext, Goto, storeVars, runVars, treeVars, CallOK,
     SnapshotFits
<1>12. CASE InvokeRole(w)
  BY <1>12, RoleTable DEF InvokeRole, Goto, storeVars, runVars, treeVars
<1>13. CASE RoleSucceeds(w)
  <2>1. UNCHANGED <<status, accepted, product, coderDigest, seen>>
    BY <1>13 DEF RoleSucceeds, storeVars, logVars, runVars, treeVars
  <2>2. CASE pc'[w] = "roleFailed"
    BY <2>1, <2>2
  <2>3. CASE pc'[w] # "roleFailed" /\ pc[w] \in {"planning", "reviewing"}
    <3>1. /\ product = basis[w] /\ basis' = basis
          /\ pc'[w] = RoleDone[pc[w]]
      BY <1>13, <2>3 DEF RoleSucceeds, Goto, RoleIsValid
    <3> QED
      BY <2>1, <2>3, <3>1, RoleTable
  <2>4. CASE pc'[w] # "roleFailed" /\ pc[w] = "coding"
    <3>1. /\ product # 0 /\ basis'[w] = product
          /\ pc'[w] = "setCoderDigest"
      BY <1>13, <2>4, RoleTable DEF RoleSucceeds, Goto, RoleIsValid
    <3> QED
      BY <2>1, <2>4, <3>1
  <2> QED
    BY <1>13, <2>2, <2>3, <2>4, RoleTable DEF RoleSucceeds
<1>14. CASE RoleFails(w)
  BY <1>14, RoleTable DEF RoleFails, Goto, storeVars, runVars, treeVars
<1>15. CASE SetCoderDigest(w)
  BY <1>15 DEF SetCoderDigest, Goto, storeVars, runVars, treeVars
<1>16. CASE RoleFailed(w)
  BY <1>16 DEF RoleFailed, Goto, Terminalize, runVars, treeVars, logVars
<1>17. CASE AcceptStep(w)
  BY <1>17, AcceptEffect
<1>18. CASE TransitionStep(w)
  BY <1>18, TransitionTable DEF TransitionStep, Goto, TransitionTo, runVars, treeVars,
     logVars
<1>19. CASE ClassifyStep(w)
  BY <1>19, ClassifyTable DEF ClassifyStep, Goto, ClassifyFailure, runVars, treeVars,
     logVars
<1>20. CASE Validate(w)
  BY <1>20 DEF Validate, Goto, storeVars, runVars, treeVars
<1>21. CASE Finish(w)
  BY <1>21 DEF Finish, Goto, TransitionTo, Terminalize, runVars, treeVars, logVars
<1>22. CASE ReturnStep(w)
  BY <1>22 DEF ReturnStep, Return, Leave, runVars, treeVars, logVars
<1>23. CASE RaiseFenced(w)
  BY <1>23 DEF RaiseFenced, Return, Leave, runVars, treeVars, logVars
<1>24. CASE RaiseRefused(w)
  BY <1>24 DEF RaiseRefused, Return, Release, runVars, treeVars, logVars
<1>25. CASE RoleEdits(w)
  BY <1>25, RoleTable DEF RoleEdits, callVars, storeVars, runVars, treeVars
<1>26. CASE KeepAlive(w)
  BY <1>26 DEF KeepAlive, callVars, Heartbeat, runVars, treeVars, logVars
<1>27. CASE Crash(w)
  BY <1>27 DEF Crash, Return, Leave, storeVars, runVars, treeVars, logVars
<1> QED
  BY <1>1, <1>2, <1>3, <1>4, <1>5, <1>6, <1>7, <1>8, <1>9, <1>10, <1>11, <1>12, <1>13,
     <1>14, <1>15, <1>16, <1>17, <1>18, <1>19, <1>20, <1>21, <1>22, <1>23, <1>24, <1>25,
     <1>26, <1>27 DEF WorkerAct, Call

(* The coder's digest is written before the coder's checkpoint only. *)
LEMMA DigestIsFixed ==
  ASSUME NEW w \in Workers, RankOK(w), accepted >= 2, WorkerAct(w)
  PROVE  coderDigest' = coderDigest
<1> USE DEF runVars
<1>1. CASE Execute(w)
  BY <1>1 DEF Execute
<1>2. CASE Prepare(w)
  BY <1>2 DEF Prepare
<1>3. CASE ResumeReadRun(w)
  BY <1>3 DEF ResumeReadRun
<1>4. CASE ResumeReadTask(w)
  BY <1>4 DEF ResumeReadTask
<1>5. CASE ResumeRecover(w)
  BY <1>5 DEF ResumeRecover
<1>6. CASE ResumeRecoverAborted(w)
  BY <1>6 DEF ResumeRecoverAborted
<1>7. CASE ResumeTooLate(w)
  BY <1>7 DEF ResumeTooLate
<1>8. CASE KeepPartial(w)
  BY <1>8 DEF KeepPartial, RankOK
<1>9. CASE SetRoleAttempt(w)
  BY <1>9 DEF SetRoleAttempt
<1>10. CASE ClassifyInterrupted(w)
  BY <1>10 DEF ClassifyInterrupted
<1>11. CASE ResumeContext(w)
  BY <1>11 DEF ResumeContext
<1>12. CASE InvokeRole(w)
  BY <1>12 DEF InvokeRole
<1>13. CASE RoleSucceeds(w)
  BY <1>13 DEF RoleSucceeds
<1>14. CASE RoleFails(w)
  BY <1>14 DEF RoleFails
<1>15. CASE SetCoderDigest(w)
  BY <1>15 DEF SetCoderDigest, RankOK
<1>16. CASE RoleFailed(w)
  BY <1>16 DEF RoleFailed
<1>17. CASE AcceptStep(w)
  BY <1>17 DEF AcceptStep
<1>18. CASE TransitionStep(w)
  BY <1>18 DEF TransitionStep
<1>19. CASE ClassifyStep(w)
  BY <1>19 DEF ClassifyStep
<1>20. CASE Validate(w)
  BY <1>20 DEF Validate
<1>21. CASE Finish(w)
  BY <1>21 DEF Finish
<1>22. CASE ReturnStep(w)
  BY <1>22 DEF ReturnStep
<1>23. CASE RaiseFenced(w)
  BY <1>23 DEF RaiseFenced
<1>24. CASE RaiseRefused(w)
  BY <1>24 DEF RaiseRefused
<1>25. CASE RoleEdits(w)
  BY <1>25 DEF RoleEdits
<1>26. CASE KeepAlive(w)
  BY <1>26 DEF KeepAlive
<1>27. CASE Crash(w)
  BY <1>27 DEF Crash
<1> QED
  BY <1>1, <1>2, <1>3, <1>4, <1>5, <1>6, <1>7, <1>8, <1>9, <1>10, <1>11, <1>12, <1>13,
     <1>14, <1>15, <1>16, <1>17, <1>18, <1>19, <1>20, <1>21, <1>22, <1>23, <1>24, <1>25,
     <1>26, <1>27 DEF WorkerAct, Call

(* Every step keeps the product in order.  A call that holds the lease is the only *)
(* one under way, and the others' reads of the coder's digest stay true because     *)
(* the digest is fixed once the coder's checkpoint is accepted.                     *)
LEMMA ProductStep ==
  ASSUME TeamInv, ReviewInv, [TeamNext]_vars, [Fresh]_vars, status' \notin Aborts
  PROVE  ProductInv'
<1>a. /\ TypeOK /\ HandleInv /\ TeamTypeOK
      /\ \A w \in Workers : CallOK(w) /\ AttemptOK(w)
      /\ accepted <= accepted' /\ accepted \in -1..4 /\ accepted' \in -1..4
  BY Inherited DEF TeamInv, StoreInv
<1>b. status \notin Aborts /\ ProductInv /\ HolderInv
  BY Inherited DEF TerminalStable, Aborts, Terminal, ReviewInv
<1>1. ASSUME NEW w \in Workers, WorkerAct(w), Fresh PROVE ProductInv'
  <2>1. /\ RankOK(w)' /\ SnapshotOK(w)'
        /\ (accepted >= 2 => coderDigest > 0)'
        /\ (accepted >= 3 => product = coderDigest)'
        /\ (status \in {"VALIDATING", "READY_FOR_REVIEW"} => accepted >= 3)'
    BY <1>a, <1>b, <1>1, WorkerKeepsProduct
  <2>2. ASSUME NEW v \in Workers, v # w PROVE RankOK(v)' /\ SnapshotOK(v)'
    <3>1. Untouched(v) /\ CallOK(v) /\ RankOK(v) /\ SnapshotOK(v)
      BY <1>a, <1>b, <1>1, <2>2, OthersUntouched DEF ProductInv
    <3>2. CASE handle[v] # 0
      <4>1. handle[w] = 0
        BY <1>a, <1>b, <2>2, <3>2 DEF HolderInv, HandleInv, Fence
      <4>2. UNCHANGED <<accepted, product, coderDigest>>
        BY <1>a, <1>1, <4>1, IdleWritesNothing
      <4> QED
        BY <3>1, <4>2 DEF Untouched, RankOK, SnapshotOK
    <3>3. CASE handle[v] = 0
      <4>1. pc'[v] \notin LeasedLabels
        BY <3>1, <3>3 DEF CallOK, Untouched
      <4>2. RankOK(v)'
        BY <4>1, LabelSets DEF RankOK
      <4>3. ASSUME seen'[v].accepted >= 2 PROVE seen'[v].coder = coderDigest'
        <5>1. seen[v].accepted >= 2 /\ seen[v].coder = coderDigest
          BY <3>1, <4>3 DEF SnapshotOK, Untouched
        <5>2. accepted >= 2
          BY <1>a, <3>1, <5>1 DEF CallOK, TeamTypeOK
        <5>3. coderDigest' = coderDigest
          BY <1>1, <1>b, <5>2, DigestIsFixed DEF ProductInv
        <5> QED
          BY <3>1, <5>1, <5>3 DEF Untouched
      <4> QED
        BY <4>1, <4>2, <4>3, LabelSets DEF SnapshotOK
    <3> QED
      BY <3>2, <3>3
  <2> QED
    BY <2>1, <2>2 DEF ProductInv
<1>2. ASSUME UNCHANGED <<runVars, treeVars, callVars, logVars>>,
             UNCHANGED status \/ status' = "INTERRUPTED"
      PROVE  ProductInv'
  BY <1>b, <1>2 DEF ProductInv, RankOK, SnapshotOK, runVars, treeVars, callVars, logVars
<1>3. ASSUME NEW r \in Reconcilers, Reconcile(r) PROVE ProductInv'
  BY <1>2, <1>3 DEF Reconcile, ReconcilerStep, ReconcileSelect, ReconcileInterrupt,
     ReconcileSkip
<1>4. CASE Expire
  BY <1>2, <1>4 DEF Expire, LeaseTimeout
<1>5. CASE UNCHANGED vars
  BY <1>2, <1>5 DEF vars, storeVars, logVars
<1> QED
  BY <1>1, <1>3, <1>4, <1>5 DEF TeamNext, WorkerAct

-----------------------------------------------------------------------------
(* A run that does not exist has no checkpoint. *)
LEMMA EmptyLog ==
  ASSUME StoreInv, epoch = 0
  PROVE  accepted = -1
<1>1. \A i \in 1..Len(history) : history[i].epoch <= 0 /\ history[i].epoch \in Nat \ {0}
  BY RowTypes DEF StoreInv, LogInv
<1>2. Len(history) \in Nat /\ accepted = Len(history) - 1
  BY RowTypes DEF StoreInv, LogInv, CheckpointLog
<1> QED
  BY <1>1, <1>2

(* A call without a lease changes the store only by taking one. *)
LEMMA IdleKeepsStore ==
  ASSUME NEW w \in Workers, CallOK(w), handle[w] = 0, WorkerAct(w),
         ~Execute(w), ~ResumeRecover(w), ~ResumeRecoverAborted(w)
  PROVE  UNCHANGED storeVars
<1>1. CASE Execute(w)
  BY <1>1
<1>2. CASE Prepare(w)
  BY <1>2 DEF Prepare
<1>3. CASE ResumeReadRun(w)
  BY <1>3 DEF ResumeReadRun
<1>4. CASE ResumeReadTask(w)
  BY <1>4 DEF ResumeReadTask
<1>5. CASE ResumeRecover(w)
  BY <1>5
<1>6. CASE ResumeRecoverAborted(w)
  BY <1>6
<1>7. CASE ResumeTooLate(w)
  BY <1>7 DEF ResumeTooLate
<1>8. CASE KeepPartial(w)
  BY <1>8 DEF KeepPartial
<1>9. CASE SetRoleAttempt(w)
  BY <1>9 DEF SetRoleAttempt
<1>10. CASE ClassifyInterrupted(w)
  BY <1>10 DEF ClassifyInterrupted, SetRecoveryClassification, Fence
<1>11. CASE ResumeContext(w)
  BY <1>11 DEF ResumeContext
<1>12. CASE InvokeRole(w)
  BY <1>12 DEF InvokeRole
<1>13. CASE RoleSucceeds(w)
  BY <1>13 DEF RoleSucceeds
<1>14. CASE RoleFails(w)
  BY <1>14 DEF RoleFails
<1>15. CASE SetCoderDigest(w)
  BY <1>15 DEF SetCoderDigest
<1>16. CASE RoleFailed(w)
  BY <1>16 DEF RoleFailed, Terminalize, Fence
<1>17. CASE AcceptStep(w)
  BY <1>17 DEF AcceptStep, AcceptCheckpoint, AcceptNext, AcceptAgain, Fence
<1>18. CASE TransitionStep(w)
  BY <1>18 DEF TransitionStep, TransitionTo, Fence
<1>19. CASE ClassifyStep(w)
  BY <1>19 DEF ClassifyStep, ClassifyFailure, Fence
<1>20. CASE Validate(w)
  BY <1>20 DEF Validate
<1>21. CASE Finish(w)
  BY <1>21 DEF Finish, TransitionTo, Terminalize, Fence
<1>22. CASE ReturnStep(w)
  BY <1>22 DEF ReturnStep, Leave
<1>23. CASE RaiseFenced(w)
  BY <1>23 DEF RaiseFenced, Leave
<1>24. CASE RaiseRefused(w)
  BY <1>24 DEF RaiseRefused, Release, Fence
<1>25. CASE RoleEdits(w)
  BY <1>25 DEF RoleEdits
<1>26. CASE KeepAlive(w)
  BY <1>26 DEF KeepAlive, Heartbeat, Fence
<1>27. CASE Crash(w)
  BY <1>27 DEF Crash
<1> QED
  BY <1>1, <1>2, <1>3, <1>4, <1>5, <1>6, <1>7, <1>8, <1>9, <1>10, <1>11, <1>12, <1>13,
     <1>14, <1>15, <1>16, <1>17, <1>18, <1>19, <1>20, <1>21, <1>22, <1>23, <1>24, <1>25,
     <1>26, <1>27 DEF WorkerAct, Call

(* The holder of the lease follows its program, and its status goes with it. *)
LEMMA WorkerKeepsStatus ==
  ASSUME NEW w \in Workers, StoreInv, TeamTypeOK, CallOK(w), StatusOK(w), WorkerAct(w),
         status \notin Aborts, status' \notin Aborts
  PROVE  StatusOK(w)'
<1>a. NoRun.recov \notin RecoverableClasses /\ TypeOK
  BY DEF NoRun, RecoverableClasses, StoreInv
<1> USE <1>a DEF StatusOK, TeamTypeOK, Aborts
<1>1. CASE Execute(w)
  BY <1>1, EmptyLog DEF Execute, Goto, Acquire, CallOK, logVars
<1>2. CASE Prepare(w)
  BY <1>2 DEF Prepare, Goto, storeVars
<1>3. CASE ResumeReadRun(w)
  BY <1>3 DEF ResumeReadRun, Goto, storeVars
<1>4. CASE ResumeReadTask(w)
  BY <1>4 DEF ResumeReadTask, Goto, Return, storeVars, Resumable
<1>5. CASE ResumeRecover(w)
  BY <1>5, ResumeTargets DEF ResumeRecover, Goto, Recover, TakeLease, NextEpoch,
     leaseVars, logVars, CallOK
<1>6. CASE ResumeRecoverAborted(w)
  BY <1>6 DEF ResumeRecoverAborted, CallOK
<1>7. CASE ResumeTooLate(w)
  BY <1>7 DEF ResumeTooLate, Return, storeVars
<1>8. CASE KeepPartial(w)
  BY <1>8 DEF KeepPartial, Goto, storeVars
<1>9. CASE SetRoleAttempt(w)
  BY <1>9 DEF SetRoleAttempt, Goto, storeVars
<1>10. CASE ClassifyInterrupted(w)
  BY <1>10 DEF ClassifyInterrupted, Goto, SetRecoveryClassification, leaseVars, logVars,
     RecoverableClasses
<1>11. CASE ResumeContext(w)
  BY <1>11, ResumeTargets DEF ResumeContext, Goto, storeVars, CallOK
<1>12. CASE InvokeRole(w)
  BY <1>12, RoleTable DEF InvokeRole, Goto, storeVars
<1>13. CASE RoleSucceeds(w)
  BY <1>13, RoleTable DEF RoleSucceeds, Goto, storeVars
<1>14. CASE RoleFails(w)
  BY <1>14, RoleTable DEF RoleFails, Goto, storeVars
<1>15. CASE SetCoderDigest(w)
  BY <1>15 DEF SetCoderDigest, Goto, storeVars
<1>16. CASE RoleFailed(w)
  BY <1>16 DEF RoleFailed, Goto, Terminalize, leaseVars, logVars, Terminal
<1>17. CASE AcceptStep(w)
  <2>1. UNCHANGED recov
    BY <1>17 DEF AcceptStep, AcceptCheckpoint, AcceptNext, AcceptAgain, storeVars, leaseVars
  <2> QED
    BY <1>17, <2>1, AcceptEffect
<1>18. CASE TransitionStep(w)
  BY <1>18, TransitionTable DEF TransitionStep, Goto, TransitionTo, leaseVars, logVars
<1>19. CASE ClassifyStep(w)
  BY <1>19, ClassifyTable DEF ClassifyStep, Goto, ClassifyFailure, leaseVars, logVars
<1>20. CASE Validate(w)
  BY <1>20 DEF Validate, Goto, storeVars
<1>21. CASE Finish(w)
  BY <1>21 DEF Finish, Goto, TransitionTo, Terminalize, leaseVars, logVars, Terminal
<1>22. CASE ReturnStep(w)
  BY <1>22 DEF ReturnStep, Return, Leave, leaseVars, logVars
<1>23. CASE RaiseFenced(w)
  BY <1>23 DEF RaiseFenced, Return, Leave, leaseVars, logVars
<1>24. CASE RaiseRefused(w)
  BY <1>24 DEF RaiseRefused, Return, Release, leaseVars, logVars
<1>25. CASE RoleEdits(w)
  BY <1>25, RoleTable DEF RoleEdits, callVars, storeVars
<1>26. CASE KeepAlive(w)
  BY <1>26 DEF KeepAlive, callVars, Heartbeat, leaseVars, logVars
<1>27. CASE Crash(w)
  BY <1>27 DEF Crash, Return, Leave, storeVars, leaseVars, logVars
<1> QED
  BY <1>1, <1>2, <1>3, <1>4, <1>5, <1>6, <1>7, <1>8, <1>9, <1>10, <1>11, <1>12, <1>13,
     <1>14, <1>15, <1>16, <1>17, <1>18, <1>19, <1>20, <1>21, <1>22, <1>23, <1>24, <1>25,
     <1>26, <1>27 DEF WorkerAct, Call

(* The store refuses no step of the holder of a task that is not aborted. *)
LEMMA NeverRefused ==
  ASSUME NEW w \in Workers, RankOK(w), StatusOK(w), status \notin Aborts,
         pc[w] \in FencedLabels
  PROVE  ~Refused(w)
<1>1. CASE pc[w] \in DOMAIN CheckpointOf
  BY <1>1, AcceptTable, TransitionTable, ClassifyTable DEF Refused, RankOK, StatusOK
<1>2. CASE pc[w] \in DOMAIN TransitionSteps
  BY <1>2, AcceptTable, TransitionTable, ClassifyTable
     DEF Refused, StatusOK, RefusedTransition, TransitionRules
<1>3. CASE pc[w] \in DOMAIN ClassifySteps
  BY <1>3, AcceptTable, TransitionTable, ClassifyTable DEF Refused, StatusOK, Terminal
<1>4. CASE pc[w] \in {"finish", "lateFinish"}
  BY <1>4, AcceptTable, TransitionTable, ClassifyTable
     DEF Refused, StatusOK, RefusedTransition, TransitionRules
<1> QED
  BY <1>1, <1>2, <1>3, <1>4 DEF Refused

(* After at most one crash, a call's own step leaves no overtaken resume behind. *)
LEMMA WorkerKeepsOrphan ==
  ASSUME MaxCrashes <= 1, NEW w \in Workers, TeamInv, HolderInv, FreshInv, ProductInv,
         WorkerAct(w), status \notin Aborts, status' \notin Aborts
  PROVE  OrphanInv'
<1>a. /\ TypeOK /\ HandleInv /\ TeamTypeOK /\ CallOK(w) /\ StatusOK(w) /\ RankOK(w)
      /\ epoch \in Nat /\ crashes \in Nat /\ MaxCrashes \in Nat
      /\ NoRun.recov \notin RecoverableClasses
  BY TeamBoundAssumption DEF TeamInv, StoreInv, TypeOK, TeamTypeOK, FreshInv, ProductInv, NoRun,
     RecoverableClasses
<1>b. \A v \in Workers : seen[v].recov \in RecoverableClasses => recov \in RecoverableClasses
  BY DEF FreshInv, StatusOK
<1>c. \A v \in Workers : v # w => Untouched(v)
  BY <1>a, OthersUntouched
<1>d. \A v \in Workers : v # w /\ handle[w] # 0 => pc'[v] # "successReturn"
  <2> SUFFICES ASSUME NEW v \in Workers, v # w, handle[w] # 0
               PROVE  pc[v] # "successReturn"
    BY <1>c DEF Untouched
  <2>1. handle[v] = 0
    BY <1>a DEF HolderInv, HandleInv, Fence
  <2> QED
    BY <2>1, LabelSets DEF TeamInv, CallOK
<1>e. handle[w] # 0 => epoch # 0 /\ Fence(w)
  BY DEF HolderInv, Fence
<1>f. ASSUME UNCHANGED <<status, epoch, accepted, handle, crashes>>,
             recov' \in RecoverableClasses <=> recov \in RecoverableClasses,
             pc'[w] # "successReturn",
             \/ seen'[w] = seen[w]
             \/ seen'[w].recov \notin RecoverableClasses
             \/ seen'[w].accepted = accepted
      PROVE  OrphanInv'
  <2>1. AllFresh => AllFresh'
    BY <1>c, <1>f DEF AllFresh, Untouched
  <2>2. Held' = Held
    BY <1>f DEF Held
  <2> QED
    BY <1>c, <1>f, <2>1, <2>2 DEF OrphanInv, FreshInv, Untouched
<1>g. ASSUME handle'[w] # 0, epoch' # 0, status' # "INTERRUPTED", UNCHANGED <<recov, crashes>>,
             \A v \in Workers : v # w => pc'[v] # "successReturn",
             pc'[w] = "successReturn" /\ status' \in Live
               => recov' \in RecoverableClasses /\ AllFresh'
      PROVE  OrphanInv'
  <2>1. Held'
    BY <1>g DEF Held
  <2> QED
    BY <1>g, <2>1 DEF OrphanInv, FreshInv
<1>1. CASE Execute(w)
  <2>1. \A v \in Workers : handle[v] = 0
    BY <1>a, <1>1 DEF Execute, Acquire, HandleInv, TypeOK
  <2>2. /\ handle'[w] # 0 /\ epoch' = 1 /\ recov' = "normal"
        /\ \A v \in Workers : pc'[v] # "successReturn"
    BY <1>a, <1>c, <1>1, <2>1, LabelSets
       DEF Execute, Acquire, Goto, TeamInv, CallOK, TeamTypeOK, TypeOK, Untouched
  <2>3. Held'
    BY <2>2 DEF Held
  <2> QED
    BY <1>1, <2>2, <2>3 DEF Execute, Acquire, OrphanInv, RecoverableClasses
<1>2. CASE Prepare(w)
  BY <1>a, <1>f, <1>2 DEF Prepare, Goto, storeVars, TeamTypeOK, faultVars
<1>3. CASE ResumeReadRun(w)
  BY <1>a, <1>f, <1>3 DEF ResumeReadRun, Goto, storeVars, TeamTypeOK, faultVars
<1>4. CASE ResumeReadTask(w)
  <2>1. UNCHANGED <<status, epoch, accepted, handle, crashes, recov>>
    BY <1>4 DEF ResumeReadTask, storeVars, faultVars
  <2>2. seen'[w] = seen[w] \/ seen'[w] = NoRun
    BY <1>a, <1>4 DEF ResumeReadTask, Return, TeamTypeOK
  <2>3. pc'[w] \in {"idle", "recover", "recoverAborted"}
    BY <1>a, <1>4 DEF ResumeReadTask, Return, Goto, TeamTypeOK
  <2> QED
    BY <1>a, <1>f, <2>1, <2>2, <2>3
<1>5. CASE ResumeRecover(w)
  <2>1. \A v \in Workers : handle[v] = 0
    BY <1>5, OwnerAssumption DEF ResumeRecover, Recover, HolderInv, Fence, TeamInv, StoreInv, RowInv
  <2>2. \A v \in Workers : v # w => pc'[v] # "successReturn"
    BY <1>c, <2>1, LabelSets DEF TeamInv, CallOK, Untouched
  <2>3. AllFresh /\ recov \in RecoverableClasses
    BY <1>5 DEF ResumeRecover, Recover, FreshInv, OrphanInv
  <2>4. /\ handle'[w] # 0 /\ epoch' # 0 /\ status' = "RUNNING"
        /\ UNCHANGED <<recov, crashes, seen, accepted>>
    BY <1>a, <1>5 DEF ResumeRecover, Recover, TakeLease, NextEpoch, TypeOK, logVars, faultVars
  <2>5. AllFresh'
    BY <2>3, <2>4 DEF AllFresh
  <2> QED
    BY <1>g, <2>2, <2>3, <2>4, <2>5
<1>6. CASE ResumeRecoverAborted(w)
  BY <1>a, <1>6 DEF ResumeRecoverAborted, CallOK
<1>7. CASE ResumeTooLate(w)
  BY <1>a, <1>f, <1>7 DEF ResumeTooLate, Return, storeVars, TeamTypeOK, faultVars
<1>8. CASE KeepPartial(w)
  BY <1>a, <1>f, <1>8 DEF KeepPartial, Goto, storeVars, TeamTypeOK, faultVars
<1>9. CASE SetRoleAttempt(w)
  BY <1>a, <1>f, <1>9 DEF SetRoleAttempt, Goto, storeVars, TeamTypeOK, faultVars
<1>10. CASE ClassifyInterrupted(w)
  BY <1>a, <1>f, <1>10 DEF ClassifyInterrupted, Goto, SetRecoveryClassification,
     TeamTypeOK, faultVars, StatusOK, RecoverableClasses, logVars
<1>11. CASE ResumeContext(w)
  BY <1>a, <1>f, <1>11, ResumeTargets DEF ResumeContext, Goto, storeVars, TeamTypeOK,
     faultVars, CallOK
<1>12. CASE InvokeRole(w)
  BY <1>a, <1>f, <1>12, RoleTable DEF InvokeRole, Goto, storeVars, TeamTypeOK, faultVars
<1>13. CASE RoleSucceeds(w)
  BY <1>a, <1>f, <1>13, RoleTable DEF RoleSucceeds, Goto, storeVars, TeamTypeOK,
     faultVars
<1>14. CASE RoleFails(w)
  BY <1>a, <1>f, <1>14, RoleTable DEF RoleFails, Goto, storeVars, TeamTypeOK, faultVars
<1>15. CASE SetCoderDigest(w)
  BY <1>a, <1>f, <1>15 DEF SetCoderDigest, Goto, storeVars, TeamTypeOK, faultVars
<1>16. CASE RoleFailed(w)
  BY <1>a, <1>16 DEF RoleFailed, Terminalize, StatusOK, Terminal, Aborts
<1>17. CASE AcceptStep(w)
  <2>1. UNCHANGED <<recov, crashes>> /\ handle[w] # 0
    BY <1>17 DEF AcceptStep, AcceptCheckpoint, AcceptNext, AcceptAgain, storeVars, leaseVars,
       faultVars, Fence
  <2>2. /\ UNCHANGED <<handle, epoch, status>>
        /\ pc'[w] = "successReturn" => status = "READY_FOR_REVIEW"
        /\ status # "INTERRUPTED"
    BY <1>a, <1>17, AcceptEffect DEF StatusOK
  <2> QED
    BY <1>d, <1>e, <1>g, <2>1, <2>2 DEF Live
<1>18. CASE TransitionStep(w)
  <2>1. /\ handle[w] # 0 /\ UNCHANGED <<handle, epoch, recov, crashes>>
        /\ pc'[w] # "successReturn" /\ status' # "INTERRUPTED"
    BY <1>a, <1>18, TransitionTable DEF TransitionStep, TransitionTo, Goto, TeamTypeOK,
       leaseVars, faultVars, Fence
  <2> QED
    BY <1>d, <1>e, <1>g, <2>1
<1>19. CASE ClassifyStep(w)
  BY <1>a, <1>19 DEF ClassifyStep, ClassifyFailure, Aborts
<1>20. CASE Validate(w)
  BY <1>a, <1>f, <1>20 DEF Validate, Goto, storeVars, TeamTypeOK, faultVars
<1>21. CASE Finish(w)
  <2>1. status' = "READY_FOR_REVIEW" /\ handle[w] # 0
    BY <1>a, <1>21 DEF Finish, TransitionTo, Terminalize, StatusOK, Terminal, Aborts, Fence
  <2>2. UNCHANGED <<handle, epoch, recov, crashes>>
    BY <1>21 DEF Finish, TransitionTo, Terminalize, leaseVars, faultVars
  <2> QED
    BY <1>d, <1>e, <1>g, <2>1, <2>2 DEF Live
<1>22. CASE ReturnStep(w)
  <2>1. /\ handle[w] # 0 /\ pc'[w] = "idle" /\ seen'[w] = NoRun
        /\ UNCHANGED <<status, epoch, recov, accepted, crashes>>
        /\ pc[w] \in {"successReturn", "failureReturn"}
    BY <1>a, <1>22 DEF ReturnStep, Leave, Return, TeamTypeOK, leaseVars, logVars, faultVars
  <2>2. status # "INTERRUPTED" /\ (status \in Live => pc[w] = "successReturn")
    BY <1>a, <2>1 DEF StatusOK, Terminal, Live
  <2>3. status \in Live => recov \in RecoverableClasses /\ AllFresh
    BY <2>1, <2>2 DEF FreshInv, OrphanInv
  <2>4. AllFresh => AllFresh'
    BY <1>a, <1>c, <2>1 DEF AllFresh, Untouched
  <2> QED
    BY <1>d, <1>e, <2>1, <2>2, <2>3, <2>4 DEF FreshInv, OrphanInv
<1>23. CASE RaiseFenced(w)
  BY <1>e, <1>23 DEF RaiseFenced, Leave
<1>24. CASE RaiseRefused(w)
  BY <1>a, <1>24, NeverRefused DEF RaiseRefused
<1>25. CASE RoleEdits(w)
  BY <1>a, <1>f, <1>25, RoleTable DEF RoleEdits, callVars, storeVars, TeamTypeOK,
     faultVars
<1>26. CASE KeepAlive(w)
  <2>1. UNCHANGED <<status, epoch, accepted, handle, crashes, recov, pc, seen>>
    BY <1>26 DEF KeepAlive, Heartbeat, callVars, logVars, faultVars
  <2> QED
    BY <2>1 DEF FreshInv, OrphanInv, AllFresh, Held
<1>27. CASE Crash(w)
  <2>1. /\ crashes = 0 /\ crashes' = 1 /\ pc'[w] = "idle" /\ seen'[w] = NoRun
        /\ UNCHANGED <<status, epoch, recov, accepted>>
    BY <1>a, <1>27 DEF Crash, Leave, Return, TeamTypeOK, leaseVars, logVars, storeVars
  <2>2. recov \notin RecoverableClasses
    BY <2>1 DEF FreshInv, OrphanInv
  <2>3. AllFresh'
    BY <1>a, <1>b, <1>c, <2>1, <2>2 DEF AllFresh, Untouched
  <2> QED
    BY <1>c, <2>1, <2>2, <2>3 DEF FreshInv, OrphanInv, Untouched
<1> QED
  BY <1>1, <1>2, <1>3, <1>4, <1>5, <1>6, <1>7, <1>8, <1>9, <1>10, <1>11, <1>12, <1>13,
     <1>14, <1>15, <1>16, <1>17, <1>18, <1>19, <1>20, <1>21, <1>22, <1>23, <1>24, <1>25,
     <1>26, <1>27 DEF WorkerAct, Call

(* A run marked for recovery stays marked: only a first run clears the mark. *)
LEMMA MarkStays ==
  ASSUME NEW w \in Workers, WorkerAct(w), OrphanInv, recov \in RecoverableClasses
  PROVE  recov' \in RecoverableClasses
<1>1. CASE Execute(w)
  BY <1>1 DEF Execute, Acquire, OrphanInv
<1>2. CASE Prepare(w)
  BY <1>2 DEF Prepare, storeVars
<1>3. CASE ResumeReadRun(w)
  BY <1>3 DEF ResumeReadRun, storeVars
<1>4. CASE ResumeReadTask(w)
  BY <1>4 DEF ResumeReadTask, storeVars
<1>5. CASE ResumeRecover(w)
  BY <1>5 DEF ResumeRecover, Recover, TakeLease
<1>6. CASE ResumeRecoverAborted(w)
  BY <1>6 DEF ResumeRecoverAborted, TakeLease, NextEpoch, leaseVars, logVars
<1>7. CASE ResumeTooLate(w)
  BY <1>7 DEF ResumeTooLate, storeVars
<1>8. CASE KeepPartial(w)
  BY <1>8 DEF KeepPartial, storeVars
<1>9. CASE SetRoleAttempt(w)
  BY <1>9 DEF SetRoleAttempt, storeVars
<1>10. CASE ClassifyInterrupted(w)
  BY <1>10 DEF ClassifyInterrupted, SetRecoveryClassification, RecoverableClasses
<1>11. CASE ResumeContext(w)
  BY <1>11 DEF ResumeContext, storeVars
<1>12. CASE InvokeRole(w)
  BY <1>12 DEF InvokeRole, storeVars
<1>13. CASE RoleSucceeds(w)
  BY <1>13 DEF RoleSucceeds, storeVars
<1>14. CASE RoleFails(w)
  BY <1>14 DEF RoleFails, storeVars
<1>15. CASE SetCoderDigest(w)
  BY <1>15 DEF SetCoderDigest, storeVars
<1>16. CASE RoleFailed(w)
  BY <1>16 DEF RoleFailed, Terminalize, leaseVars, logVars
<1>17. CASE AcceptStep(w)
  BY <1>17 DEF AcceptStep, AcceptCheckpoint, AcceptNext, AcceptAgain, storeVars,
     leaseVars
<1>18. CASE TransitionStep(w)
  BY <1>18 DEF TransitionStep, TransitionTo, leaseVars, logVars
<1>19. CASE ClassifyStep(w)
  BY <1>19 DEF ClassifyStep, ClassifyFailure, leaseVars, logVars
<1>20. CASE Validate(w)
  BY <1>20 DEF Validate, storeVars
<1>21. CASE Finish(w)
  BY <1>21 DEF Finish, TransitionTo, Terminalize, leaseVars, logVars
<1>22. CASE ReturnStep(w)
  BY <1>22 DEF ReturnStep, Leave, leaseVars, logVars
<1>23. CASE RaiseFenced(w)
  BY <1>23 DEF RaiseFenced, Leave, leaseVars, logVars
<1>24. CASE RaiseRefused(w)
  BY <1>24 DEF RaiseRefused, Release, leaseVars, logVars
<1>25. CASE RoleEdits(w)
  BY <1>25 DEF RoleEdits, storeVars
<1>26. CASE KeepAlive(w)
  BY <1>26 DEF KeepAlive, Heartbeat, leaseVars, logVars
<1>27. CASE Crash(w)
  BY <1>27 DEF Crash, Leave, storeVars, leaseVars
<1> QED
  BY <1>1, <1>2, <1>3, <1>4, <1>5, <1>6, <1>7, <1>8, <1>9, <1>10, <1>11, <1>12, <1>13,
     <1>14, <1>15, <1>16, <1>17, <1>18, <1>19, <1>20, <1>21, <1>22, <1>23, <1>24, <1>25,
     <1>26, <1>27 DEF WorkerAct, Call

(* Every step keeps the status of the holder, and the resumes under way fresh. *)
LEMMA FreshStep ==
  ASSUME MaxStalls = 0, MaxCrashes <= 1, TeamInv, OnceInv, [TeamNext]_vars,
         status' \notin Aborts
  PROVE  FreshInv'
<1>a. /\ TypeOK /\ HandleInv /\ RowInv /\ StoreInv /\ TeamTypeOK /\ HolderInv
      /\ \A w \in Workers : CallOK(w) /\ AttemptOK(w)
  BY DEF TeamInv, StoreInv, OnceInv, ReviewInv
<1>b. status \notin Aborts /\ ProductInv /\ FreshInv /\ OrphanInv
  BY Inherited DEF TerminalStable, Aborts, Terminal, OnceInv, ReviewInv, FreshInv
<1>1. ASSUME NEW w \in Workers, WorkerAct(w) PROVE FreshInv'
  <2>1. OrphanInv'
    BY <1>a, <1>b, <1>1, WorkerKeepsOrphan
  <2>2. StatusOK(w)'
    BY <1>a, <1>b, <1>1, WorkerKeepsStatus DEF FreshInv
  <2>3. ASSUME NEW v \in Workers, v # w PROVE StatusOK(v)'
    <3>1. Untouched(v) /\ CallOK(v) /\ StatusOK(v)
      BY <1>a, <1>b, <1>1, <2>3, OthersUntouched DEF FreshInv
    <3>2. CASE handle[v] # 0
      <4>1. Fence(v) /\ handle[w] = 0 /\ epoch # 0 /\ owner # NoOwner
        BY <1>a, <1>b, <2>3, <3>2, OwnerAssumption DEF HolderInv, HandleInv, Fence
      <4>2. ~Execute(w) /\ ~ResumeRecover(w)
        BY <1>a, <4>1 DEF Execute, Acquire, ResumeRecover, Recover, RowInv
      <4>3. ~ResumeRecoverAborted(w)
        BY <1>a, <1>b DEF ResumeRecoverAborted, CallOK
      <4>4. UNCHANGED storeVars
        BY <1>a, <1>1, <4>1, <4>2, <4>3, IdleKeepsStore
      <4> QED
        BY <3>1, <4>4 DEF Untouched, StatusOK, storeVars, leaseVars, logVars
    <3>3. CASE handle[v] = 0
      <4>1. pc'[v] \notin LeasedLabels
        BY <3>1, <3>3 DEF CallOK, Untouched
      <4>2. /\ pc'[v] = "recover" => seen'[v].recov \in RecoverableClasses
            /\ seen'[v].recov \in RecoverableClasses => recov' \in RecoverableClasses
        BY <1>b, <1>1, <3>1, MarkStays DEF Untouched, StatusOK
      <4> QED
        BY <4>1, <4>2, LabelSets DEF StatusOK
    <3> QED
      BY <3>2, <3>3
  <2> QED
    BY <2>1, <2>2, <2>3 DEF FreshInv
<1>2. ASSUME UNCHANGED <<status, epoch, recov, accepted, handle, pc, seen, crashes>>
      PROVE  FreshInv'
  BY <1>b, <1>2 DEF FreshInv, OrphanInv, StatusOK, AllFresh, Held
<1>3. ASSUME NEW r \in Reconcilers, Reconcile(r) PROVE FreshInv'
  <2>1. CASE ReconcileSelect(r) \/ ReconcileSkip(r)
    BY <1>2, <1>3, <2>1 DEF Reconcile, ReconcileSelect, ReconcileSkip, leaseVars, logVars,
       callVars, faultVars
  <2>2. CASE ReconcileInterrupt(r)
    <3>1. /\ UNCHANGED <<epoch, accepted, handle, pc, seen, crashes>>
          /\ status' = "INTERRUPTED" /\ recov' \in RecoverableClasses /\ status \in Live
          /\ expiry # "live"
      BY <1>a, <1>3, <2>2 DEF Reconcile, ReconcileInterrupt, StillStale, RowInv, logVars,
         callVars, faultVars, RecoverableClasses
    <3>2. \A w \in Workers : handle[w] = 0 /\ pc[w] \notin LeasedLabels
      BY <1>a, <1>b, <3>1 DEF HolderInv, CallOK
    <3>3. crashes >= 1 /\ AllFresh /\ epoch # 0
      BY <1>b, <3>1, <3>2 DEF OrphanInv, Held
    <3>4. AllFresh'
      BY <3>1, <3>3 DEF AllFresh
    <3>5. OrphanInv'
      BY <3>1, <3>3, <3>4 DEF OrphanInv, Live
    <3>6. ASSUME NEW w \in Workers PROVE StatusOK(w)'
      <4>1. pc'[w] \notin LeasedLabels
        BY <3>1, <3>2
      <4>2. pc'[w] = "recover" => seen'[w].recov \in RecoverableClasses
        BY <1>b, <3>1 DEF FreshInv, StatusOK
      <4> QED
        BY <3>1, <4>1, <4>2, LabelSets DEF StatusOK
    <3> QED
      BY <3>5, <3>6 DEF FreshInv
  <2> QED
    BY <1>3, <2>1, <2>2 DEF Reconcile, ReconcilerStep
<1>4. CASE Expire
  BY <1>2, <1>4 DEF Expire, LeaseTimeout, logVars, callVars
<1>5. CASE UNCHANGED vars
  BY <1>2, <1>5 DEF vars, storeVars, leaseVars, logVars, callVars, faultVars
<1> QED
  BY <1>1, <1>3, <1>4, <1>5 DEF TeamNext, WorkerAct

(* While a run waits for recovery, whoever takes its lease has read it as it is. *)
LEMMA OnceIsFresh ==
  ASSUME TeamInv, OnceInv, [TeamNext]_vars, status \notin Aborts
  PROVE  Fresh
<1>a. TypeOK /\ TeamTypeOK /\ FreshInv /\ \A w \in Workers : CallOK(w)
  BY DEF TeamInv, StoreInv, OnceInv
<1> SUFFICES ASSUME NEW w \in Workers, pc[w] = "recover", handle'[w] # handle[w]
             PROVE  seen[w].accepted = accepted
  BY DEF Fresh
<1>1. handle[w] = 0
  BY <1>a, LabelSets DEF CallOK
<1>2. WorkerAct(w)
  <2>1. ASSUME NEW v \in Workers, WorkerAct(v), v # w PROVE FALSE
    BY <1>a, <2>1, OthersUntouched DEF Untouched
  <2>2. ~ UNCHANGED handle
    OBVIOUS
  <2>3. ASSUME NEW r \in Reconcilers, Reconcile(r) PROVE FALSE
    BY <2>2, <2>3 DEF Reconcile, ReconcilerStep, ReconcileSelect, ReconcileInterrupt,
       ReconcileSkip
  <2>4. ~Expire /\ ~ UNCHANGED vars
    BY <2>2 DEF Expire, LeaseTimeout, vars, storeVars
  <2> QED
    BY <2>1, <2>3, <2>4 DEF TeamNext, WorkerAct
<1>3. ResumeRecover(w)
  <2>1. ~Execute(w) /\ ~ResumeRecoverAborted(w)
    BY DEF Execute, ResumeRecoverAborted
  <2> QED
    BY <1>a, <1>1, <1>2, <2>1, IdleKeepsStore DEF storeVars
<1>4. AllFresh
  BY <1>a, <1>3 DEF ResumeRecover, Recover, FreshInv, OrphanInv
<1> QED
  BY <1>a, <1>4 DEF FreshInv, StatusOK, AllFresh

(* No call is under way when the service starts, and nothing is accepted. *)
LEMMA ReviewInit ==
  ASSUME TeamInit
  PROVE  ReviewInv
<1>1. HolderInv
  BY DEF TeamInit, Init, HolderInv, Fence
<1>2. ASSUME NEW w \in Workers PROVE RankOK(w) /\ SnapshotOK(w)
  <2>1. pc[w] = "idle" /\ seen[w].accepted = -1
    BY DEF TeamInit, NoRun
  <2> QED
    BY <2>1 DEF RankOK, SnapshotOK
<1>3. accepted = -1 /\ status = "QUEUED"
  BY DEF TeamInit, Init
<1> QED
  BY <1>1, <1>2, <1>3 DEF ReviewInv, ProductInv

(* What ReviewInv says of a task on offer. *)
LEMMA ReviewInvSuffices ==
  ASSUME TeamInv, ReviewInv
  PROVE  ReviewedIsCoded
  BY DEF ReviewInv, ProductInv, ReviewedIsCoded, Aborts, TeamInv, StoreInv, TypeOK

-----------------------------------------------------------------------------
(* The inductive invariant holds of every behaviour of the service. *)
THEOREM TeamInvariant == TeamSpec => []TeamInv
<1>1. TeamInit => TeamInv
  <2> SUFFICES ASSUME TeamInit PROVE TeamInv
    OBVIOUS
  <2>1. StoreInv
    BY StoreInit DEF TeamInit
  <2>2. NoRun \in [accepted : -1..4, recov : RecoveryClasses, attempt : Attempts,
                   coder : {-1} \cup Products]
    BY EpochAssumption DEF NoRun, RecoveryClasses, Attempts
  <2>3. TeamTypeOK
    <3>1. attempt \in Attempts /\ crashes \in 0..MaxCrashes /\ stalls \in 0..MaxStalls
      BY EpochAssumption, TeamBoundAssumption DEF TeamInit, Attempts
    <3>2. /\ coderDigest \in {-1} \cup Products /\ product \in Products
          /\ headMoved \in BOOLEAN /\ basis \in [Workers -> Products]
      BY ProductAssumption DEF TeamInit
    <3>3. /\ pc \in [Workers -> Labels]
          /\ vexit \in [Workers -> {"none", "ok", "bad"}]
          /\ seen \in [Workers -> [accepted : -1..4, recov : RecoveryClasses,
                                   attempt : Attempts, coder : {-1} \cup Products]]
      BY <2>2 DEF TeamInit, Labels
    <3> QED
      BY <3>1, <3>2, <3>3 DEF TeamTypeOK
  <2>4. ASSUME NEW w \in Workers PROVE CallOK(w) /\ AttemptOK(w)
    <3>1. /\ pc[w] = "idle" /\ handle[w] = 0 /\ seen[w] = NoRun /\ NoRun.accepted = -1
          /\ accepted = -1
      BY DEF TeamInit, Init, NoRun
    <3>2. "idle" \notin LeasedLabels /\ -1 <= -1
      BY LabelSets
    <3> QED
      BY <3>1, <3>2 DEF CallOK, AttemptOK
  <2>5. AttemptInv
    BY DEF TeamInit, AttemptInv
  <2> QED
    BY <2>1, <2>3, <2>4, <2>5 DEF TeamInv
<1>2. TeamInv /\ [TeamNext]_vars => TeamInv'
  BY TeamStep
<1> QED
  BY <1>1, <1>2, PTL DEF TeamSpec

(* The sequential team uses the store as DurableStore allows it: its artifacts are *)
(* the store's, it takes over only interrupted or aborted runs, and every theorem  *)
(* about the store holds of it, whatever crashes and stalls happen.                *)
THEOREM TeamImplementsStore == TeamSpec => StoreSpec
<1>1. TeamInit => Init
  BY DEF TeamInit
<1>2. TeamInv /\ [TeamNext]_vars => [Next]_storeVars
  BY StepImplements
<1> QED
  BY <1>1, <1>2, TeamInvariant, PTL DEF TeamSpec, StoreSpec

(* The types are kept, the bound on role_attempt included: however often the coder *)
(* is repeated, run_role_attempt counts no more attempts than leases were given.   *)
THEOREM TeamTypeCorrect == TeamSpec => []TeamTypeOK
<1>1. TeamInv => TeamTypeOK
  BY DEF TeamInv
<1> QED
  BY <1>1, TeamInvariant, PTL

(* What _resume_roles and the first run hand to validation is the product the      *)
(* coder's digest records, unchanged since, for any number of calls, when no live   *)
(* lease runs out and at most one process dies.  Only that crash makes the run      *)
(* recoverable, so every resume that means to recover it has read it at rest.  The  *)
(* first to take the lease brings the run to an end, or leaves it as all of them    *)
(* read it; after an end recover_durable_lease refuses the others.                  *)
THEOREM ReviewSurvivesOneCrash ==
  ASSUME MaxStalls = 0, MaxCrashes <= 1
  PROVE  TeamSpec => []ReviewedIsCoded
<1>1. TeamInit => OnceInv
  <2> SUFFICES ASSUME TeamInit PROVE OnceInv
    OBVIOUS
  <2>1. ReviewInv
    BY ReviewInit
  <2>2. /\ epoch = 0 /\ status = "QUEUED" /\ recov \notin RecoverableClasses
        /\ \A w \in Workers : /\ pc[w] = "idle"
                              /\ seen[w].recov \notin RecoverableClasses
    BY DEF TeamInit, Init, NoRun, RecoverableClasses
  <2>3. OrphanInv
    BY <2>2 DEF OrphanInv, Live
  <2>4. ASSUME NEW w \in Workers PROVE StatusOK(w)
    BY <2>2 DEF StatusOK
  <2> QED
    BY <2>1, <2>3, <2>4 DEF OnceInv, FreshInv
<1>2. TeamInv /\ OnceInv /\ [TeamNext]_vars => OnceInv'
  <2> SUFFICES ASSUME TeamInv, OnceInv, [TeamNext]_vars PROVE OnceInv'
    OBVIOUS
  <2>1. HolderInv'
    BY HolderStep DEF OnceInv, ReviewInv
  <2>2. ASSUME status' \notin Aborts PROVE ProductInv' /\ FreshInv'
    <3>1. status \notin Aborts
      BY <2>2, Inherited DEF TerminalStable, Aborts, Terminal
    <3>2. [Fresh]_vars
      BY <3>1, OnceIsFresh
    <3> QED
      BY <2>2, <3>2, ProductStep, FreshStep DEF OnceInv
  <2> QED
    BY <2>1, <2>2 DEF OnceInv, ReviewInv
<1>3. TeamInv /\ OnceInv => ReviewedIsCoded
  BY ReviewInvSuffices DEF OnceInv
<1> QED
  BY <1>1, <1>2, <1>3, TeamInvariant, PTL DEF TeamSpec
=============================================================================
