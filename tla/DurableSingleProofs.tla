------------------------- MODULE DurableSingleProofs -------------------------
(***************************************************************************)
(* Proofs about DurableSingle, for every number of workers, reconcilers,    *)
(* crashes and stalls and both kinds of executor: every step of the service  *)
(* is a step of the store, so the theorems of DurableStoreProofs hold of it, *)
(* and the invariants of its own.                                            *)
(*                                                                         *)
(* A call only changes its own locals (Untouched) and only the holder of the  *)
(* lease writes (HolderWrites), so each part of the invariant is a predicate *)
(* of one worker, kept by that worker's steps one by one and by everybody    *)
(* else's steps for one reason: a lost lease stays lost and a held one is    *)
(* held by nobody else.                                                      *)
(***************************************************************************)
EXTENDS DurableSingle, DurableStoreProofs

(* The labels at which a call owns its journal record: from the record to the   *)
(* checkpoint that carries the result, or to the record of the exception.       *)
ExecLabels == {"dispatch", "executing", "reconcileOp", "raised", "raisedEnd",
               "reconcileRaised", "accept1", "failed1"}

(* The labels of a first run before its journal record. *)
StartLabels == {"prepare", "accept0", "running"}

(* A call is under its lease exactly while it has a handle; what it read of the *)
(* run before it took the lease is not ahead of the run.                        *)
CallOK(w) ==
    /\ pc[w] \in LeasedLabels <=> handle[w] # 0
    /\ pc[w] \in {"recover", "recoverAborted"} => seen[w].accepted \in 0..3
    /\ pc[w] = "recoverAborted" => status \in Aborts
    /\ seen[w].accepted <= accepted

CallInv == \A w \in Workers : CallOK(w)

(* The holder of the lease is past POST_VALIDATION when it stores or uses the   *)
(* exit code, and the code it uses is the one stored; once the task is ready    *)
(* the holder has nothing left to write.                                        *)
ValidOK(w) ==
    /\ answer[w] = "success" => accepted = 4
    /\ Fence(w) /\ pc[w] \in {"setTaskValidation", "validating", "finish"} => accepted = 4
    /\ Fence(w) /\ pc[w] \in {"validating", "finish"} => taskExit = vexit[w]
    /\ pc[w] = "successReturn" => accepted = 4
    /\ Fence(w) /\ status \in Ready => pc[w] = "successReturn"

ValidInv == ReadyIsValidated /\ \A w \in Workers : ValidOK(w)

(* A first run has epoch 1, and nothing is journalled under its digest before   *)
(* it reaches its own record.                                                   *)
ModeOK(w) ==
    /\ pc[w] \in StartLabels => mode[w] = "execute" /\ ops["workspace_root"] = "absent"
    /\ pc[w] \in ResumeLabels \cup {"checkJournal"} => mode[w] = "resume"
    /\ mode[w] = "execute" /\ handle[w] # 0 => handle[w] = 1

ModeInv ==
    /\ epoch = 0 => \A d \in RequestDigests : ops[d] = "absent"
    /\ \A w \in Workers : ModeOK(w)

SingleInv == StoreInv /\ SingleTypeOK /\ CallInv /\ ValidInv /\ ModeInv

(* The journal record of a call that is about to dispatch is its own, and what  *)
(* it accepts as the executor's result is what the record says.                 *)
JournalOK(w) ==
    /\ Fence(w) /\ pc[w] = "record" => ops[RequestDigest(w)] = "absent"
    /\ pc[w] \in ExecLabels => ops[RequestDigest(w)] # "absent"
    /\ pc[w] = "dispatch" => dispatched[RequestDigest(w)] = 0
    /\ pc[w] = "accept1" => ops[RequestDigest(w)] = "SUCCESS"
    /\ pc[w] = "failed1" => ops[RequestDigest(w)] = "RECONCILED"

(* Two calls never own the same journal record. *)
OneOwner ==
    \A v, w \in Workers :
        pc[v] \in ExecLabels /\ pc[w] \in ExecLabels /\ RequestDigest(v) = RequestDigest(w)
          => v = w

Backing == IF history[2].artifact = "result" THEN "SUCCESS" ELSE "RECONCILED"

(* The record behind the accepted result is out of every call's hands. *)
BackedBy(d) ==
    /\ ops[d] = Backing
    /\ \A w \in Workers : pc[w] \in ExecLabels => RequestDigest(w) # d

JournalInv ==
    /\ JournalledDispatch
    /\ \A w \in Workers : JournalOK(w)
    /\ OneOwner
    /\ accepted >= 1 => \E d \in RequestDigests : BackedBy(d)

-----------------------------------------------------------------------------
(* The program tables, label by label. *)
LEMMA AcceptTable ==
  /\ DOMAIN AcceptSteps = {"accept0", "accept1", "accept2", "accept3", "accept4",
                           "failed1", "failed2", "failed3", "failed4"}
  /\ \A l \in DOMAIN AcceptSteps :
       /\ AcceptSteps[l].cp \in Checkpoints
       /\ AcceptSteps[l].artifact \in Artifacts
       /\ AcceptSteps[l].next \in {"running", "accept2", "accept3", "validate",
                 "setTaskValidation", "failed2", "failed3", "failed4", "failedEnd"}
       /\ AcceptSteps[l].next = "setTaskValidation" => AcceptSteps[l].cp = 4
       /\ AcceptSteps[l].next = "running" => l = "accept0"
       /\ AcceptSteps[l].cp = 1 => l \in {"accept1", "failed1"}
       /\ l = "accept1" => AcceptSteps[l].artifact = "result"
       /\ l = "failed1" => AcceptSteps[l].artifact = "error"
  BY ArtifactAssumption DEF AcceptSteps, Accept, Checkpoints

LEMMA TransitionTable ==
  /\ DOMAIN TransitionSteps = {"running", "validating"}
  /\ TransitionSteps["running"].to = "RUNNING"
  /\ TransitionSteps["running"].next = "record"
  /\ TransitionSteps["validating"].to = "VALIDATING"
  /\ TransitionSteps["validating"].next = "finish"
  BY DEF TransitionSteps

LEMMA ClassifyTable ==
  /\ DOMAIN ClassifySteps = {"blocked", "raised", "ambiguous"}
  /\ \A l \in DOMAIN ClassifySteps :
       /\ ClassifySteps[l].to \in {"BLOCKED", "FAILED"}
       /\ ClassifySteps[l].next \in {"failureReturn", "raisedEnd", "ambiguousEnd"}
       /\ ClassifySteps[l].next = "raisedEnd" => l = "raised"
  BY DEF ClassifySteps

LEMMA ResumeTable ==
  \A a \in 0..3 : ResumeAt[a] \in {"checkJournal", "accept2", "accept3", "validate"}
  BY DEF ResumeAt

LEMMA LabelSets ==
  /\ FencedLabels = {"accept0", "accept1", "accept2", "accept3", "accept4", "failed1",
                     "failed2", "failed3", "failed4", "running", "validating", "blocked",
                     "raised", "ambiguous", "record", "reconcileOp", "reconcileRaised",
                     "failedEnd", "raisedEnd", "ambiguousEnd", "setTaskValidation", "finish"}
  /\ LeasedLabels = FencedLabels \cup {"prepare", "dispatch", "executing", "checkJournal",
                                       "validate", "failureReturn", "successReturn"}
  BY AcceptTable, TransitionTable, ClassifyTable DEF FencedLabels, LeasedLabels

-----------------------------------------------------------------------------
(* The steps of a worker, and what no step of another worker touches. *)
WorkerAct(w) == Call(w) \/ KeepAlive(w) \/ RaiseIOFault(w) \/ Crash(w)

Untouched(v) ==
    /\ pc'[v] = pc[v]
    /\ mode'[v] = mode[v]
    /\ seen'[v] = seen[v]
    /\ vexit'[v] = vexit[v]
    /\ answer'[v] = answer[v]
    /\ handle'[v] = handle[v]

(* A step of a call performs one operation of the store, or none. *)
LEMMA WorkerStepImplements ==
  ASSUME NEW w \in Workers, CallOK(w), WorkerAct(w)
  PROVE  WorkerStep(w) \/ UNCHANGED storeVars
<1>1. CASE Execute(w)
  BY <1>1 DEF Execute, WorkerStep
<1>2. CASE Prepare(w)
  BY <1>2 DEF Prepare
<1>3. CASE ResumeFind(w)
  BY <1>3 DEF ResumeFind
<1>4. CASE ResumeReadRun(w)
  BY <1>4 DEF ResumeReadRun
<1>5. CASE ResumeReadTask(w)
  BY <1>5 DEF ResumeReadTask
<1>6. CASE ResumeRecover(w)
  BY <1>6 DEF ResumeRecover, WorkerStep
<1>7. CASE ResumeRecoverAborted(w)
  BY <1>7 DEF ResumeRecoverAborted, RecoverAborted, CallOK, WorkerStep
<1>8. CASE ResumeTooLate(w)
  BY <1>8 DEF ResumeTooLate
<1>9. CASE CheckJournal(w)
  BY <1>9 DEF CheckJournal
<1>10. CASE RecordOperation(w)
  BY <1>10 DEF RecordOperation
<1>11. CASE Dispatch(w)
  BY <1>11 DEF Dispatch
<1>12. CASE CreateFails(w)
  BY <1>12 DEF CreateFails
<1>13. CASE ExecutorEnds(w)
  BY <1>13 DEF ExecutorEnds
<1>14. CASE ExecutorRaises(w)
  BY <1>14 DEF ExecutorRaises
<1>15. CASE ReconcileOperation(w)
  BY <1>15 DEF ReconcileOperation
<1>16. CASE ReconcileRaised(w)
  BY <1>16 DEF ReconcileRaised
<1>17. CASE AcceptStep(w)
  BY <1>17, AcceptTable DEF AcceptStep, WorkerStep
<1>18. CASE TransitionStep(w)
  BY <1>18, TransitionTable DEF TransitionStep, ServiceTargets, WorkerStep
<1>19. CASE ClassifyStep(w)
  BY <1>19, ClassifyTable DEF ClassifyStep, WorkerStep
<1>20. CASE Validate(w)
  BY <1>20 DEF Validate
<1>21. CASE SetTaskValidation(w)
  BY <1>21 DEF SetTaskValidation
<1>22. CASE FinishReady(w)
  BY <1>22 DEF FinishReady, review_status, ServiceTargets, WorkerStep
<1>23. CASE FinishFailed(w)
  BY <1>23 DEF FinishFailed, WorkerStep
<1>24. CASE ReturnStep(w)
  BY <1>24 DEF ReturnStep, WorkerStep
<1>25. CASE RaiseFenced(w)
  BY <1>25 DEF RaiseFenced, WorkerStep
<1>26. CASE RaiseRefused(w)
  BY <1>26 DEF RaiseRefused, WorkerStep
<1>27. CASE KeepAlive(w)
  BY <1>27 DEF KeepAlive, WorkerStep
<1>28. CASE RaiseIOFault(w)
  BY <1>28 DEF RaiseIOFault, WorkerStep
<1>29. CASE Crash(w)
  BY <1>29 DEF Crash, WorkerStep
<1> QED
  BY <1>1, <1>2, <1>3, <1>4, <1>5, <1>6, <1>7, <1>8, <1>9, <1>10, <1>11, <1>12, <1>13,
     <1>14, <1>15, <1>16, <1>17, <1>18, <1>19, <1>20, <1>21, <1>22, <1>23, <1>24, <1>25,
     <1>26, <1>27, <1>28, <1>29 DEF WorkerAct, Call

(* A step of a call leaves the locals and the handle of every other call alone. *)
LEMMA OthersUntouched ==
  ASSUME NEW w \in Workers, NEW v \in Workers, v # w, TypeOK, SingleTypeOK, WorkerAct(w)
  PROVE  Untouched(v)
<1> USE DEF TypeOK, SingleTypeOK, Untouched
<1>1. CASE Execute(w)
  BY <1>1 DEF Execute, Goto, Acquire
<1>2. CASE Prepare(w)
  BY <1>2 DEF Prepare, Goto, storeVars
<1>3. CASE ResumeFind(w)
  BY <1>3 DEF ResumeFind, Goto, Return, storeVars
<1>4. CASE ResumeReadRun(w)
  BY <1>4 DEF ResumeReadRun, Goto, storeVars
<1>5. CASE ResumeReadTask(w)
  BY <1>5 DEF ResumeReadTask, Goto, Return, storeVars
<1>6. CASE ResumeRecover(w)
  BY <1>6 DEF ResumeRecover, Goto, Recover, TakeLease, NextEpoch
<1>7. CASE ResumeRecoverAborted(w)
  BY <1>7 DEF ResumeRecoverAborted, Goto, TakeLease, NextEpoch
<1>8. CASE ResumeTooLate(w)
  BY <1>8 DEF ResumeTooLate, Return, storeVars
<1>9. CASE CheckJournal(w)
  BY <1>9 DEF CheckJournal, Goto, storeVars
<1>10. CASE RecordOperation(w)
  BY <1>10 DEF RecordOperation, Goto, storeVars
<1>11. CASE Dispatch(w)
  BY <1>11 DEF Dispatch, Goto, storeVars
<1>12. CASE CreateFails(w)
  BY <1>12 DEF CreateFails, Goto, storeVars
<1>13. CASE ExecutorEnds(w)
  BY <1>13 DEF ExecutorEnds, Goto, storeVars
<1>14. CASE ExecutorRaises(w)
  BY <1>14 DEF ExecutorRaises, Goto, storeVars
<1>15. CASE ReconcileOperation(w)
  BY <1>15 DEF ReconcileOperation, Goto, storeVars
<1>16. CASE ReconcileRaised(w)
  BY <1>16 DEF ReconcileRaised, Goto, storeVars
<1>17. CASE AcceptStep(w)
  BY <1>17 DEF AcceptStep, Goto, AcceptCheckpoint, AcceptNext, AcceptAgain, storeVars
<1>18. CASE TransitionStep(w)
  BY <1>18 DEF TransitionStep, Goto, TransitionTo
<1>19. CASE ClassifyStep(w)
  BY <1>19 DEF ClassifyStep, Goto, ClassifyFailure
<1>20. CASE Validate(w)
  BY <1>20 DEF Validate, Goto, storeVars
<1>21. CASE SetTaskValidation(w)
  BY <1>21 DEF SetTaskValidation, Goto, storeVars
<1>22. CASE FinishReady(w)
  BY <1>22 DEF FinishReady, Goto, TransitionTo
<1>23. CASE FinishFailed(w)
  BY <1>23 DEF FinishFailed, Goto, Terminalize
<1>24. CASE ReturnStep(w)
  BY <1>24 DEF ReturnStep, Return, Leave
<1>25. CASE RaiseFenced(w)
  BY <1>25 DEF RaiseFenced, Return, Leave
<1>26. CASE RaiseRefused(w)
  BY <1>26 DEF RaiseRefused, Return, Release
<1>27. CASE KeepAlive(w)
  BY <1>27 DEF KeepAlive, callVars, Heartbeat
<1>28. CASE RaiseIOFault(w)
  BY <1>28 DEF RaiseIOFault, Return, Release
<1>29. CASE Crash(w)
  BY <1>29 DEF Crash, Return, Leave, storeVars
<1> QED
  BY <1>1, <1>2, <1>3, <1>4, <1>5, <1>6, <1>7, <1>8, <1>9, <1>10, <1>11, <1>12, <1>13,
     <1>14, <1>15, <1>16, <1>17, <1>18, <1>19, <1>20, <1>21, <1>22, <1>23, <1>24, <1>25,
     <1>26, <1>27, <1>28, <1>29 DEF WorkerAct, Call

(* Every step of the service is a step of the store, or leaves it alone. *)
LEMMA StepImplements == CallInv /\ [SingleNext]_vars => [Next]_storeVars
<1> SUFFICES ASSUME CallInv, [SingleNext]_vars PROVE [Next]_storeVars
  OBVIOUS
<1>1. ASSUME NEW w \in Workers, WorkerAct(w) PROVE [Next]_storeVars
  BY <1>1, WorkerStepImplements DEF CallInv, Next
<1>2. ASSUME NEW r \in Reconcilers, Reconcile(r) PROVE Next
  BY <1>2 DEF Reconcile, Next
<1>3. CASE Expire
  BY <1>3 DEF Expire, Next
<1>4. CASE UNCHANGED vars
  BY <1>4 DEF vars
<1> QED
  BY <1>1, <1>2, <1>3, <1>4 DEF SingleNext, WorkerAct

(* What every step inherits from the store. *)
LEMMA Inherited ==
  ASSUME StoreInv, CallInv, [SingleNext]_vars
  PROVE  StoreInv' /\ TerminalStable /\ FencedStays /\ Progress /\ accepted <= accepted'
<1>1. [Next]_storeVars
  BY StepImplements
<1>2. StoreInv' /\ TerminalStable /\ FencedStays /\ Progress
  BY <1>1, TypeStep, HandleStep, LogStep, RowStep, TerminalStep, FencedStep, ProgressStep
     DEF StoreInv
<1>3. Len(history) \in Nat /\ Len(history') \in Nat
  BY <1>2, RowTypes DEF StoreInv, TypeOK
<1>4. accepted = Len(history) - 1 /\ accepted' = Len(history') - 1
  BY <1>2 DEF StoreInv, LogInv, CheckpointLog
<1>5. Len(history) <= Len(history')
  BY <1>2 DEF Progress
<1>6. accepted <= accepted'
  BY <1>3, <1>4, <1>5
<1> QED
  BY <1>2, <1>6

-----------------------------------------------------------------------------
(* A call that ends leaves its locals typed. *)
LEMMA ReturnTypes ==
  ASSUME NEW w \in Workers, NEW a \in {"none", "success", "failure", "error"},
         SingleTypeOK, Return(w, a), UNCHANGED <<journalVars, taskExit, faultVars>>
  PROVE  SingleTypeOK'
<1>1. NoRun \in [accepted : -1..4, recov : RecoveryClasses] /\ "idle" \in Labels
  BY DEF NoRun, RecoveryClasses, Labels
<1> QED
  BY <1>1 DEF Return, SingleTypeOK, journalVars, faultVars

(* A call keeps the types of its locals, of the journal and of the exit code. *)
LEMMA WorkerKeepsTypes ==
  ASSUME NEW w \in Workers, TypeOK, SingleTypeOK, CallOK(w), WorkerAct(w)
  PROVE  SingleTypeOK'
<1>a. \A v \in Workers : RequestDigest(v) \in RequestDigests
  BY DEF RequestDigest, RequestDigests
<1>b. NoRun \in [accepted : -1..4, recov : RecoveryClasses]
  BY DEF NoRun, RecoveryClasses
<1>c. {"idle", "readRun", "readTask", "recover", "recoverAborted"} \cup LeasedLabels = Labels
  BY DEF Labels, ResumeLabels
<1> USE <1>b, <1>c, LabelSets DEF SingleTypeOK
<1>1. CASE Execute(w)
  BY <1>1 DEF Execute, Goto, journalVars, faultVars
<1>2. CASE Prepare(w)
  BY <1>2 DEF Prepare, Goto, journalVars, faultVars
<1>3. CASE ResumeFind(w)
  <2>1. CASE \E a \in {"success", "error"} : Return(w, a)
    BY <1>3, <2>1, ReturnTypes DEF ResumeFind
  <2>2. CASE ~\E a \in {"success", "error"} : Return(w, a)
    <3>1. /\ \E l \in Labels : pc' = [pc EXCEPT ![w] = l]
          /\ mode' = [mode EXCEPT ![w] = "resume"]
          /\ UNCHANGED <<seen, vexit, answer, ops, dispatched, taskExit, crashes, stalls>>
      BY <1>3, <2>2 DEF ResumeFind, Goto, journalVars, faultVars
    <3> QED
      BY <3>1
  <2> QED
    BY <2>1, <2>2
<1>4. CASE ResumeReadRun(w)
  BY <1>4 DEF ResumeReadRun, Goto, journalVars, faultVars, TypeOK
<1>5. CASE ResumeReadTask(w)
  <2>1. CASE \E a \in {"success", "error"} : Return(w, a)
    BY <1>5, <2>1, ReturnTypes DEF ResumeReadTask
  <2>2. CASE ~\E a \in {"success", "error"} : Return(w, a)
    <3>1. /\ \E l \in Labels : pc' = [pc EXCEPT ![w] = l]
          /\ mode' = mode
          /\ UNCHANGED <<seen, vexit, answer, ops, dispatched, taskExit, crashes, stalls>>
      BY <1>5, <2>2 DEF ResumeReadTask, Goto, journalVars, faultVars
    <3> QED
      BY <3>1
  <2> QED
    BY <2>1, <2>2
<1>6. CASE ResumeRecover(w)
  BY <1>6, ResumeTable DEF ResumeRecover, Goto, journalVars, faultVars, CallOK
<1>7. CASE ResumeRecoverAborted(w)
  BY <1>7, ResumeTable DEF ResumeRecoverAborted, Goto, journalVars, faultVars, CallOK
<1>8. CASE ResumeTooLate(w)
  BY <1>8 DEF ResumeTooLate, Return, journalVars, faultVars
<1>9. CASE CheckJournal(w)
  BY <1>9 DEF CheckJournal, Goto, journalVars, faultVars
<1>10. CASE RecordOperation(w)
  BY <1>10, <1>a DEF RecordOperation, Goto, journalVars, faultVars
<1>11. CASE Dispatch(w)
  BY <1>11, <1>a DEF Dispatch, Goto, journalVars, faultVars
<1>12. CASE CreateFails(w)
  BY <1>12 DEF CreateFails, Goto, journalVars, faultVars
<1>13. CASE ExecutorEnds(w)
  BY <1>13 DEF ExecutorEnds, Goto, journalVars, faultVars
<1>14. CASE ExecutorRaises(w)
  BY <1>14 DEF ExecutorRaises, Goto, journalVars, faultVars
<1>15. CASE ReconcileOperation(w)
  BY <1>15, <1>a DEF ReconcileOperation, Goto, journalVars, faultVars
<1>16. CASE ReconcileRaised(w)
  BY <1>16, <1>a DEF ReconcileRaised, Goto, journalVars, faultVars
<1>17. CASE AcceptStep(w)
  BY <1>17, AcceptTable DEF AcceptStep, Goto, journalVars, faultVars
<1>18. CASE TransitionStep(w)
  BY <1>18, TransitionTable DEF TransitionStep, Goto, journalVars, faultVars
<1>19. CASE ClassifyStep(w)
  BY <1>19, ClassifyTable DEF ClassifyStep, Goto, journalVars, faultVars
<1>20. CASE Validate(w)
  BY <1>20 DEF Validate, Goto, journalVars, faultVars
<1>21. CASE SetTaskValidation(w)
  BY <1>21 DEF SetTaskValidation, Goto, journalVars, faultVars
<1>22. CASE FinishReady(w)
  BY <1>22 DEF FinishReady, Goto, journalVars, faultVars
<1>23. CASE FinishFailed(w)
  BY <1>23 DEF FinishFailed, Goto, journalVars, faultVars, Terminalizing
<1>24. CASE ReturnStep(w)
  BY <1>24 DEF ReturnStep, Return, journalVars, faultVars
<1>25. CASE RaiseFenced(w)
  BY <1>25 DEF RaiseFenced, Return, journalVars, faultVars
<1>26. CASE RaiseRefused(w)
  BY <1>26 DEF RaiseRefused, Return, journalVars, faultVars
<1>27. CASE KeepAlive(w)
  BY <1>27 DEF KeepAlive, callVars, journalVars, faultVars
<1>28. CASE RaiseIOFault(w)
  BY <1>28 DEF RaiseIOFault, Return, journalVars, faultVars
<1>29. CASE Crash(w)
  BY <1>29, BoundAssumption DEF Crash, Return, journalVars, faultVars
<1> QED
  BY <1>1, <1>2, <1>3, <1>4, <1>5, <1>6, <1>7, <1>8, <1>9, <1>10, <1>11, <1>12, <1>13,
     <1>14, <1>15, <1>16, <1>17, <1>18, <1>19, <1>20, <1>21, <1>22, <1>23, <1>24, <1>25,
     <1>26, <1>27, <1>28, <1>29 DEF WorkerAct, Call

(* Every step keeps the types of the service. *)
LEMMA SingleTypeStep ==
  TypeOK /\ SingleTypeOK /\ CallInv /\ [SingleNext]_vars => SingleTypeOK'
<1> SUFFICES ASSUME TypeOK, SingleTypeOK, CallInv, [SingleNext]_vars PROVE SingleTypeOK'
  OBVIOUS
<1>1. ASSUME NEW w \in Workers, WorkerAct(w) PROVE SingleTypeOK'
  BY <1>1, WorkerKeepsTypes DEF CallInv
<1>2. ASSUME NEW r \in Reconcilers, Reconcile(r) PROVE SingleTypeOK'
  BY <1>2 DEF Reconcile, SingleTypeOK, callVars, journalVars, faultVars
<1>3. CASE Expire
  BY <1>3, BoundAssumption DEF Expire, SingleTypeOK, callVars, journalVars
<1>4. CASE UNCHANGED vars
  BY <1>4 DEF vars, SingleTypeOK, callVars, journalVars, faultVars
<1> QED
  BY <1>1, <1>2, <1>3, <1>4 DEF SingleNext, WorkerAct

-----------------------------------------------------------------------------
(* A call's own steps keep what CallOK says of it. *)
LEMMA WorkerKeepsCall ==
  ASSUME NEW w \in Workers, TypeOK, SingleTypeOK, CallOK(w), WorkerAct(w),
         accepted <= accepted', accepted' \in -1..4
  PROVE  CallOK(w)'
<1>a. seen[w].accepted \in -1..4 /\ accepted \in -1..4
  BY DEF SingleTypeOK, TypeOK
<1>b. NoRun.accepted = -1
  BY DEF NoRun
<1> USE <1>a, <1>b, LabelSets DEF CallOK, SingleTypeOK, TypeOK
<1>1. CASE Execute(w)
  BY <1>1 DEF Execute, Goto, Acquire
<1>2. CASE Prepare(w)
  BY <1>2 DEF Prepare, Goto, storeVars
<1>3. CASE ResumeFind(w)
  BY <1>3 DEF ResumeFind, Goto, Return, storeVars
<1>4. CASE ResumeReadRun(w)
  BY <1>4 DEF ResumeReadRun, Goto, storeVars
<1>5. CASE ResumeReadTask(w)
  BY <1>5 DEF ResumeReadTask, Goto, Return, storeVars, Resumable
<1>6. CASE ResumeRecover(w)
  BY <1>6, ResumeTable DEF ResumeRecover, Goto, Recover, TakeLease, NextEpoch
<1>7. CASE ResumeRecoverAborted(w)
  BY <1>7, ResumeTable DEF ResumeRecoverAborted, Goto, TakeLease, NextEpoch
<1>8. CASE ResumeTooLate(w)
  BY <1>8 DEF ResumeTooLate, Return, storeVars
<1>9. CASE CheckJournal(w)
  BY <1>9 DEF CheckJournal, Goto, storeVars
<1>10. CASE RecordOperation(w)
  BY <1>10 DEF RecordOperation, Goto, storeVars
<1>11. CASE Dispatch(w)
  BY <1>11 DEF Dispatch, Goto, storeVars
<1>12. CASE CreateFails(w)
  BY <1>12 DEF CreateFails, Goto, storeVars
<1>13. CASE ExecutorEnds(w)
  BY <1>13 DEF ExecutorEnds, Goto, storeVars
<1>14. CASE ExecutorRaises(w)
  BY <1>14 DEF ExecutorRaises, Goto, storeVars
<1>15. CASE ReconcileOperation(w)
  BY <1>15 DEF ReconcileOperation, Goto, storeVars
<1>16. CASE ReconcileRaised(w)
  BY <1>16 DEF ReconcileRaised, Goto, storeVars
<1>17. CASE AcceptStep(w)
  <2>1. /\ pc[w] \in DOMAIN AcceptSteps /\ pc'[w] = AcceptSteps[pc[w]].next
        /\ UNCHANGED <<handle, seen>>
    BY <1>17 DEF AcceptStep, Goto, AcceptCheckpoint, AcceptNext, AcceptAgain, storeVars
  <2>2. pc[w] \in LeasedLabels /\ pc'[w] \in LeasedLabels
    BY <2>1, AcceptTable
  <2>3. pc'[w] \notin {"recover", "recoverAborted"}
    BY <2>2
  <2> QED
    BY <2>1, <2>2, <2>3
<1>18. CASE TransitionStep(w)
  BY <1>18, TransitionTable DEF TransitionStep, Goto, TransitionTo
<1>19. CASE ClassifyStep(w)
  BY <1>19, ClassifyTable DEF ClassifyStep, Goto, ClassifyFailure
<1>20. CASE Validate(w)
  BY <1>20 DEF Validate, Goto, storeVars
<1>21. CASE SetTaskValidation(w)
  BY <1>21 DEF SetTaskValidation, Goto, storeVars
<1>22. CASE FinishReady(w)
  BY <1>22 DEF FinishReady, Goto, TransitionTo
<1>23. CASE FinishFailed(w)
  BY <1>23 DEF FinishFailed, Goto, Terminalize, Terminalizing
<1>24. CASE ReturnStep(w)
  BY <1>24 DEF ReturnStep, Return, Leave
<1>25. CASE RaiseFenced(w)
  BY <1>25 DEF RaiseFenced, Return, Leave
<1>26. CASE RaiseRefused(w)
  BY <1>26 DEF RaiseRefused, Return, Release
<1>27. CASE KeepAlive(w)
  BY <1>27 DEF KeepAlive, callVars, Heartbeat
<1>28. CASE RaiseIOFault(w)
  BY <1>28 DEF RaiseIOFault, Return, Release
<1>29. CASE Crash(w)
  BY <1>29 DEF Crash, Return, Leave, storeVars
<1> QED
  BY <1>1, <1>2, <1>3, <1>4, <1>5, <1>6, <1>7, <1>8, <1>9, <1>10, <1>11, <1>12, <1>13,
     <1>14, <1>15, <1>16, <1>17, <1>18, <1>19, <1>20, <1>21, <1>22, <1>23, <1>24, <1>25,
     <1>26, <1>27, <1>28, <1>29 DEF WorkerAct, Call

(* Every step keeps it of every call: an aborted status is final and accepted    *)
(* checkpoints are never taken back.                                             *)
LEMMA CallStep ==
  StoreInv /\ SingleTypeOK /\ CallInv /\ [SingleNext]_vars => CallInv'
<1> SUFFICES ASSUME StoreInv, SingleTypeOK, CallInv, [SingleNext]_vars, NEW v \in Workers
             PROVE  CallOK(v)'
  BY DEF CallInv
<1>a. TypeOK /\ CallOK(v) /\ TypeOK'
  BY Inherited DEF StoreInv, CallInv
<1>b. seen[v].accepted \in -1..4 /\ accepted \in -1..4 /\ accepted' \in -1..4
  BY <1>a DEF SingleTypeOK, TypeOK
<1>c. accepted <= accepted' /\ (status \in Aborts => status' \in Aborts)
  BY Inherited DEF TerminalStable, Aborts, Terminal
<1>d. pc'[v] = pc[v] /\ seen'[v] = seen[v] /\ handle'[v] = handle[v] => CallOK(v)'
  BY <1>a, <1>b, <1>c DEF CallOK
<1>1. ASSUME NEW w \in Workers, WorkerAct(w) PROVE CallOK(v)'
  <2>1. CASE v = w
    BY <1>a, <1>b, <1>c, <1>1, <2>1, WorkerKeepsCall
  <2>2. CASE v # w
    BY <1>a, <1>d, <1>1, <2>2, OthersUntouched DEF Untouched
  <2> QED
    BY <2>1, <2>2
<1>2. ASSUME NEW r \in Reconcilers, Reconcile(r) PROVE CallOK(v)'
  BY <1>2, <1>d DEF Reconcile, ReconcilerStep, ReconcileSelect, ReconcileInterrupt,
     ReconcileSkip, callVars
<1>3. CASE Expire
  BY <1>3, <1>d DEF Expire, LeaseTimeout, callVars
<1>4. CASE UNCHANGED vars
  BY <1>4, <1>d DEF vars, storeVars, callVars
<1> QED
  BY <1>1, <1>2, <1>3, <1>4 DEF SingleNext, WorkerAct

-----------------------------------------------------------------------------
(* Only the worker that passes the fence writes the exit code, the journal, the *)
(* log or a ready status.                                                       *)
LEMMA HolderWrites ==
  ASSUME NEW w \in Workers, ~Fence(w), CallOK(w), WorkerAct(w)
  PROVE  /\ UNCHANGED <<taskExit, ops, accepted, history>>
         /\ status' \in Ready => status \in Ready
<1> USE DEF journalVars, logVars, Ready
<1>1. CASE Execute(w)
  BY <1>1 DEF Execute, Acquire
<1>2. CASE Prepare(w)
  BY <1>2 DEF Prepare, storeVars
<1>3. CASE ResumeFind(w)
  BY <1>3 DEF ResumeFind, storeVars
<1>4. CASE ResumeReadRun(w)
  BY <1>4 DEF ResumeReadRun, storeVars
<1>5. CASE ResumeReadTask(w)
  BY <1>5 DEF ResumeReadTask, storeVars
<1>6. CASE ResumeRecover(w)
  BY <1>6 DEF ResumeRecover, Recover, TakeLease, NextEpoch
<1>7. CASE ResumeRecoverAborted(w)
  BY <1>7 DEF ResumeRecoverAborted, TakeLease, NextEpoch
<1>8. CASE ResumeTooLate(w)
  BY <1>8 DEF ResumeTooLate, storeVars
<1>9. CASE CheckJournal(w)
  BY <1>9 DEF CheckJournal, storeVars
<1>10. CASE RecordOperation(w)
  BY <1>10 DEF RecordOperation
<1>11. CASE Dispatch(w)
  BY <1>11 DEF Dispatch, storeVars
<1>12. CASE CreateFails(w)
  BY <1>12 DEF CreateFails, storeVars
<1>13. CASE ExecutorEnds(w)
  BY <1>13 DEF ExecutorEnds, storeVars
<1>14. CASE ExecutorRaises(w)
  BY <1>14 DEF ExecutorRaises, storeVars
<1>15. CASE ReconcileOperation(w)
  BY <1>15 DEF ReconcileOperation
<1>16. CASE ReconcileRaised(w)
  BY <1>16 DEF ReconcileRaised
<1>17. CASE AcceptStep(w)
  BY <1>17 DEF AcceptStep, AcceptCheckpoint, AcceptNext, AcceptAgain, storeVars
<1>18. CASE TransitionStep(w)
  BY <1>18 DEF TransitionStep, TransitionTo
<1>19. CASE ClassifyStep(w)
  BY <1>19 DEF ClassifyStep, ClassifyFailure
<1>20. CASE Validate(w)
  BY <1>20 DEF Validate, storeVars
<1>21. CASE SetTaskValidation(w)
  BY <1>21 DEF SetTaskValidation
<1>22. CASE FinishReady(w)
  BY <1>22 DEF FinishReady, TransitionTo
<1>23. CASE FinishFailed(w)
  BY <1>23 DEF FinishFailed, Terminalize
<1>24. CASE ReturnStep(w)
  BY <1>24 DEF ReturnStep, Leave
<1>25. CASE RaiseFenced(w)
  BY <1>25 DEF RaiseFenced, Leave
<1>26. CASE RaiseRefused(w)
  BY <1>26 DEF RaiseRefused, Release
<1>27. CASE KeepAlive(w)
  BY <1>27 DEF KeepAlive, Heartbeat
<1>28. CASE RaiseIOFault(w)
  BY <1>28 DEF RaiseIOFault, Release
<1>29. CASE Crash(w)
  BY <1>29 DEF Crash, Leave, storeVars
<1> QED
  BY <1>1, <1>2, <1>3, <1>4, <1>5, <1>6, <1>7, <1>8, <1>9, <1>10, <1>11, <1>12, <1>13,
     <1>14, <1>15, <1>16, <1>17, <1>18, <1>19, <1>20, <1>21, <1>22, <1>23, <1>24, <1>25,
     <1>26, <1>27, <1>28, <1>29 DEF WorkerAct, Call

(* An accepted checkpoint: the rank is the table's, and nothing else moves but    *)
(* the log and the label.                                                         *)
LEMMA AcceptEffect ==
  ASSUME NEW w \in Workers, SingleTypeOK, AcceptStep(w)
  PROVE  /\ Fence(w)
         /\ pc[w] \in DOMAIN AcceptSteps
         /\ accepted' = AcceptSteps[pc[w]].cp
         /\ pc'[w] \in {"running", "accept2", "accept3", "validate", "setTaskValidation",
                        "failed2", "failed3", "failed4", "failedEnd"}
         /\ pc'[w] = "setTaskValidation" => accepted' = 4
         /\ pc'[w] = "running" => pc[w] = "accept0"
         /\ pc[w] # "successReturn"
         /\ UNCHANGED <<status, owner, epoch, handle, mode, seen, vexit, answer, ops,
                        dispatched, taskExit>>
<1>1. /\ Fence(w)
      /\ pc[w] \in DOMAIN AcceptSteps
      /\ accepted' = AcceptSteps[pc[w]].cp
      /\ pc'[w] = AcceptSteps[pc[w]].next
      /\ UNCHANGED <<status, owner, epoch, handle, mode, seen, vexit, answer, ops,
                     dispatched, taskExit>>
  BY DEF AcceptStep, Goto, AcceptCheckpoint, AcceptNext, AcceptAgain, storeVars, leaseVars,
     journalVars, SingleTypeOK
<1> QED
  BY <1>1, AcceptTable

(* What validation a call has done, and what it left behind, after its own step. *)
LEMMA WorkerKeepsValid ==
  ASSUME NEW w \in Workers, TypeOK, SingleTypeOK, CallOK(w), ReadyIsValidated, ValidOK(w),
         WorkerAct(w), accepted <= accepted', accepted' \in -1..4
  PROVE  ReadyIsValidated' /\ ValidOK(w)'
<1>a. seen[w].accepted \in -1..4 /\ accepted \in -1..4 /\ (accepted = 4 => accepted' = 4)
  BY DEF SingleTypeOK, TypeOK
<1> USE <1>a DEF ReadyIsValidated, ValidOK, Fence, Ready, SingleTypeOK, TypeOK
<1>1. CASE Execute(w)
  BY <1>1 DEF Execute, Goto, Acquire, leaseVars, logVars
<1>2. CASE Prepare(w)
  BY <1>2 DEF Prepare, Goto, storeVars, leaseVars, logVars
<1>3. CASE ResumeFind(w)
  BY <1>3 DEF ResumeFind, Goto, Return, storeVars, leaseVars, logVars
<1>4. CASE ResumeReadRun(w)
  BY <1>4 DEF ResumeReadRun, Goto, storeVars, leaseVars, logVars
<1>5. CASE ResumeReadTask(w)
  BY <1>5 DEF ResumeReadTask, Goto, Return, storeVars, leaseVars, logVars, Resumable,
     Completed, CallOK
<1>6. CASE ResumeRecover(w)
  BY <1>6, ResumeTable DEF ResumeRecover, Goto, Recover, TakeLease, NextEpoch,
     leaseVars, logVars, CallOK, Aborts
<1>7. CASE ResumeRecoverAborted(w)
  BY <1>7, ResumeTable DEF ResumeRecoverAborted, Goto, TakeLease, NextEpoch, leaseVars,
     logVars, CallOK, Aborts
<1>8. CASE ResumeTooLate(w)
  BY <1>8 DEF ResumeTooLate, Return, storeVars, leaseVars, logVars
<1>9. CASE CheckJournal(w)
  BY <1>9 DEF CheckJournal, Goto, storeVars, leaseVars, logVars
<1>10. CASE RecordOperation(w)
  BY <1>10 DEF RecordOperation, Goto, storeVars, leaseVars, logVars
<1>11. CASE Dispatch(w)
  BY <1>11 DEF Dispatch, Goto, storeVars, leaseVars, logVars
<1>12. CASE CreateFails(w)
  BY <1>12 DEF CreateFails, Goto, storeVars, leaseVars, logVars
<1>13. CASE ExecutorEnds(w)
  BY <1>13 DEF ExecutorEnds, Goto, storeVars, leaseVars, logVars
<1>14. CASE ExecutorRaises(w)
  BY <1>14 DEF ExecutorRaises, Goto, storeVars, leaseVars, logVars
<1>15. CASE ReconcileOperation(w)
  BY <1>15 DEF ReconcileOperation, Goto, storeVars, leaseVars, logVars
<1>16. CASE ReconcileRaised(w)
  BY <1>16 DEF ReconcileRaised, Goto, storeVars, leaseVars, logVars
<1>17. CASE AcceptStep(w)
  BY <1>17, AcceptEffect
<1>18. CASE TransitionStep(w)
  BY <1>18, TransitionTable DEF TransitionStep, Goto, TransitionTo, leaseVars, logVars
<1>19. CASE ClassifyStep(w)
  BY <1>19, ClassifyTable DEF ClassifyStep, Goto, ClassifyFailure, leaseVars, logVars
<1>20. CASE Validate(w)
  BY <1>20 DEF Validate, Goto, storeVars, leaseVars, logVars
<1>21. CASE SetTaskValidation(w)
  BY <1>21 DEF SetTaskValidation, Goto, storeVars, leaseVars, logVars
<1>22. CASE FinishReady(w)
  BY <1>22 DEF FinishReady, Goto, TransitionTo, leaseVars, logVars, review_status
<1>23. CASE FinishFailed(w)
  BY <1>23 DEF FinishFailed, Goto, Terminalize, leaseVars, logVars, Terminalizing,
     Terminal
<1>24. CASE ReturnStep(w)
  BY <1>24 DEF ReturnStep, Return, Leave, leaseVars, logVars
<1>25. CASE RaiseFenced(w)
  BY <1>25 DEF RaiseFenced, Return, Leave, leaseVars, logVars
<1>26. CASE RaiseRefused(w)
  BY <1>26 DEF RaiseRefused, Return, Release, leaseVars, logVars
<1>27. CASE KeepAlive(w)
  BY <1>27 DEF KeepAlive, callVars, Heartbeat, leaseVars, logVars
<1>28. CASE RaiseIOFault(w)
  BY <1>28 DEF RaiseIOFault, Return, Release, leaseVars, logVars
<1>29. CASE Crash(w)
  BY <1>29 DEF Crash, Return, Leave, storeVars, leaseVars, logVars
<1> QED
  BY <1>1, <1>2, <1>3, <1>4, <1>5, <1>6, <1>7, <1>8, <1>9, <1>10, <1>11, <1>12, <1>13,
     <1>14, <1>15, <1>16, <1>17, <1>18, <1>19, <1>20, <1>21, <1>22, <1>23, <1>24, <1>25,
     <1>26, <1>27, <1>28, <1>29 DEF WorkerAct, Call

(* Every step keeps it of every call: who holds the lease after the step held it *)
(* before, and then the step was not another worker's write.                     *)
LEMMA ValidStep ==
  StoreInv /\ SingleTypeOK /\ CallInv /\ ValidInv /\ [SingleNext]_vars => ValidInv'
<1> SUFFICES ASSUME StoreInv, SingleTypeOK, CallInv, ValidInv, [SingleNext]_vars
             PROVE  ValidInv'
  OBVIOUS
<1>a. TypeOK /\ TypeOK' /\ HandleInv /\ FencedStays /\ accepted <= accepted'
  BY Inherited DEF StoreInv
<1>b. accepted \in -1..4 /\ accepted' \in -1..4 /\ (accepted = 4 => accepted' = 4)
  BY <1>a DEF TypeOK
<1>1. ASSUME NEW w \in Workers, WorkerAct(w) PROVE ValidInv'
  <2>1. ReadyIsValidated' /\ ValidOK(w)'
    BY <1>a, <1>b, <1>1, WorkerKeepsValid DEF CallInv, ValidInv
  <2>2. ASSUME NEW v \in Workers, v # w PROVE ValidOK(v)'
    <3>1. Untouched(v)
      BY <1>a, <1>1, <2>2, OthersUntouched
    <3>2. Fence(v)' => Fence(v)
      BY <1>a, <3>1 DEF Untouched, FencedStays, Fence
    <3>3. Fence(v)' => taskExit' = taskExit /\ (status' \in Ready => status \in Ready)
      <4>1. Fence(v) => ~Fence(w)
        BY <1>a, <2>2 DEF HandleInv, Fence
      <4> QED
        BY <3>2, <4>1, <1>1, HolderWrites DEF CallInv
    <3> QED
      BY <1>b, <3>1, <3>2, <3>3 DEF ValidInv, ValidOK, Untouched
  <2> QED
    BY <2>1, <2>2 DEF ValidInv
<1>2. ASSUME UNCHANGED <<callVars, taskExit, handle>>, UNCHANGED status \/ status' = "INTERRUPTED"
      PROVE  ValidInv'
  <2>1. \A v \in Workers : Fence(v)' => Fence(v)
    BY <1>a, <1>2 DEF FencedStays, Fence
  <2> QED
    BY <1>b, <1>2, <2>1 DEF ValidInv, ValidOK, ReadyIsValidated, Ready, callVars
<1>3. ASSUME NEW r \in Reconcilers, Reconcile(r) PROVE ValidInv'
  BY <1>2, <1>3 DEF Reconcile, ReconcilerStep, ReconcileSelect, ReconcileInterrupt,
     ReconcileSkip
<1>4. CASE Expire
  BY <1>2, <1>4 DEF Expire, LeaseTimeout
<1>5. CASE UNCHANGED vars
  BY <1>2, <1>5 DEF vars, storeVars
<1> QED
  BY <1>1, <1>3, <1>4, <1>5 DEF SingleNext, WorkerAct

-----------------------------------------------------------------------------
(* A call writes the journal only under its own digest, holding the lease, to    *)
(* create the record or while it owns it; it never removes one; and the executor *)
(* starts only after the record.                                                 *)
LEMMA JournalFrame ==
  ASSUME NEW w \in Workers, SingleTypeOK, WorkerAct(w), NEW d \in RequestDigests
  PROVE  /\ ops'[d] # ops[d] =>
              /\ Fence(w) /\ d = RequestDigest(w)
              /\ (ops[d] = "absent" /\ pc[w] = "record") \/ pc[w] \in ExecLabels
         /\ ops[d] # "absent" => ops'[d] # "absent"
         /\ dispatched'[d] # dispatched[d] =>
              pc[w] = "dispatch" /\ d = RequestDigest(w) /\ dispatched'[d] = dispatched[d] + 1
<1>a. RequestDigest(w) \in RequestDigests
  BY DEF RequestDigest, RequestDigests
<1> USE DEF journalVars
<1>1. CASE Execute(w)
  BY <1>1 DEF Execute
<1>2. CASE Prepare(w)
  BY <1>2 DEF Prepare
<1>3. CASE ResumeFind(w)
  BY <1>3 DEF ResumeFind
<1>4. CASE ResumeReadRun(w)
  BY <1>4 DEF ResumeReadRun
<1>5. CASE ResumeReadTask(w)
  BY <1>5 DEF ResumeReadTask
<1>6. CASE ResumeRecover(w)
  BY <1>6 DEF ResumeRecover
<1>7. CASE ResumeRecoverAborted(w)
  BY <1>7 DEF ResumeRecoverAborted
<1>8. CASE ResumeTooLate(w)
  BY <1>8 DEF ResumeTooLate
<1>9. CASE CheckJournal(w)
  BY <1>9 DEF CheckJournal
<1>10. CASE RecordOperation(w)
  BY <1>10, <1>a DEF RecordOperation, SingleTypeOK, ExecLabels
<1>11. CASE Dispatch(w)
  BY <1>11, <1>a DEF Dispatch, SingleTypeOK, ExecLabels
<1>12. CASE CreateFails(w)
  BY <1>12 DEF CreateFails
<1>13. CASE ExecutorEnds(w)
  BY <1>13 DEF ExecutorEnds
<1>14. CASE ExecutorRaises(w)
  BY <1>14 DEF ExecutorRaises
<1>15. CASE ReconcileOperation(w)
  BY <1>15, <1>a DEF ReconcileOperation, SingleTypeOK, ExecLabels
<1>16. CASE ReconcileRaised(w)
  BY <1>16, <1>a DEF ReconcileRaised, SingleTypeOK, ExecLabels
<1>17. CASE AcceptStep(w)
  BY <1>17 DEF AcceptStep
<1>18. CASE TransitionStep(w)
  BY <1>18 DEF TransitionStep
<1>19. CASE ClassifyStep(w)
  BY <1>19 DEF ClassifyStep
<1>20. CASE Validate(w)
  BY <1>20 DEF Validate
<1>21. CASE SetTaskValidation(w)
  BY <1>21 DEF SetTaskValidation
<1>22. CASE FinishReady(w)
  BY <1>22 DEF FinishReady
<1>23. CASE FinishFailed(w)
  BY <1>23 DEF FinishFailed
<1>24. CASE ReturnStep(w)
  BY <1>24 DEF ReturnStep
<1>25. CASE RaiseFenced(w)
  BY <1>25 DEF RaiseFenced
<1>26. CASE RaiseRefused(w)
  BY <1>26 DEF RaiseRefused
<1>27. CASE KeepAlive(w)
  BY <1>27 DEF KeepAlive
<1>28. CASE RaiseIOFault(w)
  BY <1>28 DEF RaiseIOFault
<1>29. CASE Crash(w)
  BY <1>29 DEF Crash
<1> QED
  BY <1>1, <1>2, <1>3, <1>4, <1>5, <1>6, <1>7, <1>8, <1>9, <1>10, <1>11, <1>12, <1>13,
     <1>14, <1>15, <1>16, <1>17, <1>18, <1>19, <1>20, <1>21, <1>22, <1>23, <1>24, <1>25,
     <1>26, <1>27, <1>28, <1>29 DEF WorkerAct, Call

(* A call's own steps keep what ModeOK says of it. *)
LEMMA WorkerKeepsMode ==
  ASSUME NEW w \in Workers, TypeOK, SingleTypeOK, CallOK(w), ModeOK(w), WorkerAct(w),
         epoch = 0 => ops["workspace_root"] = "absent"
  PROVE  ModeOK(w)'
<1> USE LabelSets DEF ModeOK, StartLabels, ResumeLabels, SingleTypeOK, TypeOK
<1>1. CASE Execute(w)
  BY <1>1 DEF Execute, Goto, Acquire, journalVars
<1>2. CASE Prepare(w)
  BY <1>2 DEF Prepare, Goto, storeVars, journalVars
<1>3. CASE ResumeFind(w)
  BY <1>3 DEF ResumeFind, Goto, Return, storeVars, journalVars
<1>4. CASE ResumeReadRun(w)
  BY <1>4 DEF ResumeReadRun, Goto, storeVars, journalVars
<1>5. CASE ResumeReadTask(w)
  BY <1>5 DEF ResumeReadTask, Goto, Return, storeVars, journalVars
<1>6. CASE ResumeRecover(w)
  BY <1>6, ResumeTable DEF ResumeRecover, Goto, Recover, TakeLease, NextEpoch,
     journalVars, CallOK
<1>7. CASE ResumeRecoverAborted(w)
  BY <1>7, ResumeTable DEF ResumeRecoverAborted, Goto, TakeLease, NextEpoch,
     journalVars, CallOK
<1>8. CASE ResumeTooLate(w)
  BY <1>8 DEF ResumeTooLate, Return, storeVars, journalVars
<1>9. CASE CheckJournal(w)
  BY <1>9 DEF CheckJournal, Goto, storeVars, journalVars
<1>10. CASE RecordOperation(w)
  BY <1>10 DEF RecordOperation, Goto, storeVars
<1>11. CASE Dispatch(w)
  BY <1>11 DEF Dispatch, Goto, storeVars
<1>12. CASE CreateFails(w)
  BY <1>12 DEF CreateFails, Goto, storeVars, journalVars
<1>13. CASE ExecutorEnds(w)
  BY <1>13 DEF ExecutorEnds, Goto, storeVars, journalVars
<1>14. CASE ExecutorRaises(w)
  BY <1>14 DEF ExecutorRaises, Goto, storeVars, journalVars
<1>15. CASE ReconcileOperation(w)
  BY <1>15 DEF ReconcileOperation, Goto, storeVars
<1>16. CASE ReconcileRaised(w)
  BY <1>16 DEF ReconcileRaised, Goto, storeVars
<1>17. CASE AcceptStep(w)
  BY <1>17, AcceptEffect
<1>18. CASE TransitionStep(w)
  BY <1>18, TransitionTable DEF TransitionStep, Goto, TransitionTo, journalVars
<1>19. CASE ClassifyStep(w)
  BY <1>19, ClassifyTable DEF ClassifyStep, Goto, ClassifyFailure, journalVars
<1>20. CASE Validate(w)
  BY <1>20 DEF Validate, Goto, storeVars, journalVars
<1>21. CASE SetTaskValidation(w)
  BY <1>21 DEF SetTaskValidation, Goto, storeVars, journalVars
<1>22. CASE FinishReady(w)
  BY <1>22 DEF FinishReady, Goto, TransitionTo, journalVars
<1>23. CASE FinishFailed(w)
  BY <1>23 DEF FinishFailed, Goto, Terminalize, journalVars, Terminalizing
<1>24. CASE ReturnStep(w)
  BY <1>24 DEF ReturnStep, Return, Leave, journalVars
<1>25. CASE RaiseFenced(w)
  BY <1>25 DEF RaiseFenced, Return, Leave, journalVars
<1>26. CASE RaiseRefused(w)
  BY <1>26 DEF RaiseRefused, Return, Release, journalVars
<1>27. CASE KeepAlive(w)
  BY <1>27 DEF KeepAlive, callVars, Heartbeat, journalVars
<1>28. CASE RaiseIOFault(w)
  BY <1>28 DEF RaiseIOFault, Return, Release, journalVars
<1>29. CASE Crash(w)
  BY <1>29 DEF Crash, Return, Leave, storeVars, journalVars
<1> QED
  BY <1>1, <1>2, <1>3, <1>4, <1>5, <1>6, <1>7, <1>8, <1>9, <1>10, <1>11, <1>12, <1>13,
     <1>14, <1>15, <1>16, <1>17, <1>18, <1>19, <1>20, <1>21, <1>22, <1>23, <1>24, <1>25,
     <1>26, <1>27, <1>28, <1>29 DEF WorkerAct, Call

(* Every step keeps it of every call: the one call that may write the record of  *)
(* the first run holds epoch 1, and that epoch is nobody else's.                 *)
LEMMA ModeStep ==
  StoreInv /\ SingleTypeOK /\ CallInv /\ ModeInv /\ [SingleNext]_vars => ModeInv'
<1> SUFFICES ASSUME StoreInv, SingleTypeOK, CallInv, ModeInv, [SingleNext]_vars
             PROVE  ModeInv'
  OBVIOUS
<1>a. TypeOK /\ TypeOK' /\ HandleInv /\ epoch <= epoch' /\ epoch \in Nat /\ epoch' \in Nat
  BY Inherited DEF StoreInv, Progress, TypeOK
<1>b. "workspace_root" \in RequestDigests
  BY DEF RequestDigests
<1>1. ASSUME NEW w \in Workers, WorkerAct(w) PROVE ModeInv'
  <2>1. ModeOK(w)'
    BY <1>a, <1>b, <1>1, WorkerKeepsMode DEF ModeInv, CallInv
  <2>2. ASSUME epoch' = 0, NEW d \in RequestDigests PROVE ops'[d] = "absent"
    BY <1>1, <1>a, <2>2, JournalFrame DEF ModeInv, Fence
  <2>3. ASSUME NEW v \in Workers, v # w PROVE ModeOK(v)'
    <3>1. Untouched(v)
      BY <1>a, <1>1, <2>3, OthersUntouched
    <3>2. ASSUME pc[v] \in StartLabels PROVE ops'["workspace_root"] = "absent"
      <4>1. mode[v] = "execute" /\ ops["workspace_root"] = "absent" /\ handle[v] = 1
        BY <3>2, LabelSets DEF ModeInv, ModeOK, CallInv, CallOK, StartLabels
      <4>2. ASSUME Fence(w) PROVE mode[w] = "resume"
        BY <4>1, <4>2, <2>3, <1>a DEF ModeInv, ModeOK, Fence, HandleInv, SingleTypeOK
      <4> QED
        BY <1>1, <1>b, <4>1, <4>2, JournalFrame DEF RequestDigest
    <3> QED
      BY <3>1, <3>2 DEF ModeInv, ModeOK, Untouched
  <2> QED
    BY <2>1, <2>2, <2>3 DEF ModeInv
<1>2. ASSUME UNCHANGED <<callVars, journalVars, handle>> PROVE ModeInv'
  BY <1>2, <1>a DEF ModeInv, ModeOK, callVars, journalVars
<1>3. ASSUME NEW r \in Reconcilers, Reconcile(r) PROVE ModeInv'
  BY <1>2, <1>3 DEF Reconcile, ReconcilerStep, ReconcileSelect, ReconcileInterrupt,
     ReconcileSkip
<1>4. CASE Expire
  BY <1>2, <1>4 DEF Expire, LeaseTimeout
<1>5. CASE UNCHANGED vars
  BY <1>2, <1>5 DEF vars, storeVars
<1> QED
  BY <1>1, <1>3, <1>4, <1>5 DEF SingleNext, WorkerAct

-----------------------------------------------------------------------------
(* A call comes to own a journal record by writing it, and keeps its digest. *)
LEMMA EnterExec ==
  ASSUME NEW w \in Workers, SingleTypeOK, CallOK(w), WorkerAct(w), pc'[w] \in ExecLabels
  PROVE  /\ pc[w] \in ExecLabels \/ (pc[w] = "record" /\ Fence(w))
         /\ RequestDigest(w)' = RequestDigest(w)
<1> USE DEF ExecLabels, RequestDigest, SingleTypeOK
<1>1. CASE Execute(w)
  BY <1>1 DEF Execute, Goto
<1>2. CASE Prepare(w)
  BY <1>2 DEF Prepare, Goto
<1>3. CASE ResumeFind(w)
  BY <1>3 DEF ResumeFind, Goto, Return
<1>4. CASE ResumeReadRun(w)
  BY <1>4 DEF ResumeReadRun, Goto
<1>5. CASE ResumeReadTask(w)
  BY <1>5 DEF ResumeReadTask, Goto, Return
<1>6. CASE ResumeRecover(w)
  BY <1>6, ResumeTable DEF ResumeRecover, Goto, CallOK
<1>7. CASE ResumeRecoverAborted(w)
  BY <1>7, ResumeTable DEF ResumeRecoverAborted, Goto, CallOK
<1>8. CASE ResumeTooLate(w)
  BY <1>8 DEF ResumeTooLate, Return
<1>9. CASE CheckJournal(w)
  BY <1>9 DEF CheckJournal, Goto
<1>10. CASE RecordOperation(w)
  BY <1>10 DEF RecordOperation, Goto
<1>11. CASE Dispatch(w)
  BY <1>11 DEF Dispatch, Goto
<1>12. CASE CreateFails(w)
  BY <1>12 DEF CreateFails, Goto
<1>13. CASE ExecutorEnds(w)
  BY <1>13 DEF ExecutorEnds, Goto
<1>14. CASE ExecutorRaises(w)
  BY <1>14 DEF ExecutorRaises, Goto
<1>15. CASE ReconcileOperation(w)
  BY <1>15 DEF ReconcileOperation, Goto
<1>16. CASE ReconcileRaised(w)
  BY <1>16 DEF ReconcileRaised, Goto
<1>17. CASE AcceptStep(w)
  <2>1. pc'[w] \in {"running", "accept2", "accept3", "validate", "setTaskValidation",
                   "failed2", "failed3", "failed4", "failedEnd"}
    BY <1>17, AcceptEffect
  <2> QED
    BY <2>1
<1>18. CASE TransitionStep(w)
  BY <1>18, TransitionTable DEF TransitionStep, Goto
<1>19. CASE ClassifyStep(w)
  BY <1>19, ClassifyTable DEF ClassifyStep, Goto
<1>20. CASE Validate(w)
  BY <1>20 DEF Validate, Goto
<1>21. CASE SetTaskValidation(w)
  BY <1>21 DEF SetTaskValidation, Goto
<1>22. CASE FinishReady(w)
  BY <1>22 DEF FinishReady, Goto
<1>23. CASE FinishFailed(w)
  BY <1>23 DEF FinishFailed, Goto, Terminalizing
<1>24. CASE ReturnStep(w)
  BY <1>24 DEF ReturnStep, Return
<1>25. CASE RaiseFenced(w)
  BY <1>25 DEF RaiseFenced, Return
<1>26. CASE RaiseRefused(w)
  BY <1>26 DEF RaiseRefused, Return
<1>27. CASE KeepAlive(w)
  BY <1>27 DEF KeepAlive, callVars
<1>28. CASE RaiseIOFault(w)
  BY <1>28 DEF RaiseIOFault, Return
<1>29. CASE Crash(w)
  BY <1>29 DEF Crash, Return
<1> QED
  BY <1>1, <1>2, <1>3, <1>4, <1>5, <1>6, <1>7, <1>8, <1>9, <1>10, <1>11, <1>12, <1>13,
     <1>14, <1>15, <1>16, <1>17, <1>18, <1>19, <1>20, <1>21, <1>22, <1>23, <1>24, <1>25,
     <1>26, <1>27, <1>28, <1>29 DEF WorkerAct, Call

(* A call's own steps keep what JournalOK says of it, when no database error is   *)
(* mistaken for an absent record.                                                 *)
LEMMA WorkerKeepsJournal ==
  ASSUME ~IOFaults, NEW w \in Workers, TypeOK, SingleTypeOK, CallOK(w), ModeOK(w),
         JournalledDispatch, JournalOK(w), WorkerAct(w)
  PROVE  JournalOK(w)'
<1>a. RequestDigest(w) \in RequestDigests /\ dispatched \in [RequestDigests -> Nat]
  BY DEF RequestDigest, RequestDigests, SingleTypeOK
<1>b. ops[RequestDigest(w)] = "absent" => dispatched[RequestDigest(w)] = 0
  BY <1>a DEF JournalledDispatch
<1>c. pc[w] \in StartLabels => ops[RequestDigest(w)] = "absent"
  BY DEF ModeOK, RequestDigest
<1> USE DEF JournalOK, ExecLabels, RequestDigest, SingleTypeOK
<1>1. CASE Execute(w)
  BY <1>1 DEF Execute, Goto, journalVars
<1>2. CASE Prepare(w)
  BY <1>2 DEF Prepare, Goto, journalVars
<1>3. CASE ResumeFind(w)
  BY <1>3 DEF ResumeFind, Goto, Return, journalVars
<1>4. CASE ResumeReadRun(w)
  BY <1>4 DEF ResumeReadRun, Goto, journalVars
<1>5. CASE ResumeReadTask(w)
  BY <1>5 DEF ResumeReadTask, Goto, Return, journalVars
<1>6. CASE ResumeRecover(w)
  BY <1>6, ResumeTable DEF ResumeRecover, Goto, CallOK, journalVars
<1>7. CASE ResumeRecoverAborted(w)
  BY <1>7, ResumeTable DEF ResumeRecoverAborted, Goto, CallOK, journalVars
<1>8. CASE ResumeTooLate(w)
  BY <1>8 DEF ResumeTooLate, Return, journalVars
<1>9. CASE CheckJournal(w)
  BY <1>9 DEF CheckJournal, Goto, journalVars, PreventsDispatch, storeVars, Fence
<1>10. CASE RecordOperation(w)
  BY <1>10, <1>a, <1>b DEF RecordOperation, Goto
<1>11. CASE Dispatch(w)
  BY <1>11, <1>a, <1>b DEF Dispatch, Goto
<1>12. CASE CreateFails(w)
  BY <1>12 DEF CreateFails, Goto, journalVars
<1>13. CASE ExecutorEnds(w)
  BY <1>13 DEF ExecutorEnds, Goto, journalVars
<1>14. CASE ExecutorRaises(w)
  BY <1>14 DEF ExecutorRaises, Goto, journalVars
<1>15. CASE ReconcileOperation(w)
  BY <1>15, <1>a, <1>b DEF ReconcileOperation, Goto
<1>16. CASE ReconcileRaised(w)
  BY <1>16, <1>a, <1>b DEF ReconcileRaised, Goto
<1>17. CASE AcceptStep(w)
  BY <1>17, AcceptEffect, AcceptTable
<1>18. CASE TransitionStep(w)
  BY <1>18, <1>c, TransitionTable DEF TransitionStep, Goto, journalVars, TransitionTo,
     leaseVars, Fence, StartLabels
<1>19. CASE ClassifyStep(w)
  BY <1>19, ClassifyTable DEF ClassifyStep, Goto, journalVars
<1>20. CASE Validate(w)
  BY <1>20 DEF Validate, Goto, journalVars
<1>21. CASE SetTaskValidation(w)
  BY <1>21 DEF SetTaskValidation, Goto, journalVars
<1>22. CASE FinishReady(w)
  BY <1>22 DEF FinishReady, Goto, journalVars
<1>23. CASE FinishFailed(w)
  BY <1>23 DEF FinishFailed, Goto, Terminalizing, journalVars
<1>24. CASE ReturnStep(w)
  BY <1>24 DEF ReturnStep, Return, journalVars
<1>25. CASE RaiseFenced(w)
  BY <1>25 DEF RaiseFenced, Return, journalVars
<1>26. CASE RaiseRefused(w)
  BY <1>26 DEF RaiseRefused, Return, journalVars
<1>27. CASE KeepAlive(w)
  BY <1>27 DEF KeepAlive, callVars, journalVars, Heartbeat, Fence
<1>28. CASE RaiseIOFault(w)
  BY <1>28 DEF RaiseIOFault, Return, journalVars
<1>29. CASE Crash(w)
  BY <1>29 DEF Crash, Return, journalVars
<1> QED
  BY <1>1, <1>2, <1>3, <1>4, <1>5, <1>6, <1>7, <1>8, <1>9, <1>10, <1>11, <1>12, <1>13,
     <1>14, <1>15, <1>16, <1>17, <1>18, <1>19, <1>20, <1>21, <1>22, <1>23, <1>24, <1>25,
     <1>26, <1>27, <1>28, <1>29 DEF WorkerAct, Call

(* The log is written by the checkpoint steps alone. *)
LEMMA OnlyAcceptAdvances ==
  ASSUME NEW w \in Workers, WorkerAct(w), accepted' # accepted
  PROVE  AcceptStep(w)
<1> USE DEF logVars
<1>1. CASE Execute(w)
  BY <1>1 DEF Execute, Acquire
<1>2. CASE Prepare(w)
  BY <1>2 DEF Prepare, storeVars
<1>3. CASE ResumeFind(w)
  BY <1>3 DEF ResumeFind, storeVars
<1>4. CASE ResumeReadRun(w)
  BY <1>4 DEF ResumeReadRun, storeVars
<1>5. CASE ResumeReadTask(w)
  BY <1>5 DEF ResumeReadTask, storeVars
<1>6. CASE ResumeRecover(w)
  BY <1>6 DEF ResumeRecover, Recover, TakeLease, NextEpoch
<1>7. CASE ResumeRecoverAborted(w)
  BY <1>7 DEF ResumeRecoverAborted, TakeLease, NextEpoch
<1>8. CASE ResumeTooLate(w)
  BY <1>8 DEF ResumeTooLate, storeVars
<1>9. CASE CheckJournal(w)
  BY <1>9 DEF CheckJournal, storeVars
<1>10. CASE RecordOperation(w)
  BY <1>10 DEF RecordOperation, storeVars
<1>11. CASE Dispatch(w)
  BY <1>11 DEF Dispatch, storeVars
<1>12. CASE CreateFails(w)
  BY <1>12 DEF CreateFails, storeVars
<1>13. CASE ExecutorEnds(w)
  BY <1>13 DEF ExecutorEnds, storeVars
<1>14. CASE ExecutorRaises(w)
  BY <1>14 DEF ExecutorRaises, storeVars
<1>15. CASE ReconcileOperation(w)
  BY <1>15 DEF ReconcileOperation, storeVars
<1>16. CASE ReconcileRaised(w)
  BY <1>16 DEF ReconcileRaised, storeVars
<1>17. CASE AcceptStep(w)
  BY <1>17
<1>18. CASE TransitionStep(w)
  BY <1>18 DEF TransitionStep, TransitionTo
<1>19. CASE ClassifyStep(w)
  BY <1>19 DEF ClassifyStep, ClassifyFailure
<1>20. CASE Validate(w)
  BY <1>20 DEF Validate, storeVars
<1>21. CASE SetTaskValidation(w)
  BY <1>21 DEF SetTaskValidation, storeVars
<1>22. CASE FinishReady(w)
  BY <1>22 DEF FinishReady, TransitionTo
<1>23. CASE FinishFailed(w)
  BY <1>23 DEF FinishFailed, Terminalize
<1>24. CASE ReturnStep(w)
  BY <1>24 DEF ReturnStep, Leave
<1>25. CASE RaiseFenced(w)
  BY <1>25 DEF RaiseFenced, Leave
<1>26. CASE RaiseRefused(w)
  BY <1>26 DEF RaiseRefused, Release
<1>27. CASE KeepAlive(w)
  BY <1>27 DEF KeepAlive, Heartbeat
<1>28. CASE RaiseIOFault(w)
  BY <1>28 DEF RaiseIOFault, Release
<1>29. CASE Crash(w)
  BY <1>29 DEF Crash, Leave, storeVars
<1> QED
  BY <1>1, <1>2, <1>3, <1>4, <1>5, <1>6, <1>7, <1>8, <1>9, <1>10, <1>11, <1>12, <1>13,
     <1>14, <1>15, <1>16, <1>17, <1>18, <1>19, <1>20, <1>21, <1>22, <1>23, <1>24, <1>25,
     <1>26, <1>27, <1>28, <1>29 DEF WorkerAct, Call

(* The journal stays ahead of the executor and behind the log at every step: an   *)
(* owned record is written by its owner alone, and the record that backs the      *)
(* accepted result has no owner any more.                                         *)
LEMMA JournalStep ==
  ASSUME ~IOFaults, SingleInv, JournalInv, [SingleNext]_vars
  PROVE  JournalInv'
<1>a. /\ TypeOK /\ HandleInv /\ CheckpointLog /\ SingleTypeOK /\ CallInv /\ ModeInv
      /\ TypeOK' /\ FencedStays /\ Progress /\ CheckpointLog'
  BY Inherited DEF SingleInv, StoreInv, LogInv
<1>b. /\ Len(history) \in Nat /\ accepted = Len(history) - 1 /\ Len(history) <= Len(history')
      /\ Len(history') \in Nat /\ accepted' = Len(history') - 1
  BY <1>a, RowTypes DEF CheckpointLog, Progress, TypeOK
<1>c. accepted >= 1 => Backing' = Backing
  BY <1>a, <1>b DEF Progress, Backing
<1>d. \A v \in Workers : RequestDigest(v) \in RequestDigests
  BY DEF RequestDigest, RequestDigests
<1>1. ASSUME NEW w \in Workers, WorkerAct(w) PROVE JournalInv'
  <2>a. JournalOK(w) /\ CallOK(w) /\ ModeOK(w) /\ JournalledDispatch /\ OneOwner
    BY <1>a DEF JournalInv, CallInv, ModeInv
  <2>b. \A v \in Workers : v # w => Untouched(v) /\ RequestDigest(v)' = RequestDigest(v)
    BY <1>a, <1>1, OthersUntouched DEF Untouched, RequestDigest
  <2>c. pc'[w] \in ExecLabels =>
          /\ pc[w] \in ExecLabels \/ (pc[w] = "record" /\ Fence(w))
          /\ RequestDigest(w)' = RequestDigest(w)
    BY <1>a, <1>1, <2>a, EnterExec
  <2>1. JournalOK(w)'
    BY <1>a, <1>1, <2>a, WorkerKeepsJournal
  <2>2. ASSUME NEW d \in RequestDigests
        PROVE  dispatched'[d] <= 1 /\ (dispatched'[d] = 1 => ops'[d] # "absent")
    <3>1. /\ dispatched[d] \in Nat /\ dispatched[d] <= 1
          /\ dispatched[d] = 1 => ops[d] # "absent"
      BY <1>a, <2>a DEF SingleTypeOK, JournalledDispatch
    <3>2. CASE dispatched'[d] = dispatched[d]
      BY <1>a, <1>1, <3>1, <3>2, JournalFrame
    <3>3. CASE dispatched'[d] # dispatched[d]
      <4>1. pc[w] = "dispatch" /\ d = RequestDigest(w) /\ dispatched'[d] = dispatched[d] + 1
        BY <1>a, <1>1, <3>3, JournalFrame
      <4>2. dispatched[d] = 0 /\ ops[d] # "absent"
        BY <2>a, <4>1 DEF JournalOK, ExecLabels
      <4> QED
        BY <1>a, <1>1, <4>1, <4>2, JournalFrame
    <3> QED
      BY <3>2, <3>3
  <2>3. ASSUME NEW v \in Workers, v # w PROVE JournalOK(v)'
    <3> DEFINE d == RequestDigest(v)
    <3>1. Untouched(v) /\ RequestDigest(v)' = d /\ JournalOK(v) /\ d \in RequestDigests
      BY <1>d, <2>b, <2>3 DEF JournalInv
    <3>2. Fence(v)' => Fence(v) /\ ~Fence(w)
      BY <1>a, <2>3, <3>1 DEF Untouched, FencedStays, Fence, HandleInv
    <3>3. /\ ops'[d] # ops[d] => Fence(w) /\ (ops[d] = "absent" \/ pc[w] \in ExecLabels)
          /\ ops'[d] # ops[d] => d = RequestDigest(w)
          /\ ops[d] # "absent" => ops'[d] # "absent"
          /\ dispatched'[d] # dispatched[d] => pc[w] = "dispatch" /\ d = RequestDigest(w)
      BY <1>a, <1>1, <3>1, JournalFrame
    <3>4. pc[v] \in ExecLabels /\ pc[w] \in ExecLabels => d # RequestDigest(w)
      BY <2>3, <2>a DEF OneOwner
    <3> HIDE DEF d
    <3>5. pc[v] \in ExecLabels => ops[d] # "absent"
      BY <3>1 DEF JournalOK, d
    <3>6. pc[v] \in ExecLabels => ops'[d] = ops[d] /\ dispatched'[d] = dispatched[d]
      BY <3>3, <3>4, <3>5 DEF ExecLabels
    <3>7. Fence(v)' => ops'[d] = ops[d]
      BY <3>2, <3>3
    <3> QED
      BY <3>1, <3>2, <3>6, <3>7 DEF JournalOK, Untouched, ExecLabels, d
  <2>4. OneOwner'
    <3>1. ASSUME NEW v \in Workers, v # w, pc'[v] \in ExecLabels, pc'[w] \in ExecLabels
          PROVE  RequestDigest(v)' # RequestDigest(w)'
      <4>1. pc[v] \in ExecLabels /\ RequestDigest(v)' = RequestDigest(v)
        BY <2>b, <3>1 DEF Untouched
      <4>2. CASE pc[w] \in ExecLabels
        BY <2>a, <2>c, <3>1, <4>1, <4>2 DEF OneOwner
      <4>3. CASE pc[w] = "record" /\ Fence(w)
        <5>1. ops[RequestDigest(w)] = "absent" /\ ops[RequestDigest(v)] # "absent"
          BY <2>a, <4>1, <4>3 DEF JournalOK, JournalInv
        <5> QED
          BY <2>c, <3>1, <4>1, <5>1
      <4> QED
        BY <2>c, <3>1, <4>2, <4>3
    <3>2. ASSUME NEW u \in Workers, NEW v \in Workers, u # w, v # w,
                 pc'[u] \in ExecLabels, pc'[v] \in ExecLabels,
                 RequestDigest(u)' = RequestDigest(v)'
          PROVE  u = v
      BY <2>a, <2>b, <3>2 DEF OneOwner, Untouched
    <3> QED
      BY <3>1, <3>2 DEF OneOwner
  <2>5. ASSUME accepted' >= 1 PROVE \E d \in RequestDigests : BackedBy(d)'
    <3>1. CASE accepted >= 1
      <4>1. PICK d \in RequestDigests : BackedBy(d)
        BY <3>1 DEF JournalInv
      <4>2. ops[d] # "absent"
        BY <4>1 DEF BackedBy, Backing
      <4>3. pc[w] \in ExecLabels => RequestDigest(w) # d
        BY <4>1 DEF BackedBy
      <4>4. ops'[d] = ops[d]
        BY <1>a, <1>1, <4>2, <4>3, JournalFrame
      <4>5. pc'[w] \in ExecLabels => RequestDigest(w)' # d
        BY <2>a, <2>c, <4>2, <4>3 DEF JournalOK
      <4>6. ASSUME NEW v \in Workers, pc'[v] \in ExecLabels PROVE RequestDigest(v)' # d
        BY <2>b, <4>1, <4>5, <4>6 DEF BackedBy, Untouched
      <4> QED
        BY <1>c, <3>1, <4>1, <4>4, <4>6 DEF BackedBy
    <3>2. CASE accepted < 1
      <4>1. AcceptStep(w)
        BY <1>1, <1>b, <2>5, <3>2, OnlyAcceptAdvances
      <4>2. /\ Fence(w) /\ pc[w] \in DOMAIN AcceptSteps /\ UNCHANGED ops
            /\ accepted' = AcceptSteps[pc[w]].cp /\ pc'[w] \notin ExecLabels
        BY <1>a, <4>1, AcceptEffect DEF ExecLabels
      <4>3. AcceptNext(w, AcceptSteps[pc[w]].cp, AcceptSteps[pc[w]].artifact)
        BY <1>b, <2>5, <3>2, <4>1 DEF AcceptStep, AcceptCheckpoint, AcceptAgain, storeVars
      <4>4. /\ AcceptSteps[pc[w]].cp \in Checkpoints
            /\ AcceptSteps[pc[w]].artifact \in Artifacts
        BY <4>2, AcceptTable
      <4>5. Len(history) = 1 /\ AcceptSteps[pc[w]].cp = 1
        BY <1>b, <2>5, <3>2, <4>2, <4>3 DEF AcceptNext
      <4>6. history'[2].artifact = AcceptSteps[pc[w]].artifact
        BY <1>a, <4>3, <4>4, <4>5, AppendRow
      <4>7. Backing' = ops[RequestDigest(w)] /\ pc[w] \in ExecLabels
        BY <2>a, <4>2, <4>5, <4>6, AcceptTable DEF Backing, JournalOK, ExecLabels
      <4>8. ASSUME NEW v \in Workers, pc'[v] \in ExecLabels
            PROVE  RequestDigest(v)' # RequestDigest(w)
        BY <2>a, <2>b, <4>2, <4>7, <4>8 DEF OneOwner, Untouched
      <4> QED
        BY <1>d, <4>2, <4>7, <4>8 DEF BackedBy
    <3> QED
      BY <1>b, <3>1, <3>2
  <2> QED
    BY <2>1, <2>2, <2>3, <2>4, <2>5 DEF JournalInv, JournalledDispatch
<1>2. ASSUME UNCHANGED <<callVars, journalVars, handle, logVars>> PROVE JournalInv'
  <2>1. \A v \in Workers : Fence(v)' => Fence(v)
    BY <1>a, <1>2 DEF FencedStays, Fence
  <2>2. /\ \A v \in Workers : RequestDigest(v)' = RequestDigest(v)
        /\ UNCHANGED <<pc, ops, dispatched, accepted, history>>
    BY <1>2 DEF RequestDigest, callVars, journalVars, logVars
  <2> QED
    BY <2>1, <2>2 DEF JournalInv, JournalledDispatch, JournalOK, OneOwner, BackedBy, Backing
<1>3. ASSUME NEW r \in Reconcilers, Reconcile(r) PROVE JournalInv'
  BY <1>2, <1>3 DEF Reconcile, ReconcilerStep, ReconcileSelect, ReconcileInterrupt,
     ReconcileSkip
<1>4. CASE Expire
  BY <1>2, <1>4 DEF Expire, LeaseTimeout
<1>5. CASE UNCHANGED vars
  BY <1>2, <1>5 DEF vars, storeVars, logVars
<1> QED
  BY <1>1, <1>3, <1>4, <1>5 DEF SingleNext, WorkerAct

-----------------------------------------------------------------------------
(* The inductive invariant holds of every behaviour of the service. *)
THEOREM SingleInvariant == SingleSpec => []SingleInv
<1>1. SingleInit => SingleInv
  <2> SUFFICES ASSUME SingleInit PROVE SingleInv
    OBVIOUS
  <2>1. StoreInv
    BY StoreInit DEF SingleInit
  <2>2. SingleTypeOK
    <3>1. NoRun \in [accepted : -1..4, recov : RecoveryClasses] /\ "idle" \in Labels
      BY DEF NoRun, RecoveryClasses, Labels
    <3> QED
      BY <3>1, BoundAssumption DEF SingleInit, SingleTypeOK
  <2>3. CallInv
    <3>1. \A w \in Workers : pc[w] = "idle" /\ handle[w] = 0 /\ seen[w].accepted = -1
      BY DEF SingleInit, Init, NoRun
    <3>2. accepted = -1
      BY DEF SingleInit, Init
    <3>3. "idle" \notin LeasedLabels /\ -1 <= -1
      BY LabelSets
    <3> QED
      BY <3>1, <3>2, <3>3 DEF CallInv, CallOK
  <2>4. ValidInv /\ ModeInv
    BY LabelSets DEF ValidInv, ValidOK, ReadyIsValidated, ModeInv, ModeOK, SingleInit, Init,
       Ready, Fence, StartLabels, ResumeLabels
  <2> QED
    BY <2>1, <2>2, <2>3, <2>4 DEF SingleInv
<1>2. SingleInv /\ [SingleNext]_vars => SingleInv'
  <2> SUFFICES ASSUME SingleInv, [SingleNext]_vars PROVE SingleInv'
    OBVIOUS
  <2>1. StoreInv' /\ SingleTypeOK'
    BY Inherited, SingleTypeStep DEF SingleInv, StoreInv
  <2>2. CallInv' /\ ValidInv' /\ ModeInv'
    BY CallStep, ValidStep, ModeStep DEF SingleInv
  <2> QED
    BY <2>1, <2>2 DEF SingleInv
<1> QED
  BY <1>1, <1>2, PTL DEF SingleSpec

(* The single-mode service uses the store as DurableStore allows it: whatever     *)
(* execute and resume calls do, with crashes and stalls in between, is a behaviour *)
(* of the store, and every theorem about the store holds of the service.          *)
THEOREM SingleImplementsStore == SingleSpec => StoreSpec
<1>1. SingleInit => Init
  BY DEF SingleInit
<1>2. SingleInv /\ [SingleNext]_vars => [Next]_storeVars
  BY StepImplements DEF SingleInv
<1> QED
  BY <1>1, <1>2, SingleInvariant, PTL DEF SingleSpec, StoreSpec

(* The locals of the calls, the journal and the exit code keep their types. *)
THEOREM SingleTypeCorrect == SingleSpec => []SingleTypeOK
<1>1. SingleInv => SingleTypeOK
  BY DEF SingleInv
<1> QED
  BY <1>1, SingleInvariant, PTL

(* A task that review_status is written to has its POST_VALIDATION accepted and    *)
(* its exit code 0 stored, and no later or superseded call replaces them.          *)
THEOREM ReadyMeansValidated == SingleSpec => []ReadyIsValidated
<1>1. SingleInv => ReadyIsValidated
  BY DEF SingleInv, ValidInv
<1> QED
  BY <1>1, SingleInvariant, PTL

(* execute_durable_single and resume_single answer success only for a run whose    *)
(* POST_VALIDATION is durable, although resume decides on a row it read earlier.   *)
THEOREM SuccessMeansDurable == SingleSpec => []SuccessIsDurable
<1>1. SingleInv => SuccessIsDurable
  BY DEF SingleInv, ValidInv, ValidOK, SuccessIsDurable
<1> QED
  BY <1>1, SingleInvariant, PTL

(* Without database errors the journal invariant holds as well. *)
THEOREM JournalInvariant ==
  ASSUME ~IOFaults
  PROVE  SingleSpec => []JournalInv
<1>1. SingleInit => JournalInv
  BY DEF SingleInit, Init, JournalInv, JournalledDispatch, JournalOK, OneOwner, ExecLabels
<1>2. SingleInv /\ JournalInv /\ [SingleNext]_vars => JournalInv'
  BY JournalStep
<1> QED
  BY <1>1, <1>2, SingleInvariant, PTL DEF SingleSpec

(* _record_external_operation precedes the executor's start and, short of a        *)
(* database error answered as absence, keeps every later call with the same        *)
(* digest from starting it again.                                                  *)
THEOREM ExecutorStartsOncePerDigest ==
  ASSUME ~IOFaults
  PROVE  SingleSpec => []JournalledDispatch
<1>1. JournalInv => JournalledDispatch
  BY DEF JournalInv
<1> QED
  BY <1>1, JournalInvariant, PTL

(* The POST_PLANNER row carries the result some call reconciled in the journal     *)
(* (_reconcile_external_operation), whoever accepted it.                           *)
THEOREM LogIsBackedByJournal ==
  ASSUME ~IOFaults
  PROVE  SingleSpec => []JournalBacksLog
<1>1. JournalInv => JournalBacksLog
  BY DEF JournalInv, JournalBacksLog, BackedBy, Backing
<1> QED
  BY <1>1, JournalInvariant, PTL
=============================================================================
