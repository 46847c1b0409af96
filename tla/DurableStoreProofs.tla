------------------------- MODULE DurableStoreProofs -------------------------
(***************************************************************************)
(* Proofs about DurableStore, for every set of workers and reconcilers,     *)
(* every assignment of owner names to workers and every bound on epochs.    *)
(*                                                                         *)
(* None of the properties is inductive alone.  SingleHolder needs that an   *)
(* epoch is issued to one worker only and never exceeds the row's           *)
(* (HandleInv); CheckpointLog needs the same of the epochs written in the   *)
(* log (LogInv); CancelledNeverRan and InterruptedIsResumable need the      *)
(* relation between the status and the run row (RowInv).                    *)
(***************************************************************************)
EXTENDS DurableStore, TLAPS

HandleInv ==
    /\ \A w \in Workers : handle[w] <= epoch
    /\ \A v, w \in Workers : handle[v] # 0 /\ handle[v] = handle[w] => v = w

LogInv ==
    /\ CheckpointLog
    /\ \A i \in 1..Len(history) : history[i].epoch <= epoch
    /\ \A i \in 1..Len(history), w \in Workers :
          history[i].epoch = handle[w] => history[i].by = w

RowInv ==
    /\ status = "CANCELLED" => epoch = 0 /\ ~claimed
    /\ status = "INTERRUPTED" => owner = NoOwner /\ recov \in RecoverableClasses
    /\ \A r \in Reconcilers : pass[r] = "due" => expiry # "live"

StoreInv == TypeOK /\ HandleInv /\ LogInv /\ RowInv

-----------------------------------------------------------------------------
(* The transition table only names statuses, and lets nothing leave a         *)
(* terminal one.                                                              *)
LEMMA TransitionRulesTable ==
    \A s, t : TransitionRules(s, t) => t \in Statuses /\ s \notin Terminal
  BY DEF TransitionRules, Statuses, Live, Terminal, Aborts

(* What an accepted checkpoint row is, and what appending it does to the log. *)
LEMMA AppendRow ==
  ASSUME NEW w \in Workers, NEW cp \in Checkpoints, NEW a \in Artifacts,
         TypeOK, AcceptNext(w, cp, a)
  PROVE  /\ history' \in Seq(CheckpointRows)
         /\ Len(history') = Len(history) + 1
         /\ \A i \in 1..Len(history) : history'[i] = history[i]
         /\ history'[Len(history) + 1].cp = cp
         /\ history'[Len(history) + 1].by = w
         /\ history'[Len(history) + 1].epoch = epoch
         /\ history'[Len(history) + 1].artifact = a
<1> DEFINE row == [cp |-> cp, artifact |-> a, by |-> w, epoch |-> epoch]
<1>1. row \in CheckpointRows
  BY EpochAssumption DEF TypeOK, AcceptNext, Fence, CheckpointRows
<1>2. history \in Seq(CheckpointRows) /\ history' = Append(history, row)
  BY DEF TypeOK, AcceptNext
<1> HIDE DEF row
<1>3. /\ history' \in Seq(CheckpointRows)
      /\ Len(history') = Len(history) + 1
      /\ \A i \in 1..Len(history) : history'[i] = history[i]
      /\ history'[Len(history) + 1] = row
  BY <1>1, <1>2
<1> QED
  BY <1>3 DEF row

(* The rows already in the log are typed; their epochs are at least 1. *)
LEMMA RowTypes ==
  ASSUME TypeOK
  PROVE  /\ Len(history) \in Nat
         /\ \A i \in 1..Len(history) :
              /\ history[i].epoch \in Nat \ {0}
              /\ history[i].by \in Workers
              /\ history[i].cp \in Checkpoints
<1>1. history \in Seq(CheckpointRows)
  BY DEF TypeOK
<1>2. \A i \in 1..Len(history) : history[i] \in CheckpointRows
  BY <1>1
<1> QED
  BY <1>1, <1>2, EpochAssumption DEF CheckpointRows

(* The row a holder appends carries the newest epoch, and the earlier rows of *)
(* that epoch are its own.                                                    *)
LEMMA AppendKeepsLog ==
  ASSUME NEW w \in Workers, NEW cp \in Checkpoints, NEW a \in Artifacts,
         TypeOK, HandleInv, LogInv, AcceptNext(w, cp, a)
  PROVE  LogInv'
<1> DEFINE n == Len(history)
<1>1. /\ n \in Nat
      /\ \A i \in 1..n : history[i].epoch \in Nat
  BY RowTypes
<1>2. /\ Len(history') = n + 1
      /\ \A i \in 1..n : history'[i] = history[i]
      /\ history'[n + 1].cp = cp
      /\ history'[n + 1].by = w
      /\ history'[n + 1].epoch = epoch
  BY AppendRow
<1>3. /\ cp = accepted + 1
      /\ accepted' = cp
      /\ epoch' = epoch
      /\ handle' = handle
      /\ handle[w] = epoch
      /\ epoch # 0
  BY DEF AcceptNext, Fence, leaseVars
<1>4. epoch \in Nat /\ \A v \in Workers : handle[v] = epoch => v = w
  BY <1>3 DEF HandleInv, TypeOK
<1>5. /\ accepted = n - 1
      /\ \A i \in 1..n : history[i].cp = i - 1
      /\ \A i, j \in 1..n :
            /\ i <= j => history[i].epoch <= history[j].epoch
            /\ history[i].epoch = history[j].epoch => history[i].by = history[j].by
      /\ \A i \in 1..n : history[i].epoch <= epoch
      /\ \A i \in 1..n, v \in Workers : history[i].epoch = handle[v] => history[i].by = v
  BY DEF LogInv, CheckpointLog
<1> HIDE DEF n
<1>6. accepted' = Len(history') - 1 /\ \A i \in 1..Len(history') : history'[i].cp = i - 1
  <2> SUFFICES ASSUME NEW i \in 1..(n + 1)
               PROVE  accepted' = n /\ history'[i].cp = i - 1
    BY <1>1, <1>2
  <2>1. cp = n /\ accepted' = n
    BY <1>1, <1>3, <1>5
  <2>2. CASE i \in 1..n
    BY <2>1, <2>2, <1>2, <1>5
  <2>3. CASE i = n + 1
    BY <2>1, <2>3, <1>1, <1>2
  <2> QED
    BY <2>2, <2>3, <1>1
<1>7. ASSUME NEW i \in 1..(n + 1), NEW j \in 1..(n + 1)
      PROVE  /\ i <= j => history'[i].epoch <= history'[j].epoch
             /\ history'[i].epoch = history'[j].epoch => history'[i].by = history'[j].by
  <2>1. CASE i \in 1..n /\ j \in 1..n
    BY <2>1, <1>2, <1>5
  <2>2. CASE i \in 1..n /\ j = n + 1
    BY <2>2, <1>1, <1>2, <1>3, <1>5
  <2>3. CASE i = n + 1 /\ j \in 1..n
    BY <2>3, <1>1, <1>2, <1>3, <1>5
  <2>4. CASE i = n + 1 /\ j = n + 1
    BY <2>4, <1>2, <1>4
  <2> QED
    BY <2>1, <2>2, <2>3, <2>4, <1>1
<1>8. ASSUME NEW i \in 1..(n + 1)
      PROVE  /\ history'[i].epoch <= epoch'
             /\ \A v \in Workers : history'[i].epoch = handle'[v] => history'[i].by = v
  <2>1. CASE i \in 1..n
    BY <2>1, <1>2, <1>3, <1>5
  <2>2. CASE i = n + 1
    BY <2>2, <1>2, <1>3, <1>4
  <2> QED
    BY <2>1, <2>2, <1>1
<1> QED
  BY <1>2, <1>6, <1>7, <1>8 DEF LogInv, CheckpointLog

(* Every operation keeps the types. *)
LEMMA TypeStep == TypeOK /\ [Next]_storeVars => TypeOK'
<1> SUFFICES ASSUME TypeOK, [Next]_storeVars PROVE TypeOK'
  OBVIOUS
<1> USE DEF TypeOK, leaseVars, logVars
<1>1. CASE CoordinatorClaim
  BY <1>1 DEF CoordinatorClaim
<1>2. CASE CancelQueued
  BY <1>2 DEF CancelQueued, Statuses, Terminal
<1>3. CASE LeaseTimeout
  BY <1>3 DEF LeaseTimeout
<1>4. ASSUME NEW w \in Workers, WorkerStep(w) PROVE TypeOK'
  <2>1. CASE Acquire(w)
    <3>1. handle' \in [Workers -> 0..MaxEpoch] /\ epoch' \in 0..MaxEpoch
      BY <2>1, EpochAssumption DEF Acquire
    <3>2. pass' \in [Reconcilers -> {"idle", "due", "renewed"}]
      BY <2>1 DEF Acquire, Renewed
    <3>3. owner' \in Owners \cup {NoOwner}
      BY <2>1, OwnerAssumption DEF Acquire
    <3>4. /\ status' \in Statuses /\ expiry' \in {"none", "live", "expired"}
          /\ recov' \in RecoveryClasses
      BY <2>1 DEF Acquire, Statuses, Live, RecoveryClasses
    <3>5. UNCHANGED <<claimed, accepted, history>>
      BY <2>1 DEF Acquire
    <3> QED
      BY <3>1, <3>2, <3>3, <3>4, <3>5
  <2>2. CASE Recover(w)
    <3>1. handle' \in [Workers -> 0..MaxEpoch] /\ epoch' \in 0..MaxEpoch
      BY <2>2, EpochAssumption DEF Recover, TakeLease, NextEpoch
    <3>2. pass' \in [Reconcilers -> {"idle", "due", "renewed"}]
      BY <2>2 DEF Recover, TakeLease, NextEpoch, Renewed
    <3>3. owner' \in Owners \cup {NoOwner}
      BY <2>2, OwnerAssumption DEF Recover, TakeLease, NextEpoch
    <3>4. /\ status' \in Statuses /\ expiry' \in {"none", "live", "expired"}
          /\ recov' \in RecoveryClasses
      BY <2>2 DEF Recover, TakeLease, NextEpoch, Statuses, Live, RecoveryClasses
    <3>5. UNCHANGED <<claimed, accepted, history>>
      BY <2>2 DEF Recover, TakeLease, NextEpoch
    <3> QED
      BY <3>1, <3>2, <3>3, <3>4, <3>5
  <2>3. CASE Heartbeat(w)
    BY <2>3 DEF Heartbeat, Renewed
  <2>4. CASE Release(w)
    BY <2>4, EpochAssumption DEF Release, Released
  <2>5. CASE Leave(w)
    BY <2>5, EpochAssumption DEF Leave
  <2>6. CASE SetRecoveryClassification(w, "interrupted")
    BY <2>6 DEF SetRecoveryClassification, RecoveryClasses
  <2>7. ASSUME NEW cp \in Checkpoints, NEW a \in Artifacts, AcceptNext(w, cp, a) PROVE TypeOK'
    <3>1. history' \in Seq(CheckpointRows)
      BY <2>7, AppendRow
    <3> QED
      BY <2>7, <3>1 DEF AcceptNext, Checkpoints
  <2>8. ASSUME NEW cp \in Checkpoints, NEW a \in Artifacts, AcceptAgain(w, cp, a) PROVE TypeOK'
    BY <2>8 DEF AcceptAgain, storeVars
  <2>9. ASSUME NEW s \in ServiceTargets, TransitionTo(w, s) PROVE TypeOK'
    BY <2>9, TransitionRulesTable DEF TransitionTo
  <2>10. ASSUME NEW s \in {"BLOCKED", "FAILED"}, ClassifyFailure(w, s) PROVE TypeOK'
    BY <2>10 DEF ClassifyFailure, Statuses, Terminal
  <2>11. CASE Terminalize(w, "FAILED")
    BY <2>11 DEF Terminalize, Statuses, Terminal
  <2>12. CASE RecoverAborted(w)
    <3>1. handle' \in [Workers -> 0..MaxEpoch] /\ epoch' \in 0..MaxEpoch
      BY <2>12, EpochAssumption DEF RecoverAborted, TakeLease, NextEpoch
    <3>2. pass' \in [Reconcilers -> {"idle", "due", "renewed"}]
      BY <2>12 DEF RecoverAborted, TakeLease, NextEpoch, Renewed
    <3>3. owner' \in Owners \cup {NoOwner}
      BY <2>12, OwnerAssumption DEF RecoverAborted, TakeLease, NextEpoch
    <3>4. /\ status' \in Statuses /\ expiry' \in {"none", "live", "expired"}
          /\ recov' \in RecoveryClasses
      BY <2>12 DEF RecoverAborted, TakeLease, NextEpoch, Statuses, Live, RecoveryClasses
    <3>5. UNCHANGED <<claimed, accepted, history>>
      BY <2>12 DEF RecoverAborted, TakeLease, NextEpoch
    <3> QED
      BY <3>1, <3>2, <3>3, <3>4, <3>5
  <2> QED
    BY <1>4, <2>1, <2>2, <2>3, <2>4, <2>5, <2>6, <2>7, <2>8, <2>9, <2>10, <2>11, <2>12 DEF WorkerStep, AcceptCheckpoint
<1>5. ASSUME NEW r \in Reconcilers, ReconcilerStep(r) PROVE TypeOK'
  <2>1. CASE ReconcileSelect(r)
    BY <2>1 DEF ReconcileSelect
  <2>2. CASE ReconcileInterrupt(r)
    BY <2>2 DEF ReconcileInterrupt, Statuses, RecoveryClasses
  <2>3. CASE ReconcileSkip(r)
    BY <2>3 DEF ReconcileSkip
  <2> QED
    BY <1>5, <2>1, <2>2, <2>3 DEF ReconcilerStep
<1>6. CASE UNCHANGED storeVars
  BY <1>6 DEF storeVars
<1> QED
  BY <1>1, <1>2, <1>3, <1>4, <1>5, <1>6 DEF Next

(* An epoch is issued once: only a handle of the row's new epoch is new. *)
LEMMA HandleStep == TypeOK /\ HandleInv /\ [Next]_storeVars => HandleInv'
<1> SUFFICES ASSUME TypeOK /\ HandleInv, [Next]_storeVars PROVE HandleInv'
  OBVIOUS
<1> USE DEF TypeOK, HandleInv, leaseVars, logVars
<1>1. CASE CoordinatorClaim
  BY <1>1 DEF CoordinatorClaim
<1>2. CASE CancelQueued
  BY <1>2 DEF CancelQueued
<1>3. CASE LeaseTimeout
  BY <1>3 DEF LeaseTimeout
<1>4. ASSUME NEW w \in Workers, WorkerStep(w) PROVE HandleInv'
  <2>1. CASE Acquire(w)
    BY <2>1 DEF Acquire
  <2>2. CASE Recover(w)
    BY <2>2 DEF Recover, TakeLease, NextEpoch
  <2>3. CASE Heartbeat(w)
    BY <2>3 DEF Heartbeat
  <2>4. CASE Release(w)
    BY <2>4 DEF Release
  <2>5. CASE Leave(w)
    BY <2>5 DEF Leave
  <2>6. CASE SetRecoveryClassification(w, "interrupted")
    BY <2>6 DEF SetRecoveryClassification
  <2>7. ASSUME NEW cp \in Checkpoints, NEW a \in Artifacts, AcceptNext(w, cp, a) PROVE HandleInv'
    BY <2>7 DEF AcceptNext
  <2>8. ASSUME NEW cp \in Checkpoints, NEW a \in Artifacts, AcceptAgain(w, cp, a) PROVE HandleInv'
    BY <2>8 DEF AcceptAgain, storeVars
  <2>9. ASSUME NEW s \in ServiceTargets, TransitionTo(w, s) PROVE HandleInv'
    BY <2>9 DEF TransitionTo
  <2>10. ASSUME NEW s \in {"BLOCKED", "FAILED"}, ClassifyFailure(w, s) PROVE HandleInv'
    BY <2>10 DEF ClassifyFailure
  <2>11. CASE Terminalize(w, "FAILED")
    BY <2>11 DEF Terminalize
  <2>12. CASE RecoverAborted(w)
    BY <2>12 DEF RecoverAborted, TakeLease, NextEpoch
  <2> QED
    BY <1>4, <2>1, <2>2, <2>3, <2>4, <2>5, <2>6, <2>7, <2>8, <2>9, <2>10, <2>11, <2>12 DEF WorkerStep, AcceptCheckpoint
<1>5. ASSUME NEW r \in Reconcilers, ReconcilerStep(r) PROVE HandleInv'
  <2>1. CASE ReconcileSelect(r)
    BY <2>1 DEF ReconcileSelect
  <2>2. CASE ReconcileInterrupt(r)
    BY <2>2 DEF ReconcileInterrupt
  <2>3. CASE ReconcileSkip(r)
    BY <2>3 DEF ReconcileSkip
  <2> QED
    BY <1>5, <2>1, <2>2, <2>3 DEF ReconcilerStep
<1>6. CASE UNCHANGED storeVars
  BY <1>6 DEF storeVars
<1> QED
  BY <1>1, <1>2, <1>3, <1>4, <1>5, <1>6 DEF Next

(* The log grows by rows of the current holder only. *)
LEMMA LogStep == TypeOK /\ HandleInv /\ LogInv /\ [Next]_storeVars => LogInv'
<1> SUFFICES ASSUME TypeOK /\ HandleInv /\ LogInv, [Next]_storeVars PROVE LogInv'
  OBVIOUS
<1>0. ASSUME UNCHANGED <<accepted, history, epoch>>,
             \A v \in Workers : handle'[v] = handle[v] \/ handle'[v] = 0
      PROVE  LogInv'
  <2>1. CheckpointLog' /\ \A i \in 1..Len(history') : history'[i].epoch <= epoch'
    BY <1>0 DEF LogInv, CheckpointLog
  <2>2. ASSUME NEW i \in 1..Len(history), NEW v \in Workers, history[i].epoch = handle'[v]
        PROVE  history[i].by = v
    BY <1>0, <2>2, RowTypes DEF LogInv
  <2> QED
    BY <1>0, <2>1, <2>2 DEF LogInv
<1>00. ASSUME UNCHANGED <<accepted, history>> PROVE CheckpointLog'
  BY <1>00 DEF LogInv, CheckpointLog
<1> USE DEF TypeOK, LogInv, CheckpointLog, leaseVars, logVars
<1>1. CASE CoordinatorClaim
  BY <1>1 DEF CoordinatorClaim
<1>2. CASE CancelQueued
  BY <1>2 DEF CancelQueued
<1>3. CASE LeaseTimeout
  BY <1>3 DEF LeaseTimeout
<1>4. ASSUME NEW w \in Workers, WorkerStep(w) PROVE LogInv'
  <2>1. CASE Acquire(w)
    <3>1. /\ epoch = 0 /\ epoch' = 1 /\ UNCHANGED <<accepted, history>>
      BY <2>1 DEF Acquire
    <3>2. \A i \in 1..Len(history) : history[i].epoch \in Nat \ {0} /\ history[i].epoch <= 0
      BY <3>1, RowTypes
    <3>3. Len(history) \in Nat /\ 1..Len(history) = {}
      BY <3>2, RowTypes
    <3>4. CheckpointLog'
      BY <1>00, <3>1
    <3> QED
      BY <3>1, <3>3, <3>4
  <2>2. CASE Recover(w)
    <3>1. /\ epoch \in Nat /\ epoch' = epoch + 1 /\ UNCHANGED <<accepted, history>>
          /\ \A v \in Workers : handle'[v] = IF v = w THEN epoch + 1 ELSE handle[v]
      BY <2>2 DEF Recover, TakeLease, NextEpoch
    <3>2. \A i \in 1..Len(history) : history[i].epoch \in Nat /\ history[i].epoch <= epoch
      BY RowTypes
    <3>3. CheckpointLog'
      BY <1>00, <3>1
    <3>4. \A i \in 1..Len(history') : history'[i].epoch <= epoch'
      BY <3>1, <3>2
    <3>5. \A i \in 1..Len(history'), v \in Workers :
             history'[i].epoch = handle'[v] => history'[i].by = v
      BY <3>1, <3>2
    <3> QED
      BY <3>3, <3>4, <3>5
  <2>3. CASE Heartbeat(w)
    BY <1>0, <2>3 DEF Heartbeat
  <2>4. CASE Release(w)
    BY <1>0, <2>4 DEF Release
  <2>5. CASE Leave(w)
    BY <1>0, <2>5 DEF Leave
  <2>6. CASE SetRecoveryClassification(w, "interrupted")
    BY <1>0, <2>6 DEF SetRecoveryClassification
  <2>7. ASSUME NEW cp \in Checkpoints, NEW a \in Artifacts, AcceptNext(w, cp, a) PROVE LogInv'
    BY <2>7, AppendKeepsLog
  <2>8. ASSUME NEW cp \in Checkpoints, NEW a \in Artifacts, AcceptAgain(w, cp, a) PROVE LogInv'
    BY <2>8 DEF AcceptAgain, storeVars
  <2>9. ASSUME NEW s \in ServiceTargets, TransitionTo(w, s) PROVE LogInv'
    BY <1>0, <2>9 DEF TransitionTo
  <2>10. ASSUME NEW s \in {"BLOCKED", "FAILED"}, ClassifyFailure(w, s) PROVE LogInv'
    BY <1>0, <2>10 DEF ClassifyFailure
  <2>11. CASE Terminalize(w, "FAILED")
    BY <1>0, <2>11 DEF Terminalize
  <2>12. CASE RecoverAborted(w)
    <3>1. /\ epoch \in Nat /\ epoch' = epoch + 1 /\ UNCHANGED <<accepted, history>>
          /\ \A v \in Workers : handle'[v] = IF v = w THEN epoch + 1 ELSE handle[v]
      BY <2>12 DEF RecoverAborted, TakeLease, NextEpoch
    <3>2. \A i \in 1..Len(history) : history[i].epoch \in Nat /\ history[i].epoch <= epoch
      BY RowTypes
    <3>3. CheckpointLog'
      BY <1>00, <3>1
    <3>4. \A i \in 1..Len(history') : history'[i].epoch <= epoch'
      BY <3>1, <3>2
    <3>5. \A i \in 1..Len(history'), v \in Workers :
             history'[i].epoch = handle'[v] => history'[i].by = v
      BY <3>1, <3>2
    <3> QED
      BY <3>3, <3>4, <3>5
  <2> QED
    BY <1>4, <2>1, <2>2, <2>3, <2>4, <2>5, <2>6, <2>7, <2>8, <2>9, <2>10, <2>11, <2>12 DEF WorkerStep, AcceptCheckpoint
<1>5. ASSUME NEW r \in Reconcilers, ReconcilerStep(r) PROVE LogInv'
  <2>1. CASE ReconcileSelect(r)
    BY <2>1 DEF ReconcileSelect
  <2>2. CASE ReconcileInterrupt(r)
    BY <2>2 DEF ReconcileInterrupt
  <2>3. CASE ReconcileSkip(r)
    BY <2>3 DEF ReconcileSkip
  <2> QED
    BY <1>5, <2>1, <2>2, <2>3 DEF ReconcilerStep
<1>6. CASE UNCHANGED storeVars
  BY <1>6 DEF storeVars
<1> QED
  BY <1>1, <1>2, <1>3, <1>4, <1>5, <1>6 DEF Next

(* The status agrees with the run row. *)
LEMMA RowStep == TypeOK /\ HandleInv /\ RowInv /\ [Next]_storeVars => RowInv'
<1> SUFFICES ASSUME TypeOK /\ HandleInv /\ RowInv, [Next]_storeVars PROVE RowInv'
  OBVIOUS
<1> USE OwnerAssumption DEF TypeOK, HandleInv, RowInv, leaseVars, logVars
<1>1. CASE CoordinatorClaim
  BY <1>1 DEF CoordinatorClaim
<1>2. CASE CancelQueued
  BY <1>2 DEF CancelQueued
<1>3. CASE LeaseTimeout
  BY <1>3 DEF LeaseTimeout
<1>4. ASSUME NEW w \in Workers, WorkerStep(w) PROVE RowInv'
  <2>1. CASE Acquire(w)
    BY <2>1 DEF Acquire, Renewed
  <2>2. CASE Recover(w)
    BY <2>2 DEF Recover, TakeLease, Renewed, NextEpoch
  <2>3. CASE Heartbeat(w)
    BY <2>3 DEF Heartbeat, Renewed, Fence
  <2>4. CASE Release(w)
    BY <2>4 DEF Release, Released, Fence
  <2>5. CASE Leave(w)
    BY <2>5 DEF Leave
  <2>6. CASE SetRecoveryClassification(w, "interrupted")
    BY <2>6 DEF SetRecoveryClassification, Fence, RecoverableClasses
  <2>7. ASSUME NEW cp \in Checkpoints, NEW a \in Artifacts, AcceptNext(w, cp, a) PROVE RowInv'
    BY <2>7 DEF AcceptNext, Fence
  <2>8. ASSUME NEW cp \in Checkpoints, NEW a \in Artifacts, AcceptAgain(w, cp, a) PROVE RowInv'
    BY <2>8 DEF AcceptAgain, storeVars
  <2>9. ASSUME NEW s \in ServiceTargets, TransitionTo(w, s) PROVE RowInv'
    BY <2>9 DEF TransitionTo, Fence, ServiceTargets
  <2>10. ASSUME NEW s \in {"BLOCKED", "FAILED"}, ClassifyFailure(w, s) PROVE RowInv'
    BY <2>10 DEF ClassifyFailure, Fence
  <2>11. CASE Terminalize(w, "FAILED")
    BY <2>11 DEF Terminalize, Fence, Terminal
  <2>12. CASE RecoverAborted(w)
    BY <2>12 DEF RecoverAborted, TakeLease, Renewed, NextEpoch, Aborts
  <2> QED
    BY <1>4, <2>1, <2>2, <2>3, <2>4, <2>5, <2>6, <2>7, <2>8, <2>9, <2>10, <2>11, <2>12 DEF WorkerStep, AcceptCheckpoint
<1>5. ASSUME NEW r \in Reconcilers, ReconcilerStep(r) PROVE RowInv'
  <2>1. CASE ReconcileSelect(r)
    BY <2>1 DEF ReconcileSelect
  <2>2. CASE ReconcileInterrupt(r)
    BY <2>2 DEF ReconcileInterrupt, StillStale, RecoverableClasses, Live
  <2>3. CASE ReconcileSkip(r)
    BY <2>3 DEF ReconcileSkip
  <2> QED
    BY <1>5, <2>1, <2>2, <2>3 DEF ReconcilerStep
<1>6. CASE UNCHANGED storeVars
  BY <1>6 DEF storeVars
<1> QED
  BY <1>1, <1>2, <1>3, <1>4, <1>5, <1>6 DEF Next

-----------------------------------------------------------------------------
(* The action properties of DurableStore, as step predicates. *)

TerminalStable == status \in Terminal => status' = status

FencedStays ==
    \A w \in Workers :
        handle[w] # 0 /\ ~Fence(w) /\ handle'[w] = handle[w] => ~Fence(w)'

LiveLeaseStays == status # "INTERRUPTED" /\ status' = "INTERRUPTED" => expiry # "live"

Progress ==
    /\ Len(history) <= Len(history')
    /\ \A i \in 1..Len(history) : history'[i] = history[i]
    /\ epoch <= epoch'
    /\ owner' # owner /\ owner' # NoOwner => epoch' = epoch + 1

(* No operation moves a task out of a terminal status. *)
LEMMA TerminalStep == TypeOK /\ [Next]_storeVars => TerminalStable
<1> SUFFICES ASSUME TypeOK, [Next]_storeVars PROVE TerminalStable
  OBVIOUS
<1> USE DEF TerminalStable, leaseVars, logVars
<1>1. CASE CoordinatorClaim
  BY <1>1 DEF CoordinatorClaim
<1>2. CASE CancelQueued
  BY <1>2 DEF CancelQueued, Terminal
<1>3. CASE LeaseTimeout
  BY <1>3 DEF LeaseTimeout
<1>4. ASSUME NEW w \in Workers, WorkerStep(w) PROVE TerminalStable
  <2>1. CASE Acquire(w)
    BY <2>1 DEF Acquire, Live, Terminal
  <2>2. CASE Recover(w)
    BY <2>2 DEF Recover, TakeLease, Terminal
  <2>3. CASE Heartbeat(w)
    BY <2>3 DEF Heartbeat
  <2>4. CASE Release(w)
    BY <2>4 DEF Release
  <2>5. CASE Leave(w)
    BY <2>5 DEF Leave
  <2>6. CASE SetRecoveryClassification(w, "interrupted")
    BY <2>6 DEF SetRecoveryClassification
  <2>7. ASSUME NEW cp \in Checkpoints, NEW a \in Artifacts, AcceptNext(w, cp, a) PROVE TerminalStable
    BY <2>7 DEF AcceptNext
  <2>8. ASSUME NEW cp \in Checkpoints, NEW a \in Artifacts, AcceptAgain(w, cp, a) PROVE TerminalStable
    BY <2>8 DEF AcceptAgain, storeVars
  <2>9. ASSUME NEW s \in ServiceTargets, TransitionTo(w, s) PROVE TerminalStable
    BY <2>9, TransitionRulesTable DEF TransitionTo
  <2>10. ASSUME NEW s \in {"BLOCKED", "FAILED"}, ClassifyFailure(w, s) PROVE TerminalStable
    BY <2>10 DEF ClassifyFailure
  <2>11. CASE Terminalize(w, "FAILED")
    BY <2>11 DEF Terminalize
  <2>12. CASE RecoverAborted(w)
    BY <2>12 DEF RecoverAborted, TakeLease, Terminal
  <2> QED
    BY <1>4, <2>1, <2>2, <2>3, <2>4, <2>5, <2>6, <2>7, <2>8, <2>9, <2>10, <2>11, <2>12 DEF WorkerStep, AcceptCheckpoint
<1>5. ASSUME NEW r \in Reconcilers, ReconcilerStep(r) PROVE TerminalStable
  <2>1. CASE ReconcileSelect(r)
    BY <2>1 DEF ReconcileSelect
  <2>2. CASE ReconcileInterrupt(r)
    BY <2>2 DEF ReconcileInterrupt, StillStale, Live, Terminal
  <2>3. CASE ReconcileSkip(r)
    BY <2>3 DEF ReconcileSkip
  <2> QED
    BY <1>5, <2>1, <2>2, <2>3 DEF ReconcilerStep
<1>6. CASE UNCHANGED storeVars
  BY <1>6 DEF storeVars
<1> QED
  BY <1>1, <1>2, <1>3, <1>4, <1>5, <1>6 DEF Next

(* No operation lets a fenced handle pass again. *)
LEMMA FencedStep == TypeOK /\ HandleInv /\ [Next]_storeVars => FencedStays
<1> SUFFICES ASSUME TypeOK /\ HandleInv, [Next]_storeVars PROVE FencedStays
  OBVIOUS
<1> USE OwnerAssumption DEF TypeOK, FencedStays, Fence, leaseVars, logVars
<1>1. CASE CoordinatorClaim
  BY <1>1 DEF CoordinatorClaim
<1>2. CASE CancelQueued
  BY <1>2 DEF CancelQueued
<1>3. CASE LeaseTimeout
  BY <1>3 DEF LeaseTimeout
<1>4. ASSUME NEW w \in Workers, WorkerStep(w) PROVE FencedStays
  <2>1. CASE Acquire(w)
    BY <2>1 DEF Acquire, HandleInv
  <2>2. CASE Recover(w)
    BY <2>2 DEF Recover, TakeLease, NextEpoch, HandleInv
  <2>3. CASE Heartbeat(w)
    BY <2>3 DEF Heartbeat
  <2>4. CASE Release(w)
    BY <2>4 DEF Release
  <2>5. CASE Leave(w)
    BY <2>5 DEF Leave
  <2>6. CASE SetRecoveryClassification(w, "interrupted")
    BY <2>6 DEF SetRecoveryClassification
  <2>7. ASSUME NEW cp \in Checkpoints, NEW a \in Artifacts, AcceptNext(w, cp, a) PROVE FencedStays
    BY <2>7 DEF AcceptNext
  <2>8. ASSUME NEW cp \in Checkpoints, NEW a \in Artifacts, AcceptAgain(w, cp, a) PROVE FencedStays
    BY <2>8 DEF AcceptAgain, storeVars
  <2>9. ASSUME NEW s \in ServiceTargets, TransitionTo(w, s) PROVE FencedStays
    BY <2>9 DEF TransitionTo
  <2>10. ASSUME NEW s \in {"BLOCKED", "FAILED"}, ClassifyFailure(w, s) PROVE FencedStays
    BY <2>10 DEF ClassifyFailure
  <2>11. CASE Terminalize(w, "FAILED")
    BY <2>11 DEF Terminalize
  <2>12. CASE RecoverAborted(w)
    BY <2>12 DEF RecoverAborted, TakeLease, NextEpoch, HandleInv
  <2> QED
    BY <1>4, <2>1, <2>2, <2>3, <2>4, <2>5, <2>6, <2>7, <2>8, <2>9, <2>10, <2>11, <2>12 DEF WorkerStep, AcceptCheckpoint
<1>5. ASSUME NEW r \in Reconcilers, ReconcilerStep(r) PROVE FencedStays
  <2>1. CASE ReconcileSelect(r)
    BY <2>1 DEF ReconcileSelect
  <2>2. CASE ReconcileInterrupt(r)
    BY <2>2 DEF ReconcileInterrupt
  <2>3. CASE ReconcileSkip(r)
    BY <2>3 DEF ReconcileSkip
  <2> QED
    BY <1>5, <2>1, <2>2, <2>3 DEF ReconcilerStep
<1>6. CASE UNCHANGED storeVars
  BY <1>6 DEF storeVars
<1> QED
  BY <1>1, <1>2, <1>3, <1>4, <1>5, <1>6 DEF Next

(* Only a reconciler whose pass found the lease still due interrupts. *)
LEMMA LiveLeaseStep == TypeOK /\ RowInv /\ [Next]_storeVars => LiveLeaseStays
<1> SUFFICES ASSUME TypeOK /\ RowInv, [Next]_storeVars PROVE LiveLeaseStays
  OBVIOUS
<1> USE DEF TypeOK, LiveLeaseStays, leaseVars, logVars
<1>1. CASE CoordinatorClaim
  BY <1>1 DEF CoordinatorClaim
<1>2. CASE CancelQueued
  BY <1>2 DEF CancelQueued
<1>3. CASE LeaseTimeout
  BY <1>3 DEF LeaseTimeout
<1>4. ASSUME NEW w \in Workers, WorkerStep(w) PROVE LiveLeaseStays
  <2>1. CASE Acquire(w)
    BY <2>1 DEF Acquire
  <2>2. CASE Recover(w)
    BY <2>2 DEF Recover, TakeLease
  <2>3. CASE Heartbeat(w)
    BY <2>3 DEF Heartbeat
  <2>4. CASE Release(w)
    BY <2>4 DEF Release
  <2>5. CASE Leave(w)
    BY <2>5 DEF Leave
  <2>6. CASE SetRecoveryClassification(w, "interrupted")
    BY <2>6 DEF SetRecoveryClassification
  <2>7. ASSUME NEW cp \in Checkpoints, NEW a \in Artifacts, AcceptNext(w, cp, a) PROVE LiveLeaseStays
    BY <2>7 DEF AcceptNext
  <2>8. ASSUME NEW cp \in Checkpoints, NEW a \in Artifacts, AcceptAgain(w, cp, a) PROVE LiveLeaseStays
    BY <2>8 DEF AcceptAgain, storeVars
  <2>9. ASSUME NEW s \in ServiceTargets, TransitionTo(w, s) PROVE LiveLeaseStays
    BY <2>9 DEF TransitionTo, ServiceTargets
  <2>10. ASSUME NEW s \in {"BLOCKED", "FAILED"}, ClassifyFailure(w, s) PROVE LiveLeaseStays
    BY <2>10 DEF ClassifyFailure
  <2>11. CASE Terminalize(w, "FAILED")
    BY <2>11 DEF Terminalize
  <2>12. CASE RecoverAborted(w)
    BY <2>12 DEF RecoverAborted, TakeLease
  <2> QED
    BY <1>4, <2>1, <2>2, <2>3, <2>4, <2>5, <2>6, <2>7, <2>8, <2>9, <2>10, <2>11, <2>12 DEF WorkerStep, AcceptCheckpoint
<1>5. ASSUME NEW r \in Reconcilers, ReconcilerStep(r) PROVE LiveLeaseStays
  <2>1. CASE ReconcileSelect(r)
    BY <2>1 DEF ReconcileSelect
  <2>2. CASE ReconcileInterrupt(r)
    BY <2>2 DEF ReconcileInterrupt, StillStale, RowInv
  <2>3. CASE ReconcileSkip(r)
    BY <2>3 DEF ReconcileSkip
  <2> QED
    BY <1>5, <2>1, <2>2, <2>3 DEF ReconcilerStep
<1>6. CASE UNCHANGED storeVars
  BY <1>6 DEF storeVars
<1> QED
  BY <1>1, <1>2, <1>3, <1>4, <1>5, <1>6 DEF Next

(* The log only grows and every new holder comes with a new epoch. *)
LEMMA ProgressStep == TypeOK /\ [Next]_storeVars => Progress
<1> SUFFICES ASSUME TypeOK, [Next]_storeVars PROVE Progress
  OBVIOUS
<1>a. Len(history) \in Nat
  BY RowTypes
<1> USE <1>a DEF TypeOK, Progress, leaseVars, logVars
<1>1. CASE CoordinatorClaim
  BY <1>1 DEF CoordinatorClaim
<1>2. CASE CancelQueued
  BY <1>2 DEF CancelQueued
<1>3. CASE LeaseTimeout
  BY <1>3 DEF LeaseTimeout
<1>4. ASSUME NEW w \in Workers, WorkerStep(w) PROVE Progress
  <2>1. CASE Acquire(w)
    BY <2>1 DEF Acquire
  <2>2. CASE Recover(w)
    BY <2>2 DEF Recover, TakeLease, NextEpoch
  <2>3. CASE Heartbeat(w)
    BY <2>3 DEF Heartbeat
  <2>4. CASE Release(w)
    BY <2>4 DEF Release
  <2>5. CASE Leave(w)
    BY <2>5 DEF Leave
  <2>6. CASE SetRecoveryClassification(w, "interrupted")
    BY <2>6 DEF SetRecoveryClassification
  <2>7. ASSUME NEW cp \in Checkpoints, NEW a \in Artifacts, AcceptNext(w, cp, a) PROVE Progress
  <3>1. /\ Len(history) \in Nat /\ Len(history') = Len(history) + 1
          /\ \A i \in 1..Len(history) : history'[i] = history[i]
      BY <2>7, AppendRow, RowTypes
    <3> QED
      BY <2>7, <3>1 DEF AcceptNext
  <2>8. ASSUME NEW cp \in Checkpoints, NEW a \in Artifacts, AcceptAgain(w, cp, a) PROVE Progress
    BY <2>8 DEF AcceptAgain, storeVars
  <2>9. ASSUME NEW s \in ServiceTargets, TransitionTo(w, s) PROVE Progress
    BY <2>9 DEF TransitionTo
  <2>10. ASSUME NEW s \in {"BLOCKED", "FAILED"}, ClassifyFailure(w, s) PROVE Progress
    BY <2>10 DEF ClassifyFailure
  <2>11. CASE Terminalize(w, "FAILED")
    BY <2>11 DEF Terminalize
  <2>12. CASE RecoverAborted(w)
    BY <2>12 DEF RecoverAborted, TakeLease, NextEpoch
  <2> QED
    BY <1>4, <2>1, <2>2, <2>3, <2>4, <2>5, <2>6, <2>7, <2>8, <2>9, <2>10, <2>11, <2>12 DEF WorkerStep, AcceptCheckpoint
<1>5. ASSUME NEW r \in Reconcilers, ReconcilerStep(r) PROVE Progress
  <2>1. CASE ReconcileSelect(r)
    BY <2>1 DEF ReconcileSelect
  <2>2. CASE ReconcileInterrupt(r)
    BY <2>2 DEF ReconcileInterrupt
  <2>3. CASE ReconcileSkip(r)
    BY <2>3 DEF ReconcileSkip
  <2> QED
    BY <1>5, <2>1, <2>2, <2>3 DEF ReconcilerStep
<1>6. CASE UNCHANGED storeVars
  BY <1>6 DEF storeVars
<1> QED
  BY <1>1, <1>2, <1>3, <1>4, <1>5, <1>6 DEF Next

-----------------------------------------------------------------------------
(* The inductive invariant holds of a fresh task. *)
LEMMA StoreInit == Init => StoreInv
<1> SUFFICES ASSUME Init PROVE StoreInv
  OBVIOUS
<1>1. TypeOK
  <2>1. epoch \in 0..MaxEpoch /\ handle \in [Workers -> 0..MaxEpoch] /\ accepted \in -1..4
    BY EpochAssumption DEF Init
  <2>2. history \in Seq(CheckpointRows)
    BY DEF Init
  <2>3. /\ status \in Statuses /\ claimed \in BOOLEAN /\ owner \in Owners \cup {NoOwner}
        /\ expiry \in {"none", "live", "expired"} /\ recov \in RecoveryClasses
        /\ pass \in [Reconcilers -> {"idle", "due", "renewed"}]
    BY DEF Init, Statuses, RecoveryClasses
  <2> QED
    BY <2>1, <2>2, <2>3 DEF TypeOK
<1>2. HandleInv /\ LogInv /\ RowInv
  BY DEF Init, HandleInv, LogInv, CheckpointLog, RowInv
<1> QED
  BY <1>1, <1>2 DEF StoreInv

(* The inductive invariant holds of every behaviour of the store. *)
THEOREM StoreInvariant == StoreSpec => []StoreInv
<1>1. Init => StoreInv
  BY StoreInit
<1>2. StoreInv /\ [Next]_storeVars => StoreInv'
  BY TypeStep, HandleStep, LogStep, RowStep DEF StoreInv
<1> QED
  BY <1>1, <1>2, PTL DEF StoreSpec

(* The types of the store's rows, handles and reconciler passes are kept. *)
THEOREM StoreTypeCorrect == StoreSpec => []TypeOK
<1>1. StoreInv => TypeOK
  BY DEF StoreInv
<1> QED
  BY <1>1, StoreInvariant, PTL

(* However many resumers share an owner name, at most one passes the fence of  *)
(* the run (_fenced_validate_lease).                                           *)
THEOREM AtMostOneHolder == StoreSpec => []SingleHolder
<1>1. StoreInv => SingleHolder
  BY DEF StoreInv, HandleInv, SingleHolder, Fence
<1> QED
  BY <1>1, StoreInvariant, PTL

(* durable_checkpoint_history has one row per rank, in order, each written by   *)
(* the only worker of its epoch (_accept_checkpoint).                           *)
THEOREM LogIsSound == StoreSpec => []CheckpointLog
<1>1. StoreInv => CheckpointLog
  BY DEF StoreInv, LogInv
<1> QED
  BY <1>1, StoreInvariant, PTL

(* An interrupted task has no writer and is always acceptable to               *)
(* _recover_durable_lease.                                                      *)
THEOREM InterruptedTaskIsResumable == StoreSpec => []InterruptedIsResumable
<1>1. StoreInv => InterruptedIsResumable
  BY OwnerAssumption DEF StoreInv, RowInv, InterruptedIsResumable, Fence
<1> QED
  BY <1>1, StoreInvariant, PTL

(* cancel_queued_task wins only against a task that was never claimed or run. *)
THEOREM CancelledTaskNeverRan == StoreSpec => []CancelledNeverRan
<1>1. StoreInv => CancelledNeverRan
  BY DEF StoreInv, RowInv, CancelledNeverRan
<1> QED
  BY <1>1, StoreInvariant, PTL

(* No operation of the store, fenced or not, leaves a terminal status. *)
THEOREM TerminalStatusIsFinal == StoreSpec => TerminalIsFinal
<1>1. StoreInv /\ [Next]_storeVars => [TerminalStable]_storeVars
  BY TerminalStep DEF StoreInv
<1> QED
  BY <1>1, StoreInvariant, PTL DEF StoreSpec, TerminalIsFinal, TerminalStable

(* A lost lease never becomes valid again, whoever takes it over. *)
THEOREM FencedHandleStaysFenced == StoreSpec => FencedForever
<1>1. StoreInv /\ [Next]_storeVars => [FencedStays]_storeVars
  BY FencedStep DEF StoreInv
<1> QED
  BY <1>1, StoreInvariant, PTL DEF StoreSpec, FencedForever, FencedStays

(* _reconcile_expired_runs respects a heartbeat that came in after its SELECT. *)
THEOREM RenewedLeaseIsKept == StoreSpec => LiveLeaseIsKept
<1>1. StoreInv /\ [Next]_storeVars => [LiveLeaseStays]_storeVars
  BY LiveLeaseStep DEF StoreInv
<1> QED
  BY <1>1, StoreInvariant, PTL DEF StoreSpec, LiveLeaseIsKept, LiveLeaseStays

(* Accepted checkpoints are permanent and epochs strictly fence holders. *)
THEOREM DurableStateProgresses == StoreSpec => DurableProgress
<1>1. StoreInv /\ [Next]_storeVars => [Progress]_storeVars
  BY ProgressStep DEF StoreInv
<1> QED
  BY <1>1, StoreInvariant, PTL DEF StoreSpec, DurableProgress, Progress

-----------------------------------------------------------------------------
(* The log of FencedLog, read off the history. *)
View(row) == [rank |-> row.cp, by |-> row.by, term |-> row.epoch]

Holders == {w \in Workers : Fence(w)}
LogView == [i \in 1..Len(history) |-> View(history[i])]

(* An accepted checkpoint appends exactly one row to the log's view. *)
LEMMA ViewAppend ==
  ASSUME NEW w \in Workers, NEW cp \in Checkpoints, NEW a \in Artifacts,
         TypeOK, CheckpointLog, AcceptNext(w, cp, a)
  PROVE  LogView' = Append(LogView, [rank |-> Len(LogView), by |-> w, term |-> epoch])
<1> DEFINE n == Len(history)
           r == [rank |-> Len(LogView), by |-> w, term |-> epoch]
<1>1. n \in Nat /\ Len(history') = n + 1 /\ \A i \in 1..n : history'[i] = history[i]
  BY AppendRow, RowTypes
<1>2. LogView \in Seq({View(history[i]) : i \in 1..n}) /\ Len(LogView) = n
  BY <1>1 DEF LogView
<1>3. cp = n
  BY <1>1 DEF CheckpointLog, AcceptNext
<1>4. View(history'[n + 1]) = r
  BY <1>2, <1>3, AppendRow DEF View
<1>5. LogView' = [i \in 1..(n + 1) |-> IF i <= n THEN View(history[i]) ELSE r]
  <2>1. LogView' = [i \in 1..(n + 1) |-> View(history'[i])]
    BY <1>1 DEF LogView, View
  <2>2. ASSUME NEW i \in 1..(n + 1)
        PROVE  View(history'[i]) = IF i <= n THEN View(history[i]) ELSE r
    BY <1>1, <1>4
  <2> QED
    BY <2>1, <2>2
<1>6. Append(LogView, r) = [i \in 1..(n + 1) |-> IF i <= n THEN LogView[i] ELSE r]
  BY <1>1, <1>2
<1>7. \A i \in 1..n : LogView[i] = View(history[i])
  BY DEF LogView
<1> QED
  BY <1>1, <1>5, <1>6, <1>7

(* What a step is to the fenced log when it changes none of its parts. *)
Stutters == Holders' = Holders /\ epoch' = epoch /\ LogView' = LogView

(* A lease that changes hands is a grant of the next term. *)
LEMMA TakeIsGrant ==
  ASSUME NEW w \in Workers, TypeOK, HandleInv,
         handle[w] = 0, owner' = OwnerOf[w], epoch' = epoch + 1,
         handle' = [handle EXCEPT ![w] = epoch + 1], UNCHANGED logVars
  PROVE  Fenced!Grant(w)
<1>1. Holders' = {w}
  <2>1. Fence(w)'
    BY DEF Fence, TypeOK
  <2>2. ASSUME NEW v \in Workers, v # w PROVE ~Fence(v)'
    BY <2>2 DEF Fence, TypeOK, HandleInv
  <2> QED
    BY <2>1, <2>2 DEF Holders
<1>2. LogView' = LogView
  BY DEF LogView, View, logVars
<1> QED
  BY <1>1, <1>2 DEF Fenced!Grant, Holders, LogView, View

(* A worker that stops passing the fence, alone, drops the log or was fenced    *)
(* before.                                                                      *)
LEMMA LoseIsDrop ==
  ASSUME TypeOK, HandleInv, epoch' = epoch, UNCHANGED logVars,
         \/ Holders' = {}
         \/ Holders' = Holders
  PROVE  Fenced!Drop \/ Stutters
<1>1. LogView' = LogView
  BY DEF LogView, View, logVars
<1> QED
  BY <1>1 DEF Fenced!Drop, Stutters, Holders, LogView, View

(* Every step of the store is a step of the fenced log, or none. *)
LEMMA LogStepImplements ==
  StoreInv /\ [Next]_storeVars => Fenced!LogNext \/ Stutters
<1> SUFFICES ASSUME StoreInv, [Next]_storeVars PROVE Fenced!LogNext \/ Stutters
  OBVIOUS
<1>a. TypeOK /\ HandleInv /\ CheckpointLog
  BY DEF StoreInv, LogInv
<1>b. UNCHANGED <<owner, epoch, handle, history>> => Stutters
  BY DEF Stutters, Holders, Fence, LogView, View
<1>c. (\E w \in Workers : Fenced!Grant(w) \/ Fenced!Write(w)) \/ Fenced!Drop => Fenced!LogNext
  BY DEF Fenced!LogNext
<1>1. CASE CoordinatorClaim
  BY <1>1, <1>b DEF CoordinatorClaim, leaseVars, logVars
<1>2. CASE CancelQueued
  BY <1>2, <1>b DEF CancelQueued, leaseVars, logVars
<1>3. CASE LeaseTimeout
  BY <1>3, <1>b DEF LeaseTimeout, logVars
<1>4. ASSUME NEW w \in Workers, WorkerStep(w) PROVE Fenced!LogNext \/ Stutters
  <2>1. CASE Acquire(w)
    <3>1. epoch' = epoch + 1 /\ handle' = [handle EXCEPT ![w] = epoch + 1]
      BY <2>1 DEF Acquire
    <3> QED
      BY <1>a, <1>c, <2>1, <3>1, TakeIsGrant DEF Acquire
  <2>2. CASE Recover(w)
    BY <1>a, <1>c, <2>2, TakeIsGrant DEF Recover, TakeLease, NextEpoch
  <2>3. CASE Heartbeat(w)
    BY <1>b, <2>3 DEF Heartbeat, logVars
  <2>4. CASE Release(w)
    <3>1. Holders' = {}
      BY <2>4, OwnerAssumption DEF Release, Holders, Fence
    <3> QED
      BY <1>a, <1>c, <2>4, <3>1, LoseIsDrop DEF Release
  <2>5. CASE Leave(w)
    <3>1. \A v \in Workers : v # w => Fence(v)' = Fence(v)
      BY <1>a, <2>5 DEF Leave, Fence, leaseVars, TypeOK
    <3>2. ~Fence(w)'
      BY <1>a, <2>5 DEF Leave, Fence, leaseVars, TypeOK
    <3>3. CASE Fence(w)
      <4>1. \A v \in Workers : v # w => ~Fence(v)
        BY <1>a, <3>3 DEF Fence, HandleInv
      <4> QED
        BY <1>a, <1>c, <2>5, <3>1, <3>2, <4>1, LoseIsDrop DEF Leave, leaseVars, Holders
    <3>4. CASE ~Fence(w)
      <4>1. Holders' = Holders
        BY <3>1, <3>2, <3>4 DEF Holders
      <4> QED
        BY <1>a, <1>c, <2>5, <4>1, LoseIsDrop DEF Leave, leaseVars
    <3> QED
      BY <3>3, <3>4
  <2>6. CASE SetRecoveryClassification(w, "interrupted")
    BY <1>b, <2>6 DEF SetRecoveryClassification, logVars
  <2>7. ASSUME NEW cp \in Checkpoints, NEW a \in Artifacts, AcceptNext(w, cp, a)
        PROVE  Fenced!LogNext
    <3>1. LogView' = Append(LogView, [rank |-> Len(LogView), by |-> w, term |-> epoch])
      BY <1>a, <2>7, ViewAppend
    <3>2. w \in Holders /\ Holders' = Holders /\ epoch' = epoch
      BY <2>7 DEF AcceptNext, Holders, Fence, leaseVars
    <3>3. Fenced!Write(w)
      BY <3>1, <3>2 DEF Fenced!Write, Holders, LogView, View
    <3> QED
      BY <1>c, <3>3
  <2>8. ASSUME NEW cp \in Checkpoints, NEW a \in Artifacts, AcceptAgain(w, cp, a)
        PROVE  Stutters
    BY <1>b, <2>8 DEF AcceptAgain, storeVars
  <2>9. ASSUME NEW s \in ServiceTargets, TransitionTo(w, s) PROVE Stutters
    BY <1>b, <2>9 DEF TransitionTo, leaseVars, logVars
  <2>10. ASSUME NEW s \in {"BLOCKED", "FAILED"}, ClassifyFailure(w, s) PROVE Stutters
    BY <1>b, <2>10 DEF ClassifyFailure, leaseVars, logVars
  <2>11. CASE Terminalize(w, "FAILED")
    BY <1>b, <2>11 DEF Terminalize, leaseVars, logVars
  <2>12. CASE RecoverAborted(w)
    BY <1>a, <1>c, <2>12, TakeIsGrant DEF RecoverAborted, TakeLease, NextEpoch
  <2> QED
    BY <1>4, <2>1, <2>2, <2>3, <2>4, <2>5, <2>6, <2>7, <2>8, <2>9, <2>10, <2>11, <2>12
       DEF WorkerStep, AcceptCheckpoint
<1>5. ASSUME NEW r \in Reconcilers, ReconcilerStep(r) PROVE Fenced!LogNext \/ Stutters
  <2>1. CASE ReconcileSelect(r)
    BY <1>b, <2>1 DEF ReconcileSelect, leaseVars, logVars
  <2>2. CASE ReconcileInterrupt(r)
    <3>1. Holders' = {}
      BY <2>2, OwnerAssumption DEF ReconcileInterrupt, Holders, Fence
    <3> QED
      BY <1>a, <1>c, <2>2, <3>1, LoseIsDrop DEF ReconcileInterrupt
  <2>3. CASE ReconcileSkip(r)
    BY <1>b, <2>3 DEF ReconcileSkip, leaseVars, logVars
  <2> QED
    BY <1>5, <2>1, <2>2, <2>3 DEF ReconcilerStep
<1>6. CASE UNCHANGED storeVars
  BY <1>6, <1>b DEF storeVars
<1> QED
  BY <1>1, <1>2, <1>3, <1>4, <1>5, <1>6 DEF Next

(* The store implements the fenced log, for every number of workers,            *)
(* reconcilers and epochs and every assignment of owner names.                  *)
THEOREM StoreImplementsFencedLog == StoreSpec => FencedLogSpec
<1>1. Init => Fenced!LogInit
  BY DEF Init, Fenced!LogInit, Fence
<1>2. StoreInv /\ [Next]_storeVars => [Fenced!LogNext]_(Fenced!logVars)
  BY LogStepImplements DEF Stutters, Holders, LogView, View, Fenced!logVars
<1> QED
  BY <1>1, <1>2, StoreInvariant, PTL DEF StoreSpec, FencedLogSpec, Fenced!LogSpec
=============================================================================
