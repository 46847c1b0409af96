-------------------------- MODULE PublicationProofs --------------------------
(***************************************************************************)
(* Theorems about Publication, for any number of concurrent publish calls,   *)
(* request digests and faults.                                               *)
(*                                                                         *)
(* The invariant says what each call under way may rely on although others   *)
(* run beside it: every commit number in sight, in the row, at origin or in  *)
(* a call's memory, is 0 or HEAD; a clean worktree is what makes HEAD final; *)
(* and a call past its commit, its push or its pull request has left those   *)
(* behind.                                                                   *)
(***************************************************************************)
EXTENDS Publication, TLAPS

(* Labels a call reaches only after its rev-parse, its push, its pull request. *)
CommittedLabels == {"created", "push", "pushed", "listPr", "createPr", "checkPr", "complete"}
PushedLabels    == {"pushed", "listPr", "createPr", "checkPr", "complete",
                    "listAgain", "createAgain", "checkAgain", "completeAgain"}
PrLabels        == {"checkPr", "complete", "checkAgain", "completeAgain"}

(* The shared state: HEAD moves once, and everything refers to it. *)
SharedInv ==
    /\ head # 0 => ~dirty
    /\ row.commit \in {0, head}
    /\ remote \in {0, head}
    /\ row.status = "COMPLETE" => row.commit # 0 /\ remote # 0 /\ pr.open

(* One call: what it remembers is true, and what its label promises is so. *)
CallInv(c) ==
    /\ existing[c].commit \in {0, head}
    /\ record[c].commit \in {0, head}
    /\ commit_sha[c] \in {0, head}
    /\ pc[c] = "revParse" => head # 0
    /\ pc[c] \in CommittedLabels => commit_sha[c] # 0
    /\ pc[c] \in AgainLabels => existing[c].commit # 0
    /\ pc[c] \in PushedLabels => remote # 0
    /\ pc[c] \in PrLabels => pr.open

PubInv ==
    /\ PublicationTypeOK
    /\ SharedInv
    /\ \A c \in Callers : CallInv(c)

-----------------------------------------------------------------------------
(* The row a call remembers before it has read one is typed. *)
LEMMA NoRowTyped == NoRow \in Rows
    BY DEF NoRow, Rows

(* The type invariant in two parts, the locals of the calls and what they share; *)
(* a call that returns or raises keeps the first.                                *)
CallTypeOK ==
    /\ pc \in [Callers -> Labels]
    /\ existing \in [Callers -> Rows]
    /\ record \in [Callers -> Rows]
    /\ fresh \in [Callers -> BOOLEAN]
    /\ commit_sha \in [Callers -> Nat]

SharedTypeOK ==
    /\ row \in Rows
    /\ head \in Nat /\ remote \in Nat
    /\ dirty \in BOOLEAN /\ branch \in BOOLEAN /\ windowOpen \in BOOLEAN
    /\ pr \in [open : BOOLEAN, draft : BOOLEAN]
    /\ faults \in 0..MaxFaults

(* What a call writes into the row and opens as a pull request is typed. *)
LEMMA WrittenTyped ==
    /\ \A s \in PublicationStates, d \in Digests, n \in Nat, b \in BOOLEAN :
          [status |-> s, digest |-> d, commit |-> n, pr |-> b] \in Rows
    /\ \A o, d \in BOOLEAN : [open |-> o, draft |-> d] \in [open : BOOLEAN, draft : BOOLEAN]
    BY DEF Rows

(* A call that ends, or goes to its FAILED handler, leaves typed locals. *)
LEMMA ReturnTyped ==
    ASSUME PublicationTypeOK, NEW c \in Callers, Return(c) \/ Raise(c)
    PROVE  CallTypeOK'
<1>1. CASE Return(c)
    BY <1>1, NoRowTyped DEF Return, CallTypeOK, PublicationTypeOK, Labels
<1>2. CASE Goto(c, "failed") /\ UNCHANGED localVars
    BY <1>2 DEF Goto, localVars, CallTypeOK, PublicationTypeOK, Labels
<1> QED
    BY <1>1, <1>2 DEF Raise

(* Every step of publish, its failures and its surroundings keep the types. *)
LEMMA TypeStep == PublicationTypeOK /\ [Next]_vars => PublicationTypeOK'
<1> SUFFICES ASSUME PublicationTypeOK, [Next]_vars PROVE PublicationTypeOK'
    OBVIOUS
<1> USE RequestAssumption, FaultAssumption
<1> USE DEF PublicationTypeOK, Labels, TryLabels, AgainLabels, treeVars, githubVars, localVars
<1>1. ASSUME NEW c \in Callers, Publish(c) PROVE PublicationTypeOK'
    BY <1>1 DEF Publish, Goto
<1>2. ASSUME NEW c \in Callers, Authorize(c) PROVE PublicationTypeOK'
  <2>1. CallTypeOK'
      BY <1>2, ReturnTyped DEF CallTypeOK, Authorize, Goto, Continues
  <2>2. SharedTypeOK'
      BY <1>2 DEF SharedTypeOK, Authorize
  <2> QED
      BY <2>1, <2>2 DEF SharedTypeOK, CallTypeOK
<1>3. ASSUME NEW c \in Callers, Inspect(c) PROVE PublicationTypeOK'
  <2>1. CallTypeOK'
      BY <1>3, ReturnTyped DEF CallTypeOK, Inspect, Goto
  <2>2. SharedTypeOK'
      BY <1>3 DEF SharedTypeOK, Inspect
  <2> QED
      BY <2>1, <2>2 DEF SharedTypeOK, CallTypeOK
<1>4. ASSUME NEW c \in Callers, WritePending(c) PROVE PublicationTypeOK'
  <2>1. CallTypeOK'
      BY <1>4, ReturnTyped DEF CallTypeOK, WritePending, Goto
  <2>2. row' \in Rows
    <3>1. CASE UpsertRefused(c)
        BY <1>4, <3>1 DEF WritePending
    <3>2. CASE ~UpsertRefused(c)
      <4>1. row' = [status |-> "PENDING", digest |-> RequestOf[c], commit |-> 0, pr |-> FALSE]
          BY <1>4, <3>2 DEF WritePending, Upsert
      <4>2. "PENDING" \in PublicationStates /\ RequestOf[c] \in Digests /\ 0 \in Nat
          BY DEF PublicationStates
      <4> QED
          BY <4>1, <4>2, WrittenTyped
    <3> QED
        BY <3>1, <3>2
  <2>3. UNCHANGED <<treeVars, githubVars, faults>>
      BY <1>4 DEF WritePending
  <2> QED
      BY <2>1, <2>2, <2>3 DEF SharedTypeOK, CallTypeOK
<1>5. ASSUME NEW c \in Callers, ReadBack(c) PROVE PublicationTypeOK'
    BY <1>5 DEF ReadBack
<1>6. ASSUME NEW c \in Callers, ReadBranch(c) PROVE PublicationTypeOK'
    BY <1>6 DEF ReadBranch, Goto, At
<1>7. ASSUME NEW c \in Callers, SwitchBranch(c) PROVE PublicationTypeOK'
  <2>1. CallTypeOK'
      BY <1>7, ReturnTyped DEF CallTypeOK, SwitchBranch, Goto, At
  <2>2. SharedTypeOK'
      BY <1>7 DEF SharedTypeOK, SwitchBranch
  <2> QED
      BY <2>1, <2>2 DEF SharedTypeOK, CallTypeOK
<1>8. ASSUME NEW c \in Callers, Stage(c) PROVE PublicationTypeOK'
  <2>1. CallTypeOK'
      BY <1>8, ReturnTyped DEF CallTypeOK, Stage, Goto, At
  <2>2. SharedTypeOK'
      BY <1>8 DEF SharedTypeOK, Stage
  <2> QED
      BY <2>1, <2>2 DEF SharedTypeOK, CallTypeOK
<1>9. ASSUME NEW c \in Callers, Commit(c) PROVE PublicationTypeOK'
  <2>1. CallTypeOK'
      BY <1>9, ReturnTyped DEF CallTypeOK, Commit, Goto, At
  <2>2. head' \in Nat
      BY <1>9 DEF Commit
  <2>3. dirty' \in BOOLEAN
      BY <1>9, Zenon DEF Commit
  <2>4. UNCHANGED <<row, branch, githubVars, faults>>
      BY <1>9 DEF Commit
  <2> QED
      BY <2>1, <2>2, <2>3, <2>4 DEF SharedTypeOK, CallTypeOK
<1>10. ASSUME NEW c \in Callers, RevParse(c) PROVE PublicationTypeOK'
    BY <1>10 DEF RevParse, Goto, At
<1>11. ASSUME NEW c \in Callers, WriteProgress(c) PROVE PublicationTypeOK'
    BY <1>11 DEF WriteProgress, Goto, At, Upsert, Rows, PublicationStates
<1>12. ASSUME NEW c \in Callers, HeadAgain(c) PROVE PublicationTypeOK'
  <2>1. CallTypeOK'
      BY <1>12, ReturnTyped DEF CallTypeOK, HeadAgain, Goto
  <2>2. SharedTypeOK'
      BY <1>12 DEF SharedTypeOK, HeadAgain
  <2> QED
      BY <2>1, <2>2 DEF SharedTypeOK, CallTypeOK
<1>13. ASSUME NEW c \in Callers, Push(c) PROVE PublicationTypeOK'
    BY <1>13 DEF Push, Goto, At
<1>14. ASSUME NEW c \in Callers, ListPr(c) PROVE PublicationTypeOK'
    BY <1>14 DEF ListPr, Goto, At
<1>15. ASSUME NEW c \in Callers, CreatePr(c) PROVE PublicationTypeOK'
  <2>1. CallTypeOK'
      BY <1>15, ReturnTyped DEF CallTypeOK, CreatePr, Goto
  <2>2. SharedTypeOK'
      BY <1>15, WrittenTyped DEF SharedTypeOK, CreatePr
  <2> QED
      BY <2>1, <2>2 DEF SharedTypeOK, CallTypeOK
<1>16. ASSUME NEW c \in Callers, CheckPr(c) PROVE PublicationTypeOK'
  <2>1. CallTypeOK'
      BY <1>16, ReturnTyped DEF CallTypeOK, CheckPr, Goto
  <2>2. SharedTypeOK'
      BY <1>16 DEF SharedTypeOK, CheckPr
  <2> QED
      BY <2>1, <2>2 DEF SharedTypeOK, CallTypeOK
<1>17. ASSUME NEW c \in Callers, Complete(c) PROVE PublicationTypeOK'
  <2>1. CallTypeOK'
      BY <1>17, ReturnTyped DEF CallTypeOK, Complete
  <2>2. SharedTypeOK'
      BY <1>17 DEF SharedTypeOK, Complete, Upsert, CompletedCommit, Rows, PublicationStates
  <2> QED
      BY <2>1, <2>2 DEF SharedTypeOK, CallTypeOK
<1>18. ASSUME NEW c \in Callers, WriteFailed(c) PROVE PublicationTypeOK'
  <2>1. CallTypeOK'
      BY <1>18, ReturnTyped DEF CallTypeOK, WriteFailed
  <2>2. SharedTypeOK'
      BY <1>18 DEF SharedTypeOK, WriteFailed, Upsert, Rows, PublicationStates
  <2> QED
      BY <2>1, <2>2 DEF SharedTypeOK, CallTypeOK
<1>19. ASSUME NEW c \in Callers, CommandFails(c) PROVE PublicationTypeOK'
  <2>1. CallTypeOK'
      BY <1>19, ReturnTyped DEF CallTypeOK, CommandFails, Goto
  <2>2. SharedTypeOK'
      BY <1>19 DEF SharedTypeOK, CommandFails
  <2> QED
      BY <2>1, <2>2 DEF SharedTypeOK, CallTypeOK
<1>20. CASE Crash
    BY <1>20, NoRowTyped DEF Crash
<1>21. CASE MarkReady
    BY <1>21 DEF MarkReady
<1>22. CASE CloseWindow
    BY <1>22 DEF CloseWindow
<1>23. CASE UNCHANGED vars
    BY <1>23 DEF vars
<1> QED
    BY <1>1, <1>2, <1>3, <1>4, <1>5, <1>6, <1>7, <1>8, <1>9, <1>10, <1>11, <1>12, <1>13, <1>14, <1>15, <1>16, <1>17, <1>18, <1>19, <1>20, <1>21, <1>22, <1>23 DEF Next, Call

(* The invariant holds at the start ... *)
LEMMA InvInit == Init => PubInv
<1> SUFFICES ASSUME Init PROVE PubInv
    OBVIOUS
<1>1. CallTypeOK
    BY NoRowTyped DEF Init, CallTypeOK, Labels
<1>2. SharedTypeOK
  <2>1. row \in Rows /\ head \in Nat /\ remote \in Nat /\ faults \in 0..MaxFaults
      BY NoRowTyped, FaultAssumption DEF Init
  <2>2. dirty \in BOOLEAN /\ branch \in BOOLEAN /\ windowOpen \in BOOLEAN
      BY Zenon DEF Init
  <2>3. pr \in [open : BOOLEAN, draft : BOOLEAN]
      BY WrittenTyped DEF Init
  <2> QED
      BY <2>1, <2>2, <2>3 DEF SharedTypeOK
<1>3. SharedInv /\ \A c \in Callers : CallInv(c)
    BY DEF Init, SharedInv, CallInv, NoRow, CommittedLabels, AgainLabels, PushedLabels, PrLabels
<1> QED
    BY <1>1, <1>2, <1>3 DEF PubInv, PublicationTypeOK, CallTypeOK, SharedTypeOK

(* ... and every step of one call keeps it, for the shared state, for that call  *)
(* and for the others, whose view of the worktree it must not falsify.           *)
LEMMA InvStep == PubInv /\ [Next]_vars => PubInv'
<1> SUFFICES ASSUME PubInv, [Next]_vars PROVE PubInv'
    OBVIOUS
<1> USE DEF PubInv, SharedInv, CallInv, CommittedLabels, PushedLabels, PrLabels,
            TryLabels, AgainLabels, NoRow, treeVars, githubVars, localVars
<1>0. PublicationTypeOK'
    BY TypeStep
<1>1. ASSUME NEW c \in Callers, Publish(c) PROVE SharedInv' /\ \A d \in Callers : CallInv(d)'
  <2>1. SharedInv'
      BY <1>1, <1>0 DEF Publish, Goto, PublicationTypeOK, Rows
  <2>2. ASSUME NEW d \in Callers PROVE CallInv(d)'
      BY <1>1, <1>0 DEF Publish, Goto, PublicationTypeOK, Rows
  <2> QED BY <2>1, <2>2
<1>2. ASSUME NEW c \in Callers, Authorize(c) PROVE SharedInv' /\ \A d \in Callers : CallInv(d)'
  <2>1. SharedInv'
      BY <1>2, <1>0 DEF Authorize, Goto, Return, Continues, PublicationTypeOK, Rows
  <2>2. ASSUME NEW d \in Callers PROVE CallInv(d)'
      BY <1>2, <1>0 DEF Authorize, Goto, Return, Continues, PublicationTypeOK, Rows
  <2> QED BY <2>1, <2>2
<1>3. ASSUME NEW c \in Callers, Inspect(c) PROVE SharedInv' /\ \A d \in Callers : CallInv(d)'
  <2>1. SharedInv'
      BY <1>3, <1>0 DEF Inspect, Goto, Return, PublicationTypeOK, Rows
  <2>2. ASSUME NEW d \in Callers PROVE CallInv(d)'
      BY <1>3, <1>0 DEF Inspect, Goto, Return, PublicationTypeOK, Rows
  <2> QED BY <2>1, <2>2
<1>4. ASSUME NEW c \in Callers, WritePending(c) PROVE SharedInv' /\ \A d \in Callers : CallInv(d)'
  <2>1. SharedInv'
      BY <1>4, <1>0 DEF WritePending, Goto, Return, Upsert, UpsertRefused, PublicationTypeOK, Rows
  <2>2. ASSUME NEW d \in Callers PROVE CallInv(d)'
      BY <1>4, <1>0 DEF WritePending, Goto, Return, Upsert, UpsertRefused, PublicationTypeOK, Rows
  <2> QED BY <2>1, <2>2
<1>5. ASSUME NEW c \in Callers, ReadBack(c) PROVE SharedInv' /\ \A d \in Callers : CallInv(d)'
  <2>1. SharedInv'
      BY <1>5, <1>0 DEF ReadBack, PublicationTypeOK, Rows
  <2>2. ASSUME NEW d \in Callers PROVE CallInv(d)'
      BY <1>5, <1>0 DEF ReadBack, PublicationTypeOK, Rows
  <2> QED BY <2>1, <2>2
<1>6. ASSUME NEW c \in Callers, ReadBranch(c) PROVE SharedInv' /\ \A d \in Callers : CallInv(d)'
  <2>1. SharedInv'
      BY <1>6, <1>0 DEF ReadBranch, Goto, At, PublicationTypeOK, Rows
  <2>2. ASSUME NEW d \in Callers PROVE CallInv(d)'
      BY <1>6, <1>0 DEF ReadBranch, Goto, At, PublicationTypeOK, Rows
  <2> QED BY <2>1, <2>2
<1>7. ASSUME NEW c \in Callers, SwitchBranch(c) PROVE SharedInv' /\ \A d \in Callers : CallInv(d)'
  <2>1. SharedInv'
      BY <1>7, <1>0 DEF SwitchBranch, Goto, At, Raise, Return, PublicationTypeOK, Rows
  <2>2. ASSUME NEW d \in Callers PROVE CallInv(d)'
      BY <1>7, <1>0 DEF SwitchBranch, Goto, At, Raise, Return, PublicationTypeOK, Rows
  <2> QED BY <2>1, <2>2
<1>8. ASSUME NEW c \in Callers, Stage(c) PROVE SharedInv' /\ \A d \in Callers : CallInv(d)'
  <2>1. SharedInv'
      BY <1>8, <1>0 DEF Stage, Goto, At, Raise, Return, PublicationTypeOK, Rows
  <2>2. ASSUME NEW d \in Callers PROVE CallInv(d)'
      BY <1>8, <1>0 DEF Stage, Goto, At, Raise, Return, PublicationTypeOK, Rows
  <2> QED BY <2>1, <2>2
<1>9. ASSUME NEW c \in Callers, Commit(c) PROVE SharedInv' /\ \A d \in Callers : CallInv(d)'
  <2>1. SharedInv'
      BY <1>9, <1>0 DEF Commit, Goto, At, Raise, Return, PublicationTypeOK, Rows
  <2>2. ASSUME NEW d \in Callers PROVE CallInv(d)'
      BY <1>9, <1>0 DEF Commit, Goto, At, Raise, Return, PublicationTypeOK, Rows
  <2> QED BY <2>1, <2>2
<1>10. ASSUME NEW c \in Callers, RevParse(c) PROVE SharedInv' /\ \A d \in Callers : CallInv(d)'
  <2>1. SharedInv'
      BY <1>10, <1>0 DEF RevParse, Goto, At, PublicationTypeOK, Rows
  <2>2. ASSUME NEW d \in Callers PROVE CallInv(d)'
      BY <1>10, <1>0 DEF RevParse, Goto, At, PublicationTypeOK, Rows
  <2> QED BY <2>1, <2>2
<1>11. ASSUME NEW c \in Callers, WriteProgress(c) PROVE SharedInv' /\ \A d \in Callers : CallInv(d)'
  <2>1. SharedInv'
      BY <1>11, <1>0 DEF WriteProgress, Goto, At, Upsert, PublicationTypeOK, Rows
  <2>2. ASSUME NEW d \in Callers PROVE CallInv(d)'
      BY <1>11, <1>0 DEF WriteProgress, Goto, At, Upsert, PublicationTypeOK, Rows
  <2> QED BY <2>1, <2>2
<1>12. ASSUME NEW c \in Callers, HeadAgain(c) PROVE SharedInv' /\ \A d \in Callers : CallInv(d)'
  <2>1. SharedInv'
      BY <1>12, <1>0 DEF HeadAgain, Goto, Return, PublicationTypeOK, Rows
  <2>2. ASSUME NEW d \in Callers PROVE CallInv(d)'
      BY <1>12, <1>0 DEF HeadAgain, Goto, Return, PublicationTypeOK, Rows
  <2> QED BY <2>1, <2>2
<1>13. ASSUME NEW c \in Callers, Push(c) PROVE SharedInv' /\ \A d \in Callers : CallInv(d)'
  <2>1. SharedInv'
      BY <1>13, <1>0 DEF Push, Goto, At, PublicationTypeOK, Rows
  <2>2. ASSUME NEW d \in Callers PROVE CallInv(d)'
      BY <1>13, <1>0 DEF Push, Goto, At, PublicationTypeOK, Rows
  <2> QED BY <2>1, <2>2
<1>14. ASSUME NEW c \in Callers, ListPr(c) PROVE SharedInv' /\ \A d \in Callers : CallInv(d)'
  <2>1. SharedInv'
      BY <1>14, <1>0 DEF ListPr, Goto, At, PublicationTypeOK, Rows
  <2>2. ASSUME NEW d \in Callers PROVE CallInv(d)'
      BY <1>14, <1>0 DEF ListPr, Goto, At, PublicationTypeOK, Rows
  <2> QED BY <2>1, <2>2
<1>15. ASSUME NEW c \in Callers, CreatePr(c) PROVE SharedInv' /\ \A d \in Callers : CallInv(d)'
  <2>1. SharedInv'
      BY <1>15, <1>0 DEF CreatePr, Goto, Raise, Return, PublicationTypeOK, Rows
  <2>2. ASSUME NEW d \in Callers PROVE CallInv(d)'
      BY <1>15, <1>0 DEF CreatePr, Goto, Raise, Return, PublicationTypeOK, Rows
  <2> QED BY <2>1, <2>2
<1>16. ASSUME NEW c \in Callers, CheckPr(c) PROVE SharedInv' /\ \A d \in Callers : CallInv(d)'
  <2>1. SharedInv'
      BY <1>16, <1>0 DEF CheckPr, Goto, Raise, Return, PublicationTypeOK, Rows
  <2>2. ASSUME NEW d \in Callers PROVE CallInv(d)'
      BY <1>16, <1>0 DEF CheckPr, Goto, Raise, Return, PublicationTypeOK, Rows
  <2> QED BY <2>1, <2>2
<1>17. ASSUME NEW c \in Callers, Complete(c) PROVE SharedInv' /\ \A d \in Callers : CallInv(d)'
  <2>1. SharedInv'
      BY <1>17, <1>0 DEF Complete, Upsert, Return, CompletedCommit, PublicationTypeOK, Rows
  <2>2. ASSUME NEW d \in Callers PROVE CallInv(d)'
      BY <1>17, <1>0 DEF Complete, Upsert, Return, CompletedCommit, PublicationTypeOK, Rows
  <2> QED BY <2>1, <2>2
<1>18. ASSUME NEW c \in Callers, WriteFailed(c) PROVE SharedInv' /\ \A d \in Callers : CallInv(d)'
  <2>1. SharedInv'
      BY <1>18, <1>0 DEF WriteFailed, Upsert, Return, PublicationTypeOK, Rows
  <2>2. ASSUME NEW d \in Callers PROVE CallInv(d)'
      BY <1>18, <1>0 DEF WriteFailed, Upsert, Return, PublicationTypeOK, Rows
  <2> QED BY <2>1, <2>2
<1>19. ASSUME NEW c \in Callers, CommandFails(c) PROVE SharedInv' /\ \A d \in Callers : CallInv(d)'
  <2>1. SharedInv'
      BY <1>19, <1>0 DEF CommandFails, Goto, Raise, Return, PublicationTypeOK, Rows
  <2>2. ASSUME NEW d \in Callers PROVE CallInv(d)'
      BY <1>19, <1>0 DEF CommandFails, Goto, Raise, Return, PublicationTypeOK, Rows
  <2> QED BY <2>1, <2>2
<1>20. CASE Crash
    BY <1>20, <1>0 DEF Crash, PublicationTypeOK, Rows
<1>21. CASE MarkReady
    BY <1>21, <1>0 DEF MarkReady, PublicationTypeOK, Rows
<1>22. CASE CloseWindow
    BY <1>22, <1>0 DEF CloseWindow, PublicationTypeOK, Rows
<1>23. CASE UNCHANGED vars
    BY <1>23, <1>0 DEF vars, PublicationTypeOK, Rows
<1> QED
    BY <1>0, <1>1, <1>2, <1>3, <1>4, <1>5, <1>6, <1>7, <1>8, <1>9, <1>10, <1>11, <1>12, <1>13, <1>14, <1>15, <1>16, <1>17, <1>18, <1>19, <1>20, <1>21, <1>22, <1>23 DEF Next, Call

(* PubInv holds throughout every behaviour of concurrent publish calls. *)
THEOREM PublicationInvariant == PublicationSpec => []PubInv
<1> QED
    BY InvInit, InvStep, PTL DEF PublicationSpec

-----------------------------------------------------------------------------
(* Rows, worktree and calls keep their types whatever publish calls overlap,     *)
(* fail or die.                                                                  *)
THEOREM PublicationTypeCorrect == PublicationSpec => []PublicationTypeOK
<1>1. PubInv => PublicationTypeOK
    BY DEF PubInv
<1> QED
    BY <1>1, PublicationInvariant, PTL

(* A recorded commit is the worktree's HEAD, and a COMPLETE publication has it   *)
(* at origin behind an open pull request, for any number of concurrent calls.    *)
THEOREM PublishedCommitIsPushed == PublicationSpec => []PublishedIsPushed
<1>1. PubInv => PublishedIsPushed
    BY DEF PubInv, SharedInv, PublishedIsPushed
<1> QED
    BY <1>1, PublicationInvariant, PTL

(* No step of a publication moves HEAD or the remote branch a second time. *)
THEOREM WorktreeCommittedOnce == PublicationSpec => CommittedOnce
<1>1. PubInv /\ [Next]_vars => [/\ head # 0 => head' = head
                                /\ remote # 0 => remote' = remote]_vars
  <2> SUFFICES ASSUME PubInv, Next PROVE /\ head # 0 => head' = head
                                         /\ remote # 0 => remote' = remote
      OBVIOUS
  <2>1. ASSUME NEW c \in Callers, Commit(c) PROVE (head # 0 => head' = head) /\ remote' = remote
      BY <2>1 DEF PubInv, SharedInv, Commit, githubVars
  <2>2. ASSUME NEW c \in Callers, Push(c) PROVE head' = head /\ (remote # 0 => remote' = remote)
      BY <2>2 DEF PubInv, SharedInv, Push, treeVars
  <2>3. ASSUME NEW c \in Callers, Call(c), ~Commit(c), ~Push(c) PROVE head' = head /\ remote' = remote
      BY <2>3 DEF Call, Publish, Authorize, Inspect, WritePending, ReadBack, ReadBranch, SwitchBranch, Stage, RevParse, WriteProgress, HeadAgain, ListPr, CreatePr, CheckPr, Complete, WriteFailed, treeVars, githubVars
  <2>4. ASSUME NEW c \in Callers, CommandFails(c) PROVE head' = head /\ remote' = remote
      BY <2>4 DEF CommandFails, treeVars, githubVars
  <2>5. CASE Crash \/ MarkReady \/ CloseWindow
      BY <2>5 DEF Crash, MarkReady, CloseWindow, treeVars, githubVars
  <2> QED
      BY <2>1, <2>2, <2>3, <2>4, <2>5 DEF Next
<1> QED
    BY <1>1, PublicationInvariant, PTL DEF PublicationSpec, CommittedOnce
=============================================================================
