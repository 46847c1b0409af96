----------------------------- MODULE Publication -----------------------------
(***************************************************************************)
(* PublicationController (platform_v1/publication_controller.py) and the     *)
(* platform_publications row of the control store: concurrent publish calls  *)
(* for one validated task, against its worktree, the remote branch and the   *)
(* pull request.                                                             *)
(*                                                                         *)
(* pc[c] is the next store access or git/gh command of call c.  A commit is  *)
(* its number (0: the worktree's base, so no commit_sha).  A call whose      *)
(* command fails raises: on the first path through a handler that records    *)
(* FAILED, on the path that continues a recorded commit without one.         *)
(***************************************************************************)
EXTENDS Integers

CONSTANTS
    Callers,     \* publish calls that may be in flight
    Digests,     \* request digests
    RequestOf,   \* the request digest of each caller
    NoDigest,    \* the digest of a row that does not exist yet
    MaxFaults    \* bound on process deaths and failing commands

ASSUME RequestAssumption == RequestOf \in [Callers -> Digests] /\ NoDigest \notin Digests
ASSUME FaultAssumption == MaxFaults \in Nat

VARIABLES
    row,         \* the platform_publications row of the task
    head,        \* HEAD of the worktree
    dirty,       \* git status of the worktree lists the task's changes
    branch,      \* the worktree is on the publication's branch
    remote,      \* the commit origin has for that branch; 0: none
    pr,          \* the pull request of the branch
    windowOpen,  \* authorize("open_draft_pr") allows
    pc,
    existing,    \* the row the call read first
    record,      \* the row the call's last upsert returned
    fresh,       \* that row has been read
    commit_sha,  \* what rev-parse answered after the call's commit
    faults

treeVars   == <<head, dirty, branch>>
githubVars == <<remote, pr, windowOpen>>
localVars  == <<existing, record, fresh, commit_sha>>
vars == <<row, treeVars, githubVars, pc, localVars, faults>>

NoRow == [status |-> "none", digest |-> NoDigest, commit |-> 0, pr |-> FALSE]

PublicationStates == {"PENDING", "COMMIT_CREATED", "PUSHED", "COMPLETE", "FAILED"}

Rows == [status : {"none"} \cup PublicationStates, digest : Digests \cup {NoDigest},
         commit : Nat, pr : BOOLEAN]

(* Commands of the first path, inside its try; and of the continuing path. *)
TryLabels   == {"branch", "switch", "stage", "commit", "revParse", "created", "push",
                "pushed", "listPr", "createPr", "checkPr", "complete"}
AgainLabels == {"headAgain", "pushAgain", "listAgain", "createAgain", "checkAgain",
                "completeAgain"}
Labels == {"idle", "authorize", "inspect", "pending", "failed"} \cup TryLabels \cup AgainLabels

Init ==
    /\ row = NoRow
    /\ head = 0 /\ dirty = TRUE /\ branch = FALSE
    /\ remote = 0
    /\ pr = [open |-> FALSE, draft |-> FALSE]
    /\ windowOpen = TRUE
    /\ pc = [c \in Callers |-> "idle"]
    /\ existing = [c \in Callers |-> NoRow]
    /\ record = [c \in Callers |-> NoRow]
    /\ fresh = [c \in Callers |-> TRUE]
    /\ commit_sha = [c \in Callers |-> 0]
    /\ faults = 0

Goto(c, label) == pc' = [pc EXCEPT ![c] = label]

At(c, label) == pc[c] = label /\ fresh[c]

Return(c) ==
    /\ pc' = [pc EXCEPT ![c] = "idle"]
    /\ existing' = [existing EXCEPT ![c] = NoRow]
    /\ record' = [record EXCEPT ![c] = NoRow]
    /\ fresh' = [fresh EXCEPT ![c] = TRUE]
    /\ commit_sha' = [commit_sha EXCEPT ![c] = 0]

(* raise: inside the try the handler records FAILED first. *)
Raise(c) ==
    IF pc[c] \in TryLabels
       THEN Goto(c, "failed") /\ UNCHANGED localVars
       ELSE Return(c)

-----------------------------------------------------------------------------
(* publish, first part: a completed publication of this request is the         *)
(* answer, one of another request is refused ...                               *)
Publish(c) ==
    /\ pc[c] = "idle"
    /\ row.status # "none" => row.digest = RequestOf[c]
    /\ row.status # "COMPLETE"
    /\ existing' = [existing EXCEPT ![c] = row]
    /\ Goto(c, "authorize")
    /\ UNCHANGED <<row, treeVars, githubVars, record, fresh, commit_sha, faults>>

\* Mutant of Continues: a FAILED row is started again.
ContinuesUnlessFailed(c) == existing[c].commit # 0 /\ existing[c].status # "FAILED"

(* A row with a commit_sha is continued instead of started again. *)
Continues(c) == existing[c].commit # 0

(* ... and the window must allow the operation. *)
Authorize(c) ==
    /\ pc[c] = "authorize"
    /\ IF windowOpen
          THEN Goto(c, IF Continues(c) THEN "headAgain" ELSE "inspect") /\ UNCHANGED localVars
          ELSE Return(c)
    /\ UNCHANGED <<row, treeVars, githubVars, faults>>

(* _assert_git_workspace, _changed_paths *)
Inspect(c) ==
    /\ pc[c] = "inspect"
    /\ IF head = 0 /\ dirty
          THEN Goto(c, "pending") /\ UNCHANGED localVars
          ELSE Return(c)    \* publication_workspace_head_drift, publication_has_no_changes
    /\ UNCHANGED <<row, treeVars, githubVars, faults>>

-----------------------------------------------------------------------------
(* upsert_publication: the row is written under the lock ... *)
Upsert(c, status, commit, withPr) ==
    row' = [status |-> status, digest |-> RequestOf[c], commit |-> commit, pr |-> withPr]

UpsertRefused(c) == row.status # "none" /\ row.digest # RequestOf[c]

(* ... and read back after the lock is released. *)
ReadBack(c) ==
    /\ ~fresh[c]
    /\ record' = [record EXCEPT ![c] = row]
    /\ fresh' = [fresh EXCEPT ![c] = TRUE]
    /\ UNCHANGED <<row, treeVars, githubVars, pc, existing, commit_sha, faults>>

WritePending(c) ==
    /\ pc[c] = "pending"
    /\ IF UpsertRefused(c)
          THEN Return(c) /\ UNCHANGED row
          ELSE /\ Upsert(c, "PENDING", 0, FALSE)
               /\ Goto(c, "branch")
               /\ fresh' = [fresh EXCEPT ![c] = FALSE]
               /\ UNCHANGED <<existing, record, commit_sha>>
    /\ UNCHANGED <<treeVars, githubVars, faults>>

(* git branch --show-current, git switch -c: the second fails when another     *)
(* call has created the branch since.                                          *)
ReadBranch(c) ==
    /\ At(c, "branch")
    /\ Goto(c, IF branch THEN "stage" ELSE "switch")
    /\ UNCHANGED <<row, treeVars, githubVars, localVars, faults>>

SwitchBranch(c) ==
    /\ At(c, "switch")
    /\ IF branch THEN Raise(c)
                 ELSE Goto(c, "stage") /\ UNCHANGED localVars
    /\ branch' = TRUE
    /\ UNCHANGED <<row, head, dirty, githubVars, faults>>

(* git add, git diff --cached: publication_staged_scope_mismatch when another  *)
(* call has committed the changes.                                             *)
Stage(c) ==
    /\ At(c, "stage")
    /\ IF dirty THEN Goto(c, "commit") /\ UNCHANGED localVars
                ELSE Raise(c)
    /\ UNCHANGED <<row, treeVars, githubVars, faults>>

\* Mutant of Commit: git commit --allow-empty.
CommitAllowingEmpty(c) ==
    /\ At(c, "commit")
    /\ head' = head + 1
    /\ dirty' = FALSE
    /\ Goto(c, "revParse")
    /\ UNCHANGED <<row, branch, githubVars, localVars, faults>>

(* git commit: nothing to commit is a failure. *)
Commit(c) ==
    /\ At(c, "commit")
    /\ IF dirty
          THEN /\ head' = head + 1
               /\ dirty' = FALSE
               /\ Goto(c, "revParse")
               /\ UNCHANGED localVars
          ELSE Raise(c) /\ UNCHANGED <<head, dirty>>
    /\ UNCHANGED <<row, branch, githubVars, faults>>

RevParse(c) ==
    /\ At(c, "revParse")
    /\ commit_sha' = [commit_sha EXCEPT ![c] = head]
    /\ Goto(c, "created")
    /\ UNCHANGED <<row, treeVars, githubVars, existing, record, fresh, faults>>

\* Mutant of WriteProgress: a status that is not one of PUBLICATION_STATES.
WriteMisnamedProgress(c) ==
    /\ At(c, "created") \/ At(c, "pushed")
    /\ Upsert(c, "COMMITTED", commit_sha[c], FALSE)
    /\ Goto(c, IF pc[c] = "created" THEN "push" ELSE "listPr")
    /\ fresh' = [fresh EXCEPT ![c] = FALSE]
    /\ UNCHANGED <<treeVars, githubVars, existing, record, commit_sha, faults>>

(* COMMIT_CREATED and PUSHED are recorded with the commit. *)
WriteProgress(c) ==
    /\ At(c, "created") \/ At(c, "pushed")
    /\ Upsert(c, IF pc[c] = "created" THEN "COMMIT_CREATED" ELSE "PUSHED", commit_sha[c], FALSE)
    /\ Goto(c, IF pc[c] = "created" THEN "push" ELSE "listPr")
    /\ fresh' = [fresh EXCEPT ![c] = FALSE]
    /\ UNCHANGED <<treeVars, githubVars, existing, record, commit_sha, faults>>

(* publication_committed_head_drift *)
HeadAgain(c) ==
    /\ pc[c] = "headAgain"
    /\ IF head = existing[c].commit
          THEN Goto(c, "pushAgain") /\ UNCHANGED localVars
          ELSE Return(c)
    /\ UNCHANGED <<row, treeVars, githubVars, faults>>

\* Mutant of Push: a failing push is ignored.
PushUnchecked(c) ==
    /\ At(c, "push") \/ pc[c] = "pushAgain"
    /\ remote' \in {remote, head}
    /\ Goto(c, IF pc[c] = "push" THEN "pushed" ELSE "listAgain")
    /\ UNCHANGED <<row, treeVars, pr, windowOpen, localVars, faults>>

(* git push origin <branch> sends what the branch holds, and may be repeated. *)
Push(c) ==
    /\ At(c, "push") \/ pc[c] = "pushAgain"
    /\ remote' = head
    /\ Goto(c, IF pc[c] = "push" THEN "pushed" ELSE "listAgain")
    /\ UNCHANGED <<row, treeVars, pr, windowOpen, localVars, faults>>

-----------------------------------------------------------------------------
(* _find_or_create_draft_pr: look for an open pull request of the branch ... *)
ListPr(c) ==
    /\ At(c, "listPr") \/ pc[c] = "listAgain"
    /\ Goto(c, CASE pc[c] = "listPr"    -> IF pr.open THEN "checkPr" ELSE "createPr"
                 [] pc[c] = "listAgain" -> IF pr.open THEN "checkAgain" ELSE "createAgain")
    /\ UNCHANGED <<row, treeVars, githubVars, localVars, faults>>

(* ... or create one; GitHub refuses a second for the same branch. *)
CreatePr(c) ==
    /\ pc[c] \in {"createPr", "createAgain"}
    /\ IF pr.open
          THEN Raise(c) /\ UNCHANGED pr
          ELSE /\ pr' = [open |-> TRUE, draft |-> TRUE]
               /\ Goto(c, IF pc[c] = "createPr" THEN "checkPr" ELSE "checkAgain")
               /\ UNCHANGED localVars
    /\ UNCHANGED <<row, treeVars, remote, windowOpen, faults>>

(* publication_pr_not_draft, publication_pr_head_mismatch (first path only) *)
CheckPr(c) ==
    /\ pc[c] \in {"checkPr", "checkAgain"}
    /\ IF pr.draft /\ (pc[c] = "checkPr" => remote = commit_sha[c])
          THEN /\ Goto(c, IF pc[c] = "checkPr" THEN "complete" ELSE "completeAgain")
               /\ UNCHANGED localVars
          ELSE Raise(c)
    /\ UNCHANGED <<row, treeVars, githubVars, faults>>

CompletedCommit(c) == IF pc[c] = "complete" THEN commit_sha[c] ELSE existing[c].commit

Complete(c) ==
    /\ pc[c] \in {"complete", "completeAgain"}
    /\ Upsert(c, "COMPLETE", CompletedCommit(c), TRUE)
    /\ Return(c)
    /\ UNCHANGED <<treeVars, githubVars, faults>>

(* The handler keeps the commit of the record the call last read. *)
WriteFailed(c) ==
    /\ pc[c] = "failed"
    /\ Upsert(c, "FAILED", record[c].commit, record[c].pr)
    /\ Return(c)
    /\ UNCHANGED <<treeVars, githubVars, faults>>

-----------------------------------------------------------------------------
(* External: a git or gh command fails, or times out. *)
CommandFails(c) ==
    /\ faults < MaxFaults
    /\ pc[c] \in TryLabels \cup AgainLabels
    /\ fresh[c]
    /\ faults' = faults + 1
    /\ Raise(c)
    /\ UNCHANGED <<row, treeVars, githubVars>>

(* The host dies: its calls are gone, the row, the worktree and GitHub stay. *)
Crash ==
    /\ faults < MaxFaults
    /\ \E c \in Callers : pc[c] # "idle"
    /\ faults' = faults + 1
    /\ pc' = [c \in Callers |-> "idle"]
    /\ existing' = [c \in Callers |-> NoRow]
    /\ record' = [c \in Callers |-> NoRow]
    /\ fresh' = [c \in Callers |-> TRUE]
    /\ commit_sha' = [c \in Callers |-> 0]
    /\ UNCHANGED <<row, treeVars, githubVars>>

(* External: a person marks the pull request ready; the window ends. *)
MarkReady ==
    /\ pr.draft
    /\ pr' = [pr EXCEPT !.draft = FALSE]
    /\ UNCHANGED <<row, treeVars, remote, windowOpen, pc, localVars, faults>>

CloseWindow ==
    /\ windowOpen
    /\ windowOpen' = FALSE
    /\ UNCHANGED <<row, treeVars, remote, pr, pc, localVars, faults>>

Call(c) ==
    \/ Publish(c) \/ Authorize(c) \/ Inspect(c)
    \/ WritePending(c) \/ ReadBack(c) \/ ReadBranch(c) \/ SwitchBranch(c)
    \/ Stage(c) \/ Commit(c) \/ RevParse(c) \/ WriteProgress(c)
    \/ HeadAgain(c) \/ Push(c) \/ ListPr(c) \/ CreatePr(c) \/ CheckPr(c)
    \/ Complete(c) \/ WriteFailed(c)

Next ==
    \/ \E c \in Callers : Call(c) \/ CommandFails(c)
    \/ Crash \/ MarkReady \/ CloseWindow

PublicationSpec == Init /\ [][Next]_vars

(* The owner's client repeats a publication that is not complete. *)
FairPublicationSpec == PublicationSpec /\ \A c \in Callers : WF_vars(Call(c))

-----------------------------------------------------------------------------
(* The variables keep their types. *)
PublicationTypeOK ==
    /\ row \in Rows
    /\ head \in Nat /\ remote \in Nat
    /\ dirty \in BOOLEAN /\ branch \in BOOLEAN /\ windowOpen \in BOOLEAN
    /\ pr \in [open : BOOLEAN, draft : BOOLEAN]
    /\ pc \in [Callers -> Labels]
    /\ existing \in [Callers -> Rows]
    /\ record \in [Callers -> Rows]
    /\ fresh \in [Callers -> BOOLEAN]
    /\ commit_sha \in [Callers -> Nat]
    /\ faults \in 0..MaxFaults

(* What the row claims is so: a recorded commit is the worktree's HEAD, and a   *)
(* COMPLETE publication has that commit at origin and its pull request open,    *)
(* although concurrent calls overwrite each other's rows and crash in between.  *)
PublishedIsPushed ==
    /\ row.commit # 0 => row.commit = head
    /\ row.status = "COMPLETE" => row.commit # 0 /\ remote = row.commit /\ pr.open

(* One worktree is published as one commit, whatever is retried or raced: HEAD   *)
(* never moves again once it moved, and origin never gets anything else.         *)
CommittedOnce ==
    [][/\ head # 0 => head' = head
       /\ remote # 0 => remote' = remote]_vars

(* A publication whose commit stays recorded is completed by repeating it,      *)
(* unless the window ends or a person takes the pull request over.              *)
RecordedCommitCompletes ==
    <>[](row.commit # 0) => []<>(row.status = "COMPLETE" \/ ~windowOpen \/ (pr.open /\ ~pr.draft))
=============================================================================
