---------------------------- MODULE GoalLifecycle ----------------------------
(***************************************************************************)
(* One goal from its plan to its tasks: GoalService (goal_service.py), the   *)
(* goal rows and task links of control_store.py, and the part of the         *)
(* coordinator's tick that picks tasks by their dependencies.               *)
(*                                                                         *)
(* Plan, approve and amend are single conditional updates.  A launch and a   *)
(* status refresh take several transactions; the HTTP server and the         *)
(* coordinator run them in concurrent threads, and the host may die in       *)
(* between.  How a claimed task executes is DurableStore's business: here it *)
(* moves as an environment.  A claim is kept for as long as its execution    *)
(* lasts; what expired and lost claims do is Coordinator's business, what     *)
(* makes a window short of units is WindowBudget's.  The goal is the only one *)
(* of its window.                                                            *)
(***************************************************************************)
EXTENDS Integers, Sequences, FiniteSets

CONSTANTS
    Callers,        \* threads that serve requests or refresh after a batch
    Windows,        \* autonomous windows
    NoWindow,       \* window_id = ''
    Plans,          \* plans that _normalize_tasks accepts
    MaxRevision,    \* bound on amendments
    MaxConcurrent,  \* max_concurrent_tasks, the LIMIT of runnable_tasks
    MaxTasks,       \* max_tasks
    MaxRetries,     \* max_retries
    Metered,        \* whether max_token_units or max_cost_micro_units is set
    Policies        \* the operations a window may allow on the goal's repository

NoPlan == << >>
PlanTasks == UNION {{p[i].id : i \in 1..Len(p)} : p \in Plans}
PlanItems == [id : PlanTasks, deps : SUBSET PlanTasks]
Revisions == 1..MaxRevision
Operations == {"execute_task", "resume_task"}

ASSUME PlanAssumption == Plans \subseteq Seq(PlanItems) \ {NoPlan}
ASSUME GoalBoundAssumption == /\ MaxRevision \in Nat \ {0}
                              /\ MaxConcurrent \in Nat \ {0}
                              /\ MaxTasks \in Nat \ {0} /\ MaxRetries \in Nat
                              /\ Metered \in BOOLEAN
                              /\ Policies \subseteq SUBSET Operations
                              /\ NoWindow \notin Windows

VARIABLES
    goal,     \* the platform_goals row
    links,    \* platform_goal_task_links
    task,     \* tasks.status of the task of each revision and plan task
    window,   \* platform_autonomous_windows: counters and what they admit
    call,     \* the launch or refresh each caller is in
    offered,  \* what is left of the coordinator's last runnable_tasks
    claimed   \* the tasks the coordinator has claimed

vars == <<goal, links, task, window, call, offered, claimed>>

\* Mutant of Claimable: interrupted tasks are not picked up again.
ClaimableOnce == {"QUEUED"}

Claimable == {"QUEUED", "INTERRUPTED"}
Ready     == {"READY_FOR_REVIEW", "READY_FOR_REVIEW_FIXTURE"}
Failed    == {"FAILED", "BLOCKED", "CANCELLED"}
Settled   == Ready \cup Failed

Active(w) == w \in Windows /\ window[w].open

Idle == [at |-> "idle", revision |-> 0, plan |-> NoPlan, window |-> NoWindow,
         next |-> 0, status |-> "", answer |-> ""]

-----------------------------------------------------------------------------
(* create_goal: the request may already name a window. *)
Init ==
    /\ goal \in [status : {"DRAFT"}, revision : {1}, plan : {NoPlan},
                 window : Windows \cup {NoWindow}]
    /\ links = {}
    /\ task = [r \in Revisions |-> [i \in PlanTasks |-> "none"]]
    /\ window \in [Windows -> [open : {TRUE}, started : {0}, retries : {0},
                              allows : Policies, short : {FALSE}]]
    /\ call = [c \in Callers |-> Idle]
    /\ offered = [window |-> NoWindow, rows |-> {}]
    /\ claimed = {}

\* Mutant of SavePlan: an approved plan may be replaced as well.
SavePlanApproved(p) ==
    /\ goal.status \in {"DRAFT", "PLANNED", "APPROVED"}
    /\ goal' = [goal EXCEPT !.status = "PLANNED", !.plan = p]
    /\ UNCHANGED <<links, task, window, call, offered, claimed>>

(* plan, save_goal_plan: the revision stays. *)
SavePlan(p) ==
    /\ goal.status \in {"DRAFT", "PLANNED"}
    /\ goal' = [goal EXCEPT !.status = "PLANNED", !.plan = p]
    /\ UNCHANGED <<links, task, window, call, offered, claimed>>

(* approve_goal *)
Approve ==
    /\ goal.status = "PLANNED" /\ goal.plan # NoPlan
    /\ goal' = [goal EXCEPT !.status = "APPROVED"]
    /\ UNCHANGED <<links, task, window, call, offered, claimed>>

(* amend_goal: window_id and the links of the old revision stay. *)
Amend ==
    /\ goal.status # "RUNNING" /\ goal.revision < MaxRevision
    /\ goal' = [goal EXCEPT !.status = "DRAFT", !.plan = NoPlan, !.revision = @ + 1]
    /\ UNCHANGED <<links, task, window, call, offered, claimed>>

-----------------------------------------------------------------------------
(* launch.  The window row is read after the goal row; a window only closes   *)
(* and its policy never changes, so reading it at once loses no launch.  A     *)
(* refused launch changes nothing.                                             *)
LaunchStart(c, w) ==
    /\ call[c].at = "idle"
    /\ goal.status = "APPROVED" /\ Active(w)
    /\ "execute_task" \in window[w].allows
    /\ call' = [call EXCEPT ![c] = [Idle EXCEPT !.at = "link", !.revision = goal.revision,
                                                !.plan = goal.plan, !.window = w, !.next = 1]]
    /\ UNCHANGED <<goal, links, task, window, offered, claimed>>

Row(c, revision) == LET item == call[c].plan[call[c].next]
                    IN  [revision |-> revision, seq |-> call[c].next,
                         id |-> item.id, deps |-> item.deps]

(* create_task finds the task of an earlier try by its idempotency key; a link *)
(* that exists already is left alone.  A created task that is not linked yet   *)
(* is in no query, so both transactions are one step.                          *)
Link(c, row) ==
    /\ call[c].at = "link"
    /\ task' = [task EXCEPT ![row.revision][row.id] = IF @ = "none" THEN "QUEUED" ELSE @]
    /\ links' = IF \E l \in links : l.revision = row.revision /\ l.id = row.id
                THEN links ELSE links \cup {row}
    /\ call' = [call EXCEPT ![c].next = @ + 1,
                            ![c].at = IF call[c].next = Len(call[c].plan) THEN "check" ELSE @]
    /\ UNCHANGED <<goal, window, offered, claimed>>

\* Mutant of LaunchLink: the row gets the revision the goal has by now.
LaunchLinkCurrent(c) == call[c].at = "link" /\ Link(c, Row(c, goal.revision))

LaunchLink(c) == call[c].at = "link" /\ Link(c, Row(c, call[c].revision))

(* The goal is read again: another launch may have finished first. *)
LaunchCheck(c) ==
    /\ call[c].at = "check"
    /\ call' = [call EXCEPT ![c] =
                   IF goal.status = "RUNNING" /\ goal.window = call[c].window
                   THEN Idle
                   ELSE [@ EXCEPT !.at = "mark"]]
    /\ UNCHANGED <<goal, links, task, window, offered, claimed>>

(* mark_goal_running *)
LaunchMark(c) ==
    /\ call[c].at = "mark"
    /\ IF goal.status = "APPROVED" /\ goal.revision = call[c].revision
       THEN /\ goal' = [goal EXCEPT !.status = "RUNNING", !.window = call[c].window]
            /\ call' = [call EXCEPT ![c] = Idle]
       ELSE /\ call' = [call EXCEPT ![c] = [Idle EXCEPT !.answer = "refused",
                                                        !.revision = call[c].revision]]
            /\ UNCHANGED goal
    /\ UNCHANGED <<links, task, window, offered, claimed>>

(* The caller's thread or its host is gone. *)
CallDies(c) ==
    /\ call[c].at # "idle"
    /\ call' = [call EXCEPT ![c] = Idle]
    /\ UNCHANGED <<goal, links, task, window, offered, claimed>>

-----------------------------------------------------------------------------
CurrentLinks == {l \in links : l.revision = goal.revision}
StatusOf(l)  == task[l.revision][l.id]

\* Mutant of DerivedStatus: a task status is shown as the goal's.
DerivedTaskStatus ==
    LET statuses == {StatusOf(l) : l \in CurrentLinks}
    IN  IF statuses \subseteq Ready THEN "COMPLETED"
        ELSE IF "INTERRUPTED" \in statuses THEN "INTERRUPTED"
        ELSE IF statuses \cap Failed # {} THEN "BLOCKED"
        ELSE "RUNNING"

DerivedStatus ==
    LET statuses == {StatusOf(l) : l \in CurrentLinks}
    IN  IF statuses \subseteq Ready THEN "COMPLETED"
        ELSE IF statuses \cap Failed # {} THEN "BLOCKED"
        ELSE "RUNNING"

(* refresh_goal_status reads the links of the current revision ...           *)
RefreshRead(c) ==
    /\ call[c].at = "idle"
    /\ CurrentLinks # {}
    /\ call' = [call EXCEPT ![c] = [Idle EXCEPT !.at = "refresh", !.status = DerivedStatus]]
    /\ UNCHANGED <<goal, links, task, window, offered, claimed>>

(* ... and writes the status it derived, whatever the row says by then.      *)
RefreshWrite(c) ==
    /\ call[c].at = "refresh"
    /\ goal' = [goal EXCEPT !.status = call[c].status]
    /\ call' = [call EXCEPT ![c] = Idle]
    /\ UNCHANGED <<links, task, window, offered, claimed>>

-----------------------------------------------------------------------------
ClaimableLinks == {l \in CurrentLinks : StatusOf(l) \in Claimable}

\* Mutant of Unblocked: a dependency without a link does not block.
UnblockedUnlinked(l) ==
    \A k \in CurrentLinks : k.id \in l.deps => StatusOf(k) \in Ready

(* Every dependency has a link of the same revision, and its task is ready.  *)
Unblocked(l) ==
    \A d \in l.deps : \E k \in CurrentLinks : k.id = d /\ StatusOf(k) \in Ready

(* The LIMIT counts claimable rows in seq order, before the dependencies are *)
(* looked at.                                                                *)
runnable_tasks ==
    {l \in ClaimableLinks :
        /\ Cardinality({k \in ClaimableLinks : k.seq < l.seq}) < MaxConcurrent
        /\ Unblocked(l)}

(* The coordinator's tick reads the candidates of one active window. *)
TickRead ==
    /\ offered.rows = {}
    /\ Active(goal.window) /\ goal.status = "RUNNING"
    /\ offered' = [window |-> goal.window, rows |-> runnable_tasks]
    /\ UNCHANGED <<goal, links, task, window, call, claimed>>

Operation(l) == IF StatusOf(l) = "INTERRUPTED" THEN "resume_task" ELSE "execute_task"

(* authorize: the window is open, the repository and the operation are in its  *)
(* policy.  The capability registry supports both operations.                  *)
Allowed(l) == Active(offered.window) /\ Operation(l) \in window[offered.window].allows

(* A resumption is paid from the retry budget, a first start from the task     *)
(* budget.                                                                     *)
Exhausted(w, l) == IF StatusOf(l) = "INTERRUPTED" THEN window[w].retries >= MaxRetries
                                                  ELSE window[w].started >= MaxTasks

Charged(row, l) == IF StatusOf(l) = "INTERRUPTED" THEN [row EXCEPT !.retries = @ + 1]
                                                  ELSE [row EXCEPT !.started = @ + 1]

BusyClaims == {k \in claimed : StatusOf(k) = "LIVE"}

(* authorize and claim_task look at the window, its claims and the task, but no *)
(* more at the goal.  A task claimed before may still have its reservation, and  *)
(* then needs no further units.                                                  *)
Admits(l) ==
    /\ Allowed(l)
    /\ Cardinality(BusyClaims) < MaxConcurrent
    /\ StatusOf(l) \in Claimable
    /\ ~Exhausted(offered.window, l)
    /\ window[offered.window].short => l \in claimed

NextOffered(l) == l \in offered.rows /\ \A k \in offered.rows : l.seq <= k.seq

(* The next candidate is claimed.  The claim and the start of its execution are *)
(* one step here.                                                                *)
TickClaim(l) ==
    /\ NextOffered(l)
    /\ Admits(l)
    /\ offered' = [offered EXCEPT !.rows = @ \ {l}]
    /\ window' = [window EXCEPT ![offered.window] = Charged(@, l)]
    /\ task' = [task EXCEPT ![l.revision][l.id] = "LIVE"]
    /\ claimed' = claimed \cup {l}
    /\ UNCHANGED <<goal, links, call>>

(* The refusals that end the tick: a limit of the window is reached. *)
LimitReached(l) ==
    /\ Allowed(l)
    /\ \/ Cardinality(BusyClaims) >= MaxConcurrent
       \/ StatusOf(l) \in Claimable /\ (Exhausted(offered.window, l) \/ window[offered.window].short)

(* The next candidate is refused; after the others the tick goes on. *)
TickRefuse(l) ==
    /\ NextOffered(l)
    /\ ~Admits(l) \/ window[offered.window].short
    /\ offered' = [offered EXCEPT !.rows = IF LimitReached(l) THEN {} ELSE @ \ {l}]
    /\ UNCHANGED <<goal, links, task, window, call, claimed>>

-----------------------------------------------------------------------------
(* The environment: a run ends or is interrupted; POST /api/tasks/{id} runs or *)
(* cancels a queued task; windows expire, are stopped or blocked, and their     *)
(* units run short and are released again.                                      *)
Moves(r, i, from, to) ==
    /\ task[r][i] \in from
    /\ \E s \in to : task' = [task EXCEPT ![r][i] = s]
    /\ UNCHANGED <<goal, links, window, call, offered, claimed>>

Settle(r, i)    == Moves(r, i, {"LIVE"}, {"READY_FOR_REVIEW", "FAILED"})
Interrupt(r, i) == Moves(r, i, {"LIVE"}, {"INTERRUPTED"})
Execute(r, i)   == Moves(r, i, Claimable, {"LIVE"})
Cancel(r, i)    == Moves(r, i, {"QUEUED"}, {"CANCELLED"})

CloseWindow(w) ==
    /\ window[w].open
    /\ window' = [window EXCEPT ![w].open = FALSE]
    /\ UNCHANGED <<goal, links, task, call, offered, claimed>>

UnitsMove(w) ==
    /\ Metered /\ window[w].open
    /\ window' = [window EXCEPT ![w].short = ~@]
    /\ UNCHANGED <<goal, links, task, call, offered, claimed>>

Launching(c) ==
    \/ \E w \in Windows : LaunchStart(c, w)
    \/ LaunchLink(c)
    \/ LaunchCheck(c)
    \/ LaunchMark(c)

Refreshing(c) == RefreshRead(c) \/ RefreshWrite(c)

TaskMoves(r, i) == Settle(r, i) \/ Interrupt(r, i) \/ Execute(r, i) \/ Cancel(r, i)

Next ==
    \/ \E p \in Plans : SavePlan(p)
    \/ Approve
    \/ Amend
    \/ \E c \in Callers : Launching(c) \/ Refreshing(c) \/ CallDies(c)
    \/ TickRead
    \/ \E l \in offered.rows : TickClaim(l) \/ TickRefuse(l)
    \/ \E r \in Revisions, i \in PlanTasks : TaskMoves(r, i)
    \/ \E w \in Windows : CloseWindow(w) \/ UnitsMove(w)

GoalSpec == Init /\ [][Next]_vars

(* The coordinator ticks again and again and claims what it read; somebody    *)
(* (its batch, or a client that polls the goal) keeps refreshing the status;  *)
(* executions and refreshes are not interrupted for ever.                     *)
Fairness ==
    /\ WF_vars(TickRead)
    /\ WF_vars(\E l \in offered.rows : TickClaim(l) \/ TickRefuse(l))
    /\ \A c \in Callers : WF_vars(RefreshRead(c)) /\ SF_vars(RefreshWrite(c))
    /\ \A r \in Revisions, i \in PlanTasks : SF_vars(Settle(r, i))

FairGoalSpec == GoalSpec /\ Fairness

-----------------------------------------------------------------------------
TaskStatuses == {"none", "LIVE"} \cup Claimable \cup Settled
LinkRows == [revision : Revisions, seq : Nat \ {0}, id : PlanTasks, deps : SUBSET PlanTasks]
GoalStatuses == {"DRAFT", "PLANNED", "APPROVED", "RUNNING", "COMPLETED", "BLOCKED"}

GoalRows == [status : GoalStatuses, revision : Revisions, plan : Plans \cup {NoPlan},
             window : Windows \cup {NoWindow}]
WindowRows == [open : BOOLEAN, started : 0..MaxTasks, retries : 0..MaxRetries,
               allows : Policies, short : BOOLEAN]
Calls == [at : {"idle", "link", "check", "mark", "refresh"},
          revision : Revisions \cup {0}, plan : Plans \cup {NoPlan},
          window : Windows \cup {NoWindow}, next : Nat,
          status : GoalStatuses \cup {""}, answer : {"", "refused"}]

(* The rows and calls keep their types. *)
GoalTypeOK ==
    /\ goal \in GoalRows
    /\ links \subseteq LinkRows
    /\ task \in [Revisions -> [PlanTasks -> TaskStatuses]]
    /\ window \in [Windows -> WindowRows]
    /\ call \in [Callers -> Calls]
    /\ offered \in [window : Windows \cup {NoWindow}, rows : SUBSET LinkRows]
    /\ claimed \subseteq LinkRows

(* The coordinator starts a task only after all its dependencies are ready,    *)
(* although it claims from a list it read earlier, while launches still add    *)
(* links and the goal may be amended in between.                               *)
ClaimedAfterDependencies ==
    \A l \in claimed : \A d \in l.deps : task[l.revision][d] \in Ready

(* The links of the goal's revision are rows of the plan that revision was     *)
(* approved with, however late a launch of another revision or an interrupted  *)
(* one comes to write its rows.                                                *)
LinksFollowPlan ==
    \A l \in CurrentLinks :
        l.seq <= Len(goal.plan) /\ goal.plan[l.seq] = [id |-> l.id, deps |-> l.deps]

(* An approved plan is final for its revision: only an amendment, which starts *)
(* the next revision, replaces it.                                             *)
ApprovedPlanIsFinal ==
    [][goal.status \notin {"DRAFT", "PLANNED"} /\ goal'.revision = goal.revision
         => goal'.plan = goal.plan]_vars

(* What keeps a claimable row from being started for good: dependencies or the  *)
(* policy pass it over, or a budget refuses it.                                  *)
PassedOver(w, l) == ~Unblocked(l) \/ Operation(l) \notin window[w].allows
OverBudget(w, l) == Exhausted(w, l) \/ window[w].short

(* A row is held up by itself, by a row before it at which the tick stops        *)
(* because a budget refuses it, or by so many rows before it that are passed     *)
(* over that they fill the LIMIT.                                                *)
HeldUp(w, l) ==
    LET before == {k \in ClaimableLinks : k.seq < l.seq}
    IN  \/ PassedOver(w, l)
        \/ \E k \in before \cup {l} : ~PassedOver(w, k) /\ OverBudget(w, k)
        \/ Cardinality({k \in before : PassedOver(w, k)}) >= MaxConcurrent

(* While its goal is RUNNING in an open window, a linked task is driven to its    *)
(* end, through interruptions, re-reads and lost refreshes, unless it is          *)
(* claimable and held up.                                                         *)
EventuallyDriven ==
    \A i \in PlanTasks :
        []<>( \/ goal.status # "RUNNING" \/ ~Active(goal.window)
              \/ \A l \in CurrentLinks : l.id = i =>
                    \/ StatusOf(l) \in Settled
                    \/ l \in ClaimableLinks /\ HeldUp(goal.window, l) )
=============================================================================
