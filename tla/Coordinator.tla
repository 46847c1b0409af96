----------------------------- MODULE Coordinator -----------------------------
(***************************************************************************)
(* UnattendedCoordinator (platform_v1/unattended_coordinator.py) on the     *)
(* claims and budgets of WindowBudget: start and stop, the polling thread,  *)
(* a tick's claims, and the batch that runs them in parallel branches.      *)
(*                                                                         *)
(* A coordinator belongs to one host process; several may run on one store, *)
(* nothing in the code excludes it.  A restarted host takes a new owner     *)
(* name; here it keeps its c, and nothing uses the handles of the old       *)
(* process.  pc[c] is the next step of c's thread ("off": it has none).     *)
(* Tasks are numbers in the order runnable_tasks sorts them: by the age of  *)
(* their goal, then by their place in its plan.                             *)
(***************************************************************************)
EXTENDS WindowBudget, FiniteSetsExt

CONSTANTS
    Goals,      \* the goals launched in the window
    GoalOf,     \* the goal a task is linked to
    Deps,       \* dependencies_json: the tasks of its goal a task waits for
    Policies,   \* capabilities_json: the operations a window may allow
    Watched,    \* the goals that clients read now and then
    ByHand,     \* the tasks the owner may run or cancel
    MaxFaults   \* bound on host deaths and on store calls that raise

Operations == {"execute_task", "resume_task"}

ASSUME OrderAssumption == Tasks \subseteq Nat
ASSUME GoalAssumption == /\ GoalOf \in [Tasks -> Goals]
                         /\ Deps \in [Tasks -> SUBSET Tasks]
                         /\ Policies \subseteq SUBSET Operations
                         /\ Watched \subseteq Goals /\ ByHand \subseteq Tasks
ASSUME FaultAssumption == MaxFaults \in Nat

VARIABLES
    stop,     \* the _stop event
    pc,       \* where the coordinator's thread is
    todo,     \* the listed tasks the tick has yet to try
    claimed,  \* the tasks the tick has claimed
    branch,   \* where the batch's branch for a task is
    runner,   \* whose call executes the task's durable run
    runs,     \* how many executions the coordinators have begun
    goal,     \* platform_goals.status
    failed,   \* the settled tasks that are not ready for review
    allows,   \* the operations the window's policy allows
    faults

threadVars == <<stop, pc, todo, claimed>>
runVars    == <<branch, runner, runs>>
goalVars   == <<goal, failed, allows>>
coordVars  == <<vars, threadVars, runVars, goalVars, faults>>

Branches == {"none", "start", "running", "complete", "abandon", "done"}

CoordInit ==
    /\ Init
    /\ stop = [c \in Coordinators |-> FALSE]
    /\ pc = [c \in Coordinators |-> "off"]
    /\ todo = [c \in Coordinators |-> {}]
    /\ claimed = [c \in Coordinators |-> {}]
    /\ branch = [c \in Coordinators |-> [t \in Tasks |-> "none"]]
    /\ runner = [t \in Tasks |-> NoOne]
    /\ runs = 0
    /\ goal = [g \in Goals |-> "RUNNING"]
    /\ failed = {}
    /\ allows \in Policies
    /\ faults = 0

Goto(c, label) == pc' = [pc EXCEPT ![c] = label]

-----------------------------------------------------------------------------
(* A host that starts, and start itself, first interrupt each durable run whose  *)
(* lease is found expired, which may be that of a stalled call ...               *)
Reconcile(c, t) ==
    /\ pc[c] = "off"
    /\ task[t] = "LIVE"
    /\ task' = [task EXCEPT ![t] = "INTERRUPTED"]
    /\ runner' = [runner EXCEPT ![t] = NoOne]
    /\ UNCHANGED <<windowVars, claim, reservation, usageVars, held, threadVars, branch, runs, goalVars, faults>>

(* ... then start clears the event and starts the thread, unless one is alive. *)
Start(c) ==
    /\ pc[c] = "off"
    /\ stop' = [stop EXCEPT ![c] = FALSE]
    /\ Goto(c, "poll")
    /\ UNCHANGED <<vars, todo, claimed, runVars, goalVars, faults>>

Stop(c) ==
    /\ pc[c] # "off"
    /\ ~stop[c]
    /\ stop' = [stop EXCEPT ![c] = TRUE]
    /\ UNCHANGED <<vars, pc, todo, claimed, runVars, goalVars, faults>>

Open == window = "ACTIVE" /\ ~timeUp

(* The rows runnable_tasks selects ... *)
Candidates == {t \in Tasks : task[t] \in Claimable /\ goal[GoalOf[t]] = "RUNNING"}

Reviewable(t) == task[t] = "SETTLED" /\ t \notin failed
Unblocked(t)  == \A d \in Deps[t] : Reviewable(d)

\* Mutant of Listed: the limit is not passed on.
ListedAll == {t \in Candidates : Unblocked(t)}

(* ... of which it takes the first max_concurrent_tasks, and of these the ones  *)
(* whose dependencies are ready for review.                                     *)
Listed == {t \in Candidates : /\ Cardinality({u \in Candidates : u < t}) < MaxConcurrent
                              /\ Unblocked(t)}

DerivedStatus(g) ==
    LET own == {t \in Tasks : GoalOf[t] = g}
    IN  IF \A t \in own : Reviewable(t) THEN "COMPLETED"
        ELSE IF own \cap failed # {} THEN "BLOCKED"
        ELSE "RUNNING"

(* refresh_goal_status of the goals in gs.  What an overtaken refresh writes is  *)
(* GoalLifecycle's.                                                              *)
Refresh(gs) == goal' = [g \in Goals |-> IF g \in gs THEN DerivedStatus(g) ELSE goal[g]]

(* active_window, which marks an expired window. *)
ReadWindow ==
    /\ window' = IF window = "ACTIVE" /\ timeUp THEN "EXPIRED" ELSE window
    /\ UNCHANGED <<timeUp, started, retries, completed, unknowns, observed, claim, reservation,
                   usageVars, task, held>>

\* Mutant of Poll: the event is not looked at between ticks.
PollForever(c) ==
    /\ pc[c] = "poll"
    /\ ReadWindow
    /\ todo' = [todo EXCEPT ![c] = IF Open THEN Listed ELSE {}]
    /\ Goto(c, IF Open THEN "each" ELSE "poll")
    /\ UNCHANGED <<stop, claimed, runVars, goalVars, faults>>

(* _run: end when stopped, else begin a tick in the active window. *)
Poll(c) ==
    /\ pc[c] = "poll"
    /\ IF stop[c]
          THEN Goto(c, "off") /\ UNCHANGED <<vars, todo>>
          ELSE /\ ReadWindow
               /\ todo' = [todo EXCEPT ![c] = IF Open THEN Listed ELSE {}]
               /\ Goto(c, IF Open THEN "each" ELSE "poll")
    /\ UNCHANGED <<stop, claimed, runVars, goalVars, faults>>

Trying(c, t, label) == pc[c] = label /\ ~stop[c] /\ todo[c] # {} /\ t = Min(todo[c])

Operation(t) == IF task[t] = "INTERRUPTED" THEN "resume_task" ELSE "execute_task"

(* The tick's loop: the next task is read and its operation authorized, or the  *)
(* task passed over ...                                                         *)
Authorize(c, t) ==
    /\ Trying(c, t, "each")
    /\ ReadWindow
    /\ IF Open /\ Operation(t) \in allows
          THEN Goto(c, "claim") /\ UNCHANGED todo
          ELSE todo' = [todo EXCEPT ![c] = @ \ {t}] /\ UNCHANGED pc
    /\ UNCHANGED <<stop, claimed, runVars, goalVars, faults>>

(* ... then claimed, in whatever state it is by now ... *)
ClaimTask(c, t) ==
    /\ Trying(c, t, "claim")
    /\ Claim(c, t)
    /\ claimed' = [claimed EXCEPT ![c] = @ \cup {t}]
    /\ todo' = [todo EXCEPT ![c] = @ \ {t}]
    /\ Goto(c, "each")
    /\ UNCHANGED <<stop, runVars, goalVars, faults>>

(* The refusals after which no other task is tried: a limit is reached. *)
LimitReached(t) ==
    /\ Open
    /\ \/ Cardinality(LiveClaims) >= MaxConcurrent
       \/ task[t] \in Claimable /\ ~Admissible(t)
       \/ task[t] \in Claimable /\ t \notin LiveClaims /\ reservation[t] = 0 /\ ~Affordable

(* ... or the claim is refused, which writes nothing: the transaction that finds *)
(* the window expired is rolled back.                                            *)
ClaimRefused(c, t) ==
    /\ Trying(c, t, "claim")
    /\ ~MayClaim(t)
    /\ todo' = [todo EXCEPT ![c] = IF LimitReached(t) THEN {} ELSE @ \ {t}]
    /\ Goto(c, "each")
    /\ UNCHANGED <<vars, stop, claimed, runVars, goalVars, faults>>

(* The tick's loop ends by itself or by the event. *)
LoopEnds(c) == pc[c] \in {"each", "claim"} /\ (stop[c] \/ todo[c] = {})

\* Mutant of Begin: a batch stopped before its dispatch is just dropped.
BeginOrDrop(c) ==
    /\ LoopEnds(c)
    /\ todo' = [todo EXCEPT ![c] = {}]
    /\ IF claimed[c] = {} \/ stop[c]
          THEN Goto(c, "poll") /\ claimed' = [claimed EXCEPT ![c] = {}] /\ UNCHANGED branch
          ELSE /\ Goto(c, "batch")
               /\ branch' = [branch EXCEPT ![c] = [t \in Tasks |-> IF t \in claimed[c] THEN "start" ELSE "none"]]
               /\ UNCHANGED claimed
    /\ UNCHANGED <<vars, stop, runner, runs, goalVars, faults>>

(* _begin_dispatch: decides under the lock between running the batch and        *)
(* abandoning its claims.                                                       *)
Begin(c) ==
    /\ LoopEnds(c)
    /\ todo' = [todo EXCEPT ![c] = {}]
    /\ Goto(c, IF claimed[c] = {} THEN "poll" ELSE IF stop[c] THEN "abandon" ELSE "batch")
    /\ branch' = IF stop[c] THEN branch
                 ELSE [branch EXCEPT ![c] = [t \in Tasks |-> IF t \in claimed[c] THEN "start" ELSE "none"]]
    /\ UNCHANGED <<vars, stop, claimed, runner, runs, goalVars, faults>>

(* abandon_task_claim: settle the claim, unless it was lost. *)
Release(c, t, terminal) == 
    \/ Finalize(c, t, terminal)
    \/ ~HoldsClaim(c, t) /\ Lose(c, t)

(* _abandon_claimed_before_dispatch, and the cleanup of a failed batch *)
Abandon(c) ==
    /\ pc[c] = "abandon"
    /\ \E t \in claimed[c] :
          /\ held[c][t] # 0
          /\ Release(c, t, "FAILED")
    /\ UNCHANGED <<threadVars, runVars, goalVars, faults>>

(* The batch or its cleanup is done; the goals of its tasks are refreshed. *)
FinishTick(c) ==
    /\ \/ pc[c] = "abandon" /\ \A t \in claimed[c] : held[c][t] = 0
       \/ pc[c] = "batch" /\ \A t \in claimed[c] : branch[c][t] = "done"
    /\ branch' = [branch EXCEPT ![c] = [t \in Tasks |-> "none"]]
    /\ claimed' = [claimed EXCEPT ![c] = {}]
    /\ Refresh({GoalOf[t] : t \in claimed[c]})
    /\ Goto(c, "poll")
    /\ UNCHANGED <<vars, stop, todo, runner, runs, failed, allows, faults>>

-----------------------------------------------------------------------------
(* One branch of the batch: execute_assignment. *)
BranchTo(c, t, label) == branch' = [branch EXCEPT ![c][t] = label]

(* _execute_task: the durable run is acquired or resumed; it is refused when    *)
(* the task is no longer queued or interrupted.                                 *)
BeginRun(c, t) ==
    /\ branch[c][t] = "start"
    /\ IF task[t] \in Claimable
          THEN /\ BranchTo(c, t, "running")
               /\ task' = [task EXCEPT ![t] = "LIVE"]
               /\ runner' = [runner EXCEPT ![t] = c]
               /\ runs' = runs + 1
          ELSE BranchTo(c, t, "abandon") /\ UNCHANGED <<task, runner, runs>>
    /\ UNCHANGED <<windowVars, claim, reservation, usageVars, held, threadVars, goalVars, faults>>

(* A run ends with its task ready for review, or failed. *)
Settles(t) ==
    /\ task' = [task EXCEPT ![t] = "SETTLED"]
    /\ failed' \in {failed, failed \cup {t}}

\* Mutant of EndRun: a branch whose execution raised tries again by itself.
EndRunOrRetry(c, t) ==
    /\ branch[c][t] = "running"
    /\ \E label \in {"complete", "start"} : BranchTo(c, t, label)
    /\ IF runner[t] = c /\ task[t] = "LIVE"
          THEN /\ Settles(t) \/ UNCHANGED <<task, failed>>
               /\ runner' = [runner EXCEPT ![t] = NoOne]
          ELSE UNCHANGED <<task, runner, failed>>
    /\ UNCHANGED <<windowVars, claim, reservation, usageVars, held, threadVars, runs,
                   goal, allows, faults>>

(* The execution returns or raises; it settled the task, left it, or had lost   *)
(* the run to a reconciliation in the meantime.                                 *)
EndRun(c, t) ==
    /\ branch[c][t] = "running"
    /\ \E label \in {"complete", "abandon"} : BranchTo(c, t, label)
    /\ IF runner[t] = c /\ task[t] = "LIVE"
          THEN /\ Settles(t) \/ UNCHANGED <<task, failed>>
               /\ runner' = [runner EXCEPT ![t] = NoOne]
          ELSE UNCHANGED <<task, runner, failed>>
    /\ UNCHANGED <<windowVars, claim, reservation, usageVars, held, threadVars, runs,
                   goal, allows, faults>>

\* Mutant of SettleBranch: the completion is not fenced.
SettleUnfenced(c, t) ==
    /\ branch[c][t] \in {"complete", "abandon"}
    /\ claim' = [claim EXCEPT ![t].status = "COMPLETE"]
    /\ reservation' = [reservation EXCEPT ![t] = 0]
    /\ held' = [held EXCEPT ![c][t] = 0]
    /\ BranchTo(c, t, "done")
    /\ UNCHANGED <<windowVars, usageVars, task, threadVars, runner, runs, goalVars, faults>>

(* complete_task_claim; the except clause abandons what cannot be completed. *)
SettleBranch(c, t) ==
    /\ \/ /\ branch[c][t] = "complete"
          /\ Finalize(c, t, "COMPLETE")
          /\ BranchTo(c, t, "done")
       \/ /\ branch[c][t] = "complete"
          /\ ~HoldsClaim(c, t)
          /\ BranchTo(c, t, "abandon")
          /\ UNCHANGED vars
       \/ /\ branch[c][t] = "abandon"
          /\ Release(c, t, "FAILED")
          /\ BranchTo(c, t, "done")
    /\ UNCHANGED <<threadVars, runner, runs, goalVars, faults>>

-----------------------------------------------------------------------------
(* Faults.  A store call raises: in the tick's loop, where _run catches it and  *)
(* the claims made so far are forgotten; in the graph, before its branches run; *)
(* in a branch's settlement.                                                    *)
TickRaises(c) ==
    /\ faults < MaxFaults
    /\ pc[c] \in {"each", "claim"}
    /\ faults' = faults + 1
    /\ todo' = [todo EXCEPT ![c] = {}]
    /\ claimed' = [claimed EXCEPT ![c] = {}]
    /\ Goto(c, "poll")
    /\ UNCHANGED <<vars, stop, runVars, goalVars>>

GraphRaises(c) ==
    /\ faults < MaxFaults
    /\ pc[c] = "batch"
    /\ \A t \in claimed[c] : branch[c][t] = "start"
    /\ faults' = faults + 1
    /\ branch' = [branch EXCEPT ![c] = [t \in Tasks |-> "none"]]
    /\ Goto(c, "abandon")
    /\ UNCHANGED <<vars, stop, todo, claimed, runner, runs, goalVars>>

SettleRaises(c, t) ==
    /\ faults < MaxFaults
    /\ branch[c][t] \in {"complete", "abandon"}
    /\ faults' = faults + 1
    /\ BranchTo(c, t, IF branch[c][t] = "complete" THEN "abandon" ELSE "done")
    /\ UNCHANGED <<vars, threadVars, runner, runs, goalVars>>

(* The host dies with everything under way in it; the rows stay. *)
HostDies(c) ==
    /\ faults < MaxFaults
    /\ pc[c] # "off"
    /\ faults' = faults + 1
    /\ Goto(c, "off")
    /\ stop' = [stop EXCEPT ![c] = FALSE]
    /\ todo' = [todo EXCEPT ![c] = {}]
    /\ claimed' = [claimed EXCEPT ![c] = {}]
    /\ branch' = [branch EXCEPT ![c] = [t \in Tasks |-> "none"]]
    /\ UNCHANGED <<vars, runner, runs, goalVars>>

(* External: the owner runs a task by hand, or cancels it; while that run lasts  *)
(* a coordinator meets what it meets afterwards, a task it cannot claim.         *)
OwnerRuns(t) ==
    /\ task[t] \in Claimable
    /\ Settles(t)
    /\ UNCHANGED <<windowVars, claim, reservation, usageVars, held, threadVars, runVars,
                   goal, allows, faults>>

(* A client asks for the goal, which refreshes its status. *)
ClientReads(g) ==
    /\ Refresh({g})
    /\ UNCHANGED <<vars, threadVars, runVars, failed, allows, faults>>

(* Time passes and the owner stops the window, as in WindowBudget. *)
Surroundings ==
    /\ \/ WindowTimeout
       \/ StopWindow
       \/ \E t \in Tasks : ClaimTimeout(t)
    /\ UNCHANGED <<threadVars, runVars, goalVars, faults>>

ThreadStep(c) ==
    \/ Poll(c)
    \/ \E t \in Tasks : Authorize(c, t) \/ ClaimTask(c, t) \/ ClaimRefused(c, t)
    \/ Begin(c) \/ Abandon(c) \/ FinishTick(c)

BranchStep(c, t) == BeginRun(c, t) \/ EndRun(c, t) \/ SettleBranch(c, t)

CoordNext ==
    \/ \E c \in Coordinators :
          \/ Start(c) \/ Stop(c)
          \/ ThreadStep(c)
          \/ \E t \in Tasks : Reconcile(c, t) \/ BranchStep(c, t) \/ SettleRaises(c, t)
          \/ TickRaises(c) \/ GraphRaises(c) \/ HostDies(c)
    \/ \E t \in ByHand : OwnerRuns(t)
    \/ \E g \in Watched : ClientReads(g)
    \/ Surroundings

CoordSpec == CoordInit /\ [][CoordNext]_coordVars

(* The thread and the branches of a batch keep running, executions end (every   *)
(* executor call has a timeout) and the clock moves on.                         *)
BatchStep(c) == \E t \in Tasks : BranchStep(c, t)
ClockStep    == (\E t \in Tasks : ClaimTimeout(t)) /\ UNCHANGED <<threadVars, runVars, goalVars, faults>>

FairCoordSpec ==
    /\ CoordSpec
    /\ \A c \in Coordinators : WF_coordVars(ThreadStep(c)) /\ WF_coordVars(BatchStep(c))
    /\ WF_coordVars(ClockStep)

-----------------------------------------------------------------------------
(* The variables keep their types. *)
CoordTypeOK ==
    /\ stop \in [Coordinators -> BOOLEAN]
    /\ pc \in [Coordinators -> {"off", "poll", "each", "claim", "abandon", "batch"}]
    /\ todo \in [Coordinators -> SUBSET Tasks]
    /\ claimed \in [Coordinators -> SUBSET Tasks]
    /\ branch \in [Coordinators -> [Tasks -> Branches]]
    /\ runner \in [Tasks -> Coordinators \cup {NoOne}]
    /\ runs \in 0..(MaxTasks + MaxRetries)
    /\ goal \in [Goals -> {"RUNNING", "BLOCKED", "COMPLETED"}]
    /\ failed \subseteq Tasks
    /\ allows \in Policies
    /\ faults \in 0..MaxFaults

(* One coordinator never runs more than max_concurrent_tasks branches at once,  *)
(* although its claims expire un-renewed and then no longer count: a batch is   *)
(* cut from a list of that length, and ends before the next is claimed.         *)
WipPerHost ==
    \A c \in Coordinators :
        Cardinality({t \in Tasks : branch[c][t] \notin {"none", "done"}}) <= MaxConcurrent

(* A coordinator between two ticks, or stopped, holds no claim: whatever was     *)
(* claimed when stop came in was executed or abandoned.  Only a store call that  *)
(* raised can leave one behind until its lease expires.                          *)
IdleHoldsNothing ==
    \A c \in Coordinators, t \in Tasks :
        pc[c] \in {"off", "poll"} /\ faults = 0 => ~HoldsClaim(c, t)

(* Every execution a coordinator begins was paid for: a claim allows one          *)
(* execution, whatever is abandoned, taken over, retried or lost in between.      *)
ExecutionsArePaid == runs <= started + retries

(* stop ends the thread, at the latest when the batch under way is done. *)
StopEndsThread ==
    \A c \in Coordinators : stop[c] ~> pc[c] = "off"

Serving(c) == ~stop[c] /\ pc[c] # "off"

(* What keeps a candidate from being claimed for good: its dependencies or the   *)
(* policy keep it off the list or out of the claim, or a budget refuses it.       *)
PassedOver(t) == ~Unblocked(t) \/ Operation(t) \notin allows
OverBudget(t) == ~Admissible(t) \/ (reservation[t] = 0 /\ ~Affordable)

(* A candidate is held up by itself, by a task before it at which the tick stops *)
(* because a budget refuses it, or by so many tasks before it that are passed     *)
(* over that they fill the list.                                                  *)
HeldUp(t) ==
    LET before == {u \in Candidates : u < t}
    IN  \/ PassedOver(t)
        \/ \E u \in before \cup {t} : ~PassedOver(u) /\ OverBudget(u)
        \/ Cardinality({u \in before : PassedOver(u)}) >= MaxConcurrent

(* While a coordinator serves an open window, a queued or interrupted task of a   *)
(* running goal is started unless it is held up: leaked and expired claims, lost  *)
(* batches, dead hosts and other goals that are blocked delay it, no more.        *)
QueueDrains ==
    \A t \in Tasks :
        []<>(\/ t \notin Candidates \/ HeldUp(t)
             \/ \A c \in Coordinators : ~Serving(c)
             \/ ~Open)
=============================================================================
