# TLA+ verification of the Nerelan platform core

This directory models the durable part of the platform, `src/reverse_agent/platform_v1/`: how
a task is executed, survives the death of its worker, is admitted against a budget, belongs to
a goal, is driven by the unattended coordinator and is published. TLC checks the modules on small instances; TLAPS proves the central
invariants for every value of the constants.

Tools: `tlc -config X.cfg M` for a run of `PROJECT.json`, `tlapm M.tla` for a proof module.

## 1. The system

A trusted local host serves an HTTP API and runs an unattended coordinator. Both work on one
SQLite database through two store classes and call one execution service. The work itself is
done by an executor, an OpenCode subprocess in a linked git worktree or a deterministic
fixture.

```
 owner / frontend --HTTP--> task_service --+--> goal_service ----> control_store  (goals, links,
                                           |                          |            windows, claims,
 trusted_host --start--> reconciliation    |                          |            reservations)
                    \                      v                          | same SQLite file
                     +--> unattended_coordinator --> durable_execution --> run_store (tasks, runs,
                                                        |                            checkpoints,
                                                        +--> executor (external)     journal, usage)
```

| Component | State | Operations | Correct when |
|---|---|---|---|
| Durable run store (`run_store.py`, `TaskStore`) | task status; the task's one durable run with lease owner, epoch, expiry and recovery classification; checkpoint history; journal of external operations; usage rows | acquire, heartbeat, release, recover, accept checkpoint, transition, classify, terminalize, record/reconcile operation, reconcile expired runs, cancel | at most one worker can write; the log is gapless; a terminal status is final; an interrupted task can be resumed |
| Durable execution, single mode (`durable_execution.py`) | the local state of each `execute_durable_single` / `resume_single` call | prepare, dispatch, accept results, validate, finish; resume from a checkpoint | ready means validated; the executor is dispatched once per journal entry; every task settles |
| Durable execution, sequential team (`durable_execution.py`) | the same, with three roles | execute and resume role by role; keep a coder's partial work | what is offered for review is what the coder made; the task settles |
| Windows, claims, budgets (`control_store.py`) | window status, counters and observed usage; one claim per task; reservations; charges | claim, complete, abandon, expire, stop; append usage | the budget is not overcommitted; usage is charged exactly once |
| Goals (`goal_service.py`, `control_store.py`) | goal row with revision, plan, status, window; links of a revision's tasks | create, plan, approve, amend, launch, refresh, choose runnable tasks | tasks follow the approved plan; dependencies come first; launched work is driven |
| Unattended coordinator (`unattended_coordinator.py`) | claims in hand, stop flag, dispatch counter, thread | start, stop, tick, batch, settle or abandon a claim | work in progress is bounded; no claim leaks; executions are paid for; a stop ends the thread; the queue drains |
| Autonomy policy (`autonomy.py`) | none | activate, authorize | only allowed work is claimed |
| Draft publication (`publication_controller.py`) | publication row of a task; worktree, remote branch, pull request | commit, push, open a draft pull request, record each | the row never claims more than was pushed; one commit; a retry completes |

`PROJECT.json` lists every component, the ones that are not modelled too.

What is hard here:

* **Concurrency.** HTTP threads, the coordinator's pool and heartbeat threads share the rows.
  Each store operation is one `BEGIN IMMEDIATE` transaction, but services take several of
  them and act on rows they read earlier (`resume_single`, `launch`, `refresh_goal_status`,
  `tick`, the two phases of `_reconcile_expired_runs`).
* **Crashes.** A process may die between any two transactions. Nothing is released; the lease
  expires and a later host start interrupts the task.
* **Timeouts.** A stalled holder comes back after its lease, or its coordinator's claim, was
  taken over.
* **Partial failure.** A step of an execution raises; the executor may report an error after
  the journal was written; a tick raises with claims in hand; a git or `gh` command fails
  between two recorded states.
* **Accounting.** Usage arrives late, may be replayed, and the claim that pays for it may have
  changed hands.

## 2. The modules

| Module | Models | Extends |
|---|---|---|
| `FencedLog` | what the run store promises: a log with one writer at a time | |
| `DurableStore` | the run store's durable operations; implements `FencedLog` | |
| `DurableStoreProofs` | theorems about it, the refinement included | `DurableStore` |
| `DurableSingle` | single-mode execution and resume, with journal and executor; implements `DurableStore` | `DurableStore` |
| `DurableSingleProofs` | theorems about it, the refinement included | `DurableSingle`, `DurableStoreProofs` |
| `DurableTeam` | the sequential team and its resume; implements `DurableStore` | `DurableStore` |
| `DurableTeamProofs` | theorems about it, the refinement included | `DurableTeam`, `DurableStoreProofs` |
| `WindowBudget` | admission and budget of one window | |
| `FiniteSums` | lemmas: induction over a finite set, and what a sum over one is | |
| `WindowBudgetProofs` | theorems about it | `WindowBudget`, `FiniteSums` |
| `Coordinator` | hosts, their polling threads and batches; implements `WindowBudget` | `WindowBudget` |
| `CoordinatorProofs` | theorems about it, the refinement included | `Coordinator`, `WindowBudgetProofs` |
| `Publication` | concurrent publish calls for one task | |
| `PublicationProofs` | theorems about it | `Publication` |
| `GoalLifecycle` | one goal, its links, its launches, refreshes and claims | |
| `GoalLifecycleProofs` | theorems about it | `GoalLifecycle` |
| `MC...` | constant values for TLC | the module they are named after |

A definition named "Mutant of X" is a plausible fault of the code that X models. No
specification uses it: it documents which property notices that fault.

The refinements form two chains: `DurableSingle` and `DurableTeam` implement `DurableStore`,
which implements `FencedLog`; `Coordinator` implements `WindowBudget`.

### FencedLog

Three actions, `Grant`, `Drop` and `Write`, on a holder, a term and a log. `DurableStore`
instantiates it (`Fenced`): the holders are the workers that pass the fence, the term is the
lease epoch, the log is the checkpoint history without its artifacts. A grant to a new worker
while the old one still runs is a single step of the store, and that is the promise.

### DurableStore

The store as its callers may use it. One task, its one run (a unique index
allows no second), any number of workers. A *worker* is one call of execute or resume; it
owns a handle, the lease epoch it was given, and passes an owner name which it may share with
others (every HTTP resume passes `task-api-resume`). Each store method is one action:
`Acquire`, `Recover` (resume of an interrupted task), `RecoverAborted` (the call without
`require_interrupted`), `Heartbeat`, `Release`, `AcceptCheckpoint`, `TransitionTo`,
`ClassifyFailure`, `Terminalize`, `SetRecoveryClassification` and the two-phase
reconciliation `ReconcileSelect` / `ReconcileInterrupt` / `ReconcileSkip`. The callers are
unconstrained: any worker may call anything at any time with its handle, however old.

Abstracted: wall-clock times become `none`, `live`, `expired`, and for a reconciliation under
way the fact whether the expiry it selected on was renewed since; digests become artifacts;
checkpoint names become their ranks 0..4.

### DurableSingle

The execution service as a concurrent program on that store. `pc[w]` is the next transaction
or external call of worker `w`. Checkpoint, transition and classification steps are the same
code with other arguments, so they are tables (`AcceptSteps`, `TransitionSteps`,
`ClassifySteps`). `resume_single` is its three reads (`ResumeFind`, `ResumeReadRun`,
`ResumeReadTask`) followed by the recovery and by the branch on the checkpoint read.
`RequestDigest` keeps the one thing that matters about the journal key: the first run
computes it from the service's workspace root, a resume from the recorded worktree path.

The environment may kill a call at any step (`Crash`), stall it past its lease (`Expire` with
a holder), raise inside it (`RaiseIOFault`), and the executor may succeed, fail or raise. The
composition with the store is a refinement: `StoreSpec` is a property of `SingleSpec`, under
the identity mapping of the store's variables.

### DurableTeam

Planner, coder and reviewer in one worktree. The product diff of the worktree is a small
number, since the code only compares diffs and tests them for emptiness. A role edits
(`RoleEdits`, also moving `HEAD`) before it ends, and `RoleSucceeds` or `RoleFails` applies the
code's check of that role: planner and reviewer must leave the diff as it was, the coder must
leave one that is not empty. The first execution and the resume differ, and the module keeps the differences:
only the first execution looks at `HEAD`; a resume at `POST_PLANNER` keeps partial coder work
(`KeepPartial`), counts the role attempt and classifies the run `interrupted`
(`SetRoleAttempt`, `ClassifyInterrupted`); a resume at `POST_REVIEWER` announces the terminal
status before it accepts `POST_VALIDATION` (labels `late...`). Crash, stall, heartbeat and
reconciliation are those of `DurableSingle`, and `StoreSpec` is again a property.

### WindowBudget

One activated window. `Claim` and `Finalize` are the two transactions of `control_store.py`
with all their reads and writes; `Observe` is `append_usage_observation`. Tasks and wall-clock
expiries move as an environment. `held` is what a coordinator remembers; it may be used late
(after a takeover) or lost. The specification leaves the choice between completion and
abandonment open.

### Coordinator

`UnattendedCoordinator` as one thread per host and one branch per claimed task. `Poll` is the
head of `_run` with the active window and `runnable_tasks(limit)`: of the queued and interrupted
tasks whose goal is `RUNNING` (`Candidates`) the first `max_concurrent_tasks`, and of these the
ones whose dependencies are ready (`Listed`). One turn of the tick's loop is `Authorize`, which
passes a task over when the window is closed or its policy lacks the operation, and then
`ClaimTask` or `ClaimRefused`; a refused claim writes nothing, and a refusal for a limit ends
the loop. `allows` is what the policy admits, `resume_task` for an interrupted task and
`execute_task` for a queued one; it stands for the repository and capability checks of
`authorize`. `Begin` is `_begin_dispatch`, which decides
under the lock between running the batch and abandoning it; `Abandon`, `FinishTick`,
`BeginRun`, `EndRun` and `SettleBranch` are the rest of the tick, a branch being one
`execute_assignment`. `FinishTick` refreshes the goals of the batch and `ClientReads` the goal a
client asks for, so that a goal with a failed task becomes `BLOCKED` and leaves the list. The
refresh is one step here; `GoalLifecycle` takes it apart. The claims are the actions of
`WindowBudget`, so `BudgetSpec` is a property. Here the caller decides between completing and abandoning, which `WindowBudget`
leaves open. Faults: a store call raises in the loop (the claims are forgotten), in the graph,
or in a settlement; a host dies. `Reconcile` may take a durable run away from a stalled branch.

### Publication

`pc[c]` is the next store access or git or `gh` command of a `publish` call. The labels of the
first path stand inside the code's `try`, whose handler records `FAILED`; those that end in
`Again` are the path that continues a recorded commit, which has no handler. `row` is the
`platform_publications` row with its upsert rules; `existing` and `record` are the copies a
call keeps. A command may fail or the host may die at each step.

### GoalLifecycle

One goal over several revisions. `SavePlan`, `Approve` and `Amend` are single conditional
updates. A launch is `LaunchStart`, one `LaunchLink` per plan row, `LaunchCheck`,
`LaunchMark`; a refresh is `RefreshRead` and `RefreshWrite`; the coordinator's tick reads
candidates (`TickRead`, with `runnable_tasks`) and then takes them one by one in plan order:
`TickClaim`, or `TickRefuse`, which gives up the rest of the list when a limit is reached.
`Admits` has the checks of `authorize` and `claim_task`: window open, operation in the policy,
work in progress, claimable status, task or retry budget, units. The window row keeps the two
counters; whether it is short of token or cost units (`short`) moves freely (`UnitsMove`), since
what reserves and releases them is `WindowBudget`'s subject. A claim lasts as long as its
execution; claims that expire or leak are `Coordinator`'s subject. How a claimed task executes is
left to the environment, which includes the API routes that run or cancel a task by hand.

## 3. What the runs check

| Run | Instance | Shows |
|---|---|---|
| `MCDurableStore` | 2 workers with one owner name, 2 reconcilers, 3 epochs | type, `CheckpointLog`, `InterruptedIsResumable`, `CancelledNeverRan`, `TerminalIsFinal`, `LiveLeaseIsKept`, and the refinement `FencedLogSpec` |
| `SingleRace` | OpenCode, 2 calls, 1 crash, 1 stall, 3 epochs | `ReadyIsValidated`, `JournalledDispatch`, `JournalBacksLog`, and the refinement `StoreSpec` |
| `SingleRestart` | OpenCode, 2 crashes, 1 stall, 5 epochs, fair | `EventuallySettled` |
| `SingleFaults` | fixture, 2 calls, 1 crash, any exception | `ReadyIsValidated`, `SuccessIsDurable` still hold |
| `TeamRace` | 2 calls, 1 crash, no stall, 3 epochs, fair (729 000 states) | `ReviewedIsCoded`, `EventuallyTeamSettled`, and the refinement `StoreSpec` |
| `WindowBudget` | 2 coordinators, 2 tasks (one a fixture), 2 messages, 1 retry | `ClaimIsBacked`, `NeverOvercommitted`, `UsageIsExact`, `ClaimIsKept` |
| `CoordinatorRace` | 2 hosts, 2 tasks of one goal, limit 1, 2 starts and 1 retry, no fault (1.6 million states) | `WipPerHost`, `IdleHoldsNothing`, `ExecutionsArePaid`, and the refinement `BudgetSpec` |
| `CoordinatorDrain` | 1 host, 3 tasks of 2 goals, one dependency, limit 2, 2 starts and 1 retry, with and without `resume_task`, 1 fault, fair (209 000 states) | `StopEndsThread`, `QueueDrains` |
| `GoalRace` | 2 callers, 2 revisions, plans of 1 and 2 tasks, limit 1, 1 start and 1 retry (4.4 million states) | `ClaimedAfterDependencies`, `LinksFollowPlan`, `ApprovedPlanIsFinal` |
| `GoalDriven` | 1 caller, 3 tasks, one dependency, limit 2, 1 retry, units that run short, with and without `resume_task`, fair (207 000 states) | `EventuallyDriven` |
| `PublicationRace` | 3 calls, 2 with the same request, 1 fault, fair (221 000 states) | `PublishedIsPushed`, `CommittedOnce`, `RecordedCommitCompletes` |

One run shows where the code departs from what it says of itself, and is the finding of
`PROJECT.json`: `SingleDispatchTwice` refutes `DispatchedOnce`. A resume looks in the journal
under another request digest than the first run used, so the executor is started twice.

### Observed while modelling

Further consequences, found with the same modules and not kept as runs.

Durable execution:

* `\A w \in Workers : answer[w] = "success" => status \in Ready` fails in `DurableSingle`: a
  call that dies after `POST_VALIDATION` leaves `INTERRUPTED`, and `resume_single` answers
  success without settling the task (`durable_execution.py:2564`). `SuccessIsDurable` is what
  does hold.
* `[][dispatched' # dispatched => accepted = 0]_vars` fails in `DurableSingle`: a resume that
  read the run row before the holder accepted its result and failed recovers the run and
  dispatches again (`durable_execution.py:2483`).
* A single call that dies while it accepts the checkpoints of a failed executor leaves a run
  whose resume validates and shows the task as ready: being ready means validated
  (`ReadyIsValidated`), not that the executor succeeded.
* An exception under the lease releases it with expiry 0 and leaves `RUNNING`. Reconciliation
  wants an expiry above 0 and resume wants `INTERRUPTED`, so the task stays `RUNNING`; hence
  `SingleRestart` has crashes and stalls and no exceptions.
* An accepted team role can be invoked again, although `durable_execution.py:9` says
  "TaskStore-accepted roles are NEVER re-invoked on recovery.": a resume reads the run row
  before the holder accepts `POST_PLANNER`; the holder fails; the resume then finds `FAILED`,
  recovers without `require_interrupted` and starts at the planner. The same recovery takes a
  lease that is still live.
* A team task interrupted twice stays `RUNNING`: the first resume sets the classification
  `interrupted` (`durable_execution.py:3238`), which the update of the reconciliation does not
  accept. `EventuallyTeamSettled` is therefore about one crash.
* A team resume at `POST_VALIDATION` answers success and leaves the task's status as it is.
* `ReviewedIsCoded` needs `MaxStalls = 0`: a stalled role still edits the worktree its
  successor works in. Fencing protects the rows, not the files.
* `ReviewedIsCoded` also fails with three crashes and four epochs, without any stall. A first
  resume reads the run at `POST_CODER`; a second one recovers it, accepts `POST_REVIEWER` and
  dies. The first then takes the lease and still continues where it read: its reviewer edits
  the worktree, and dies before the store can refuse its checkpoint. A resume that starts at
  `POST_REVIEWER` compares no snapshot, so it validates the edited product and shows it as
  ready. `recover_durable_lease` compares the task's status and not the checkpoint the caller
  read. The proof of `ReviewedIsCoded` came upon this, and covers one crash.

Goals:

* `LIMIT` is applied before blocked rows are dropped; with limit 1 a plan that lists a task
  before its dependency never starts. A task whose operation the policy lacks fills its place of
  the list in the same way, with every tick. `EventuallyDriven` and `QueueDrains` name this state
  (`HeldUp`).
* An interrupted task needs a retry, and `max_retries` is 0 unless the owner sets it; without a
  retry, or without `resume_task` in the policy, it stays `INTERRUPTED` in an open window until
  somebody resumes it by hand.
* One failed task makes its goal `BLOCKED` with the next refresh, and the goal's other tasks are
  not listed again, also those that do not depend on it.
* A refresh during a launch turns the goal `RUNNING` without a window; this launch and all
  later ones are refused.
* `goal.status \notin {"DRAFT", "PLANNED"} => goal.plan # NoPlan` and
  `[][\A l \in claimed' \ claimed : l.revision = goal.revision]_vars` fail in
  `GoalLifecycle`: a refresh that read before an amendment overwrites the new draft's status
  (`control_store.py:636`), and a tick that read before it claims a task of the old plan
  (`unattended_coordinator.py:168`).
* `goal.status = "COMPLETED" => \A n \in 1..Len(goal.plan) : task[goal.revision][goal.plan[n].id] \in Ready`
  fails in `GoalLifecycle`: a launch that was cut short has linked only some tasks, and the
  refresh judges the goal by those (`control_store.py:628`).

Coordinator and publication:

* A stop between the claim and the dispatch of a non-fixture task abandons a claim without
  usage rows, which counts as unknown usage and blocks the window.
* `tasks_started` counts claims, so a host that dies between claim and execution has spent
  budget for nothing; `ExecutionsArePaid` is an inequality for that reason.
* The tick leaves its loop when the retry budget is exhausted, and queued tasks listed after
  the interrupted one wait, although the task budget would admit them: this is one of the cases
  of `HeldUp`. TLC violates `QueueDrains` and `EventuallyDriven` if any of these cases is left out.
* `publish` may overwrite another call's `COMMIT_CREATED` or `COMPLETE` by the row it read before
  (`publication_controller.py:187`). `PublishedIsPushed` allows that, and
  `RecordedCommitCompletes` is about a commit that stays recorded.
* A tick that raises forgets its claims until their lease expires; `IdleHoldsNothing` says so
  with `faults = 0`.
* The limit of concurrent tasks counts claims with a live lease, which nothing renews, so two
  hosts together may exceed it; `WipPerHost` is what each host keeps.
* A host that dies between `git commit` (`publication_controller.py:155`) and the record of
  `COMMIT_CREATED` leaves a commit no row knows; every retry fails with
  `publication_workspace_head_drift`, while the module calls itself idempotent (line 1).
  `RecordedCommitCompletes` starts from the recorded commit.

### Bounds

* *Two workers, three epochs.* Fencing is about one superseded and one current holder; two
  takeovers in a row let a stale handle meet an epoch it never saw. With one owner name for
  both, only the epoch tells them apart. The theorems remove the bound.
* *Two reconcilers*, because a pass can also be overtaken by another pass. `DurableSingle` uses
  one: its steps refine the store's, where two were checked.
* *One crash and one stall* in `SingleRace` let a killed call, its successor and a stalled call
  meet. `SingleRestart` has two crashes, so that a resumed run is itself interrupted; its five
  epochs are more than two crashes, a stall and the first lease can use, so `MaxEpoch` never
  stops progress there.
* *Two tasks, two messages, one retry, limit two tokens* in `WindowBudget`: the limit is
  exactly two reservations, so one observed unit decides about admission; cost is observed
  and not enforced, so both cases of the limit occur. `started` and `retries` bound the
  number of claims.
* *Two revisions* in `GoalRace`: a launch, refresh or tick begun in the first can act in the
  second. The out-of-order plan makes a dependency be linked after its dependent. One start and
  one retry bound the claims; a dependency may also be run by hand.
* *Three tasks, limit two* in `GoalDriven` and `CoordinatorDrain`: a blocked, denied or refused
  task stands in the list before, beside or after one that could run. The task budget of
  `GoalDriven` admits all three tasks, that of `CoordinatorDrain` does not; the retry budget is
  reached in both.
* *One crash, two products, three epochs* in `TeamRace`: a product is absent or present,
  partial work is kept, undone or replaced, and a resume meets the call it replaces. Were
  `MaxEpoch` to stop a resume that is needed, `EventuallyTeamSettled` would fail.
* *Two hosts, limit one* in `CoordinatorRace`, so that one host's live claim refuses the other
  and an expired one is taken over; two starts and a retry let a task be claimed again. Usage is
  left to `WindowBudget`, goals and policies to `CoordinatorDrain`, which has two goals, so that
  one may be blocked before the other, a batch of two branches, and one fault of any kind.
  `Watched` and `ByHand` bound the environment: which goals clients read, and which tasks the
  owner runs or cancels.
* *Three calls, one fault* in `PublicationRace`: two equal requests race, a third has another
  digest, and a failure sends one of them down the continuing path.
* `CHECK_DEADLOCK FALSE` everywhere: a settled task, a closed window and a finished goal
  really are ends.

### Fairness

* `SingleFairness`: a call continues (`WF(Call)`), because it is a Python thread that blocks
  on nothing but the executor and the database; an idle worker is called again, because the
  coordinator offers interrupted tasks with every tick; reconciliation passes recur, because
  every host and coordinator start runs one, and a crash is only followed by progress if the
  host is started again; a lease nobody holds expires, because that is the wall clock. Nothing
  is assumed about heartbeats, stalls or faults.
* `TeamFairness`: the same for team calls.
* `FairCoordSpec`: the polling thread goes on, some branch of a batch goes on while one can,
  because every executor call has a timeout, and claims expire with the clock. Nothing is assumed
  of one task in particular, of the window, or of clients. A start, a stop and a
  fault are never assumed.
* `FairPublicationSpec`: a call continues and the owner's client repeats it; every subprocess
  of the controller has a timeout.
* `Fairness` of `GoalLifecycle`: the coordinator's loop ticks and goes through what it read; a
  refresh follows every batch and every poll of a client; `SF(Settle)` and `SF(RefreshWrite)`
  say that an execution, or a refresh, that is tried again and again is not interrupted every
  time. Launches, plans and approvals are not assumed to happen.

## 4. What is proved

All proofs hold for every value of the constants that satisfies the named assumptions: any
number of workers, owner names, reconcilers, coordinators, tasks, messages, callers, plans and
revisions.

**`DurableStoreProofs`**, from `OwnerAssumption` (owner names, the empty one is none of them)
and `EpochAssumption`. `SingleHolder` is not inductive by itself. `StoreInv` adds
`HandleInv` (a handle is at most the run's epoch, and a positive epoch is held by one worker at
most), `LogInv` (ranks, epochs and writers of the log; no row's epoch is above the
current one, and a row with the epoch of some worker's handle was written by that worker) and `RowInv` (what
the run row says in each task status, and that a pass that still counts as due has no live
lease in front of it). From it: `StoreTypeCorrect`, `AtMostOneHolder`, `LogIsSound`,
`InterruptedTaskIsResumable`, `CancelledTaskNeverRan`, and the action properties
`TerminalStatusIsFinal`, `FencedHandleStaysFenced`, `RenewedLeaseIsKept`,
`DurableStateProgresses`. `StoreImplementsFencedLog` proves `StoreSpec => FencedLogSpec`: an
accepted checkpoint appends one row to the log (`ViewAppend`); every step that takes the lease
is a grant (`TakeIsGrant`), because the epoch rises and `HandleInv` leaves no old handle with
the new epoch; every step that ends it is a drop (`LoseIsDrop`); the rest stutters.

**`WindowBudgetProofs`**, from `TasksAssumption` (finitely many tasks), `LimitAssumption` and
`UnitAssumption`. `BudgetInv` is the conjunction of the invariants themselves: admission needs
that each reservation backs exactly one active claim, so that a finalization frees one
reservation and charges at most that much unless it blocks the window. From it:
`BudgetTypeCorrect`, `ClaimsAreBacked`, `BudgetIsNeverOvercommitted`, `UsageIsNotLost`,
`ClaimsAreKept`.

**`GoalLifecycleProofs`**, from `PlanAssumption` (plans are non-empty sequences of items over
the plans' task names) and `GoalBoundAssumption` (limits are numbers, policies allow operations).
`GoalInv` adds two facts about work in flight: what a launch read is the goal's plan as long as the goal is at the launch's revision
(`SnapshotIsApproved`, with `LinksAreApproved` and `ApprovedHasPlan`), and the dependencies of
an offered candidate are ready, which is for ever (`OfferedAfterDependencies`). That the
counters of a window stay within its limits is part of the type. From it:
`GoalTypeCorrect`, `DependenciesFirst`, `LinksAreOfThePlan`, `ApprovedPlanStays`.

**`CoordinatorProofs`**, from the assumptions of `WindowBudget`, `OrderAssumption` (tasks are
numbered), `GoalAssumption` (each task has a goal, dependencies are tasks; they may be cyclic or
cross goals) and `FaultAssumption`. `CoordinatorImplementsBudget` proves `CoordSpec => BudgetSpec`,
so the theorems of `WindowBudgetProofs` hold of the coordinator. `CoordInv` says where work can
be: what a tick has listed and claimed fits the limit (`WidthInv`; that `runnable_tasks` keeps
it is `ListedIsShort`, by the largest task listed); branches exist only in a batch and for its
claims (`BatchInv`); executions begun and executions that may still begin are together paid for
(`PaidInv`: a claim adds one to both sides, a start moves one over); a claim held is in the
hands of the tick or of a branch that will settle it (`IdleInv`). It is proved together with
`BudgetInv`, since each step needs the types of both. From it: `CoordinatorTypeCorrect`,
`WorkInProgressIsBounded`, `IdleCoordinatorHoldsNothing`, `EveryExecutionIsPaid`.

**`PublicationProofs`**, from `RequestAssumption` and `FaultAssumption`. `PubInv` is the type
invariant with `SharedInv` (what row, worktree and remote say of each other: the worktree has at
most one commit, and what the row or the remote names is that commit) and `CallInv` (what a
call's copies and its place in the program say of them: past its push the remote has the commit
the call will record). The second is needed because a call writes what it read many steps
before. From it: `PublicationTypeCorrect`, `PublishedCommitIsPushed`, `WorktreeCommittedOnce`.

**`DurableSingleProofs`**, from the store's assumptions, `KindAssumption`,
`ArtifactAssumption` and `BoundAssumption`. `SingleImplementsStore` proves
`SingleSpec => StoreSpec`, so every theorem about the store holds of the service. It needs
`CallInv`: a call has a handle exactly between taking and leaving its lease, and a call that
recovers an aborted run has read a status that is final. `SingleInv` adds `ValidInv`: whoever
passes the fence at the labels around `POST_VALIDATION` finds the exit code it stored, and a
ready task leaves its holder nothing to write; both are about the holder, since a superseded
call may stand at any label. From it: `SingleTypeCorrect`, `ReadyMeansValidated`,
`SuccessMeansDurable`. `JournalInv` is about the journal: a record belongs to the one call that
stands between writing it and accepting its result (`OneOwner`), the first run is the only call
that uses the digest of the workspace root (`ModeInv`: it has epoch 1), and the record behind an
accepted result is in nobody's hands any more. From it: `ExecutorStartsOncePerDigest` and
`LogIsBackedByJournal`, both under `~IOFaults`: a database error while the journal is read is
answered like an absent record, and the call then dispatches.

**`DurableTeamProofs`**, from the store's assumptions, `ProductAssumption`,
`TeamArtifactAssumption` and `TeamBoundAssumption`. `TeamImplementsStore` proves
`TeamSpec => StoreSpec`; that the attempt number is an artifact the store knows needs
`AttemptInv` (attempts never outrun the epochs), which also gives `TeamTypeCorrect`.
`ReviewedIsCoded` is not inductive. `ReviewInv` adds `HolderInv` (without stalls a task that is
not aborted has no superseded call), `RankOK` (at each label of the holder, which checkpoint is
the last), and `SnapshotOK` (the product a call carries from the coder to the reviewer, and
that what a resume has read of the coder's digest is still true, because the digest is fixed
once the coder's checkpoint is accepted).

`ReviewSurvivesOneCrash` proves it with `MaxStalls = 0` and at most one crash, for any number of
calls. `OnceInv` adds `StatusOK` (the task's status at each label of the holder, from which it
follows that the store refuses none of its steps) and `OrphanInv` (a run loses its holder by the
crash or with nothing left to run, so what the waiting resumes have read stays current). Both
bounds are needed: section 3 has the executions of the code that break the property with a stall
and with three crashes.

**`FiniteSums`** proves what `SumFunctionOnSet` of the community module `Functions` computes
over a finite set: it does not depend on the order in which the fold picks elements
(`SumTakesOut`), and how it changes with one summand (`SumAfterChange`). The induction theorems
of the library have the property as an operator parameter, which the provers cannot
instantiate. `SubsetInduction` has it as a set of subsets instead, and is derived from the
library's well-foundedness of strict inclusion by a minimal counterexample; that the fold's
recursive function exists at all (`SumsExist`) is proved with it too.
`ObservedUsageIsExact` in `WindowBudgetProofs` uses it: beside the types it only needs that the
usage rows are finitely many. A finalization moves the task's units from the pending to the
observed side, and a new row adds the same to both.

**Only model-checked:** the liveness properties `EventuallySettled`, `EventuallyTeamSettled`,
`EventuallyDriven`, `StopEndsThread`, `QueueDrains` and `RecordedCommitCompletes`, because the
prover has no rules for fairness and `ENABLED`. Every invariant and every safety property of
the runs has a theorem.

## 5. What is not modelled

* The unfenced writers of the run store belong to the legacy, non-durable path
  (`task_execution.py`, `task_runtime.py`); a durable task does not take it.
* Evidence, events, comments, changed files and receipts are columns no guard reads. Their
  fenced writes only raise when the lease is lost, and then the next step raises too.
* Executor subprocess, SSE transport, git, HTTP routing, JSON and the frontend are I/O; they
  appear as the outcomes their callers tell apart.
* A person who closes or merges the pull request, so that `pr.open` stays true once it is set.
  `CheckPr` looks at the pull request itself where the code looks at the list it has just read;
  the mismatch of its base is left out because the base branch is part of the request's digest.
* Roles of a team are classified as failed: the code has a `blocked` outcome, which is terminal
  as well and which no role reports.
* The coordinator is modelled with a durable identity configured; without one it runs fixture
  tasks through the legacy service.
* The project gate (38 900 lines), project state and landing tools check the documents of one
  repository snapshot and write reports; the solvers (`compare_aware_search.py`, 28 800 lines,
  samples, debugger scripts) are numeric search over binaries and calls of external tools. They
  are sequential, keep no state another actor sees, and are most of the repository's lines: the
  share of lines the modules stand for is small for that reason. What they compute is a matter
  of strings, files and numbers that a model of their control would not tell apart.
* The remaining parts of `platform_v1` are read models, validation of one document, and
  clients; `PROJECT.json` gives the reason for each.

## 6. Plan

1. The steps behind the liveness properties, as far as they are safety: that a pending step of
   the holder stays possible until it is taken (`NeverRefused` is one of these), and that a
   settled run stays settled.
2. Several windows: the check and the insert of `AutonomyService.activate` in two
   transactions; lease expiry of the credential relay's tokens.
