# Verification of the V8 engine's ledgers, lanes and episodes

V8 Agent OS is a local agent platform: a Python engine (`src/apps/v8-agent-os-engine`, below "the engine")
over one SQLite state database, and front ends for the web, the phone, the desktop and the terminal.  The
engine starts *effects* on the outside world: commands, python jobs and agent runs that cron and hooks
trigger, tools that were approved by a person, agents that delegate to agents, tasks given to a neighbouring
engine, calls of paid models.  What decides whether
an effect may run, and what is believed of it afterwards, is a handful of small state machines over rows of
the database.  Threads, asyncio tasks, a periodic tick, people pressing buttons and restarts all move them.
This directory models those state machines in TLA+, checks them with TLC and proves properties of them with
TLAPS.

## 1. Inventory

All paths are relative to the engine.

| Component | State it keeps | Operations | Hard part |
|---|---|---|---|
| Side-effect receipts: `erc/side_effect_idempotency.py`, statements in `core/database.py` 2480-2870 | a `runtime_side_effect_receipts` row per idempotency key: state, owner, 300 s lease | begin, complete, fail, mark_indeterminate, reconcile | a lease that nothing renews, crashes around the external action, late reports |
| Automation delivery: `core/automation/delivery.py`, statements in `core/database.py` 2129-2510 | a `runtime_automation_deliveries` row: phase, owner, 30 s lease, attempt's run, receipt key | enqueue, kick (claim), transition, settle, finished, renew, reconcile, operator reconciliation | two owners at once, crash after the executing compare-and-set, cancel and resume in the middle |
| Action executor: `core/action_executor.py` | an invocation's locals; `_active_targets` (cron mutex) | the walk from binding a run to the `finally` clause | every step is a transaction of its own; exceptions and cancellations between any two |
| Run records and commands: `erc/kernel.py`, `erc/run_service.py`, `erc/command_service.py`, `erc/runtime_control.py` | `run_records`: status, metadata with one pending control signal | transitions, cancel, pause, interrupt, resume, retry, consume a signal | unconditional status writes next to conditional ones |
| Approvals: `erc/command_router.py`, `core/database.py` 9500-9850 | `pending_approvals` with `resume_json` claims | decide, claim, schedule, consume, finish, recover after a restart | approval racing the parking run, restart between claim and consumption, two decisions of one run |
| Session lane: `erc/session_lane_scheduler.py`, `erc/session_admission_service.py` | the active run of each session in memory, a `session_lane_records` row | acquire, try_acquire, release, idle_mutation, restart reconciliation | lost wakeups, release by run id, the row written outside the lock |
| Runtime episodes: `core/runtime_episode_runner.py`, `core/runtime_episode_control.py`, statements in `core/database.py` 3950-5140 and 5730 | `runtime_episodes`, their queue and leases, control messages, the parent's join | admit, claim, dispatch children, deliver, retry, resume the parent, cancel | a parent resumed over unfinished children, twice or never; late workers of a lapsed lease; a cancel that meets a parked row |
| Network neighbour: `core/network_neighbor_delivery.py`, `runtimes/network_supervisor/neighbor*.py` | at the origin the assignment, at the peer the inbox, wake queue and outbound results | dispatch, receive, execute, send the result, recover | lost, late and repeated posts, crashes of either side, two verdicts |
| Model calls: `core/provider_circuit.py`, `core/model_budget_service.py`, `core/model_telemetry.py` | the circuit of a provider with its permits; budget reservations and the usage ledger | reserve, acquire, dispatch, settle, recover orphans | answers of an earlier generation, lost probes, budget that leaks or is spent twice |
| Workflow ledger: `erc/workflow_ledger.py` | step rows with fences | begin, complete, reconcile orphans | restarts |
| Session coordination: `erc/session_coordination_service.py` | messages between sessions, result waits | send, inject, wait, resume | waits that nobody ends |
| Terminal post-run, chat run scheduler: `core/terminal_post_run.py`, `core/chat_run_scheduler.py` | durable queues | claim, retry | retries of what was done |
| Cron and hooks: `core/cron_manager.py`, `core/hooks_manager.py`, `core/automation/definitions.py` | published definitions with revisions | publish, disable | a definition edited under a delivery |
| Everything else (chat streaming, graph, tools, configuration, storage, native helpers, API, front ends) | | | left to nondeterminism or out of scope, see section 8 |

How the modelled ones interact: `kick` claims a delivery row and starts an invocation of the executor; the
invocation creates or attaches the run record, waits for the *session lane*, passes the safety guard, claims
a *receipt* for its effect, moves the row to `executing`, performs the action, completes the receipt, settles
the run and the row, and releases the lane.  Run commands and approvals write the run record from another
thread; the tick writes row and receipt when a lease has lapsed.  A decision on an approval leaves a delivery
record that the command router hands to a worker of the run.  A run's agent submits *episodes*, whose runner
executes them and wakes their parents.  A graph may assign a task to a *neighbour*, whose engine runs it and
posts the result back.  Every model call inside any of these reserves budget and a permit of its provider's
*circuit* before it is dispatched.  `PROJECT.json` lists the hazards of each, line by line.

What makes each correct: a receipt lets an effect run once per key unless its failure was recorded, and its
outcome is reported by its holder only; a delivery begins its action at most once, stops when it is
cancelled, never calls uncertain what is proven nor proven what is uncertain, and does not stay with a lost
owner; a lane runs one run of a session at a time, never loses a waiter, and its row says idle in the end; a
decision continues its run once and by the worker its record names; an episode is delivered by the holder of
its lease, joins all its children, and ends when it is cancelled; a neighbour's task is begun once and both
engines agree on its verdict; a circuit changes only on evidence of its own generation and never stays shut;
a model call is paid for or held, once, and an unused reservation comes back.

## 2. Modules

| Module | Models | State and actions |
|---|---|---|
| `ReceiptLedger` | the receipt row | operators for the five statements: `AfterClaim`, `AfterReport`, `AfterMark`, `AfterReconcile`, the guard `OwnedClaim` |
| `SideEffects` | `SideEffectIdempotencyService` and its callers | `receipt` (a row per key), `legacy` (what the event log says), `pc`, `key` and `sawLegacy` (where each call stands); `Look` is the legacy evidence lookup outside the transaction, `Begin` the claim, `Perform` the external action, then `Complete`, `Fail`, `MarkIndeterminate`; `Crash`, `LeaseExpires` and `Reconcile` are the environment |
| `SideEffectsProofs` | | theorems about `SideEffects` |
| `DeliveryLedger` | one delivery row, the run record and the statements of `core/database.py` over them | operators: `Claimed`, `MayMove`/`Moved` (transition), `MaySettle`/`Unproven`/`Parked` (settling a run), `FinishTarget`, `Due`/`ReconcileTarget`/`ReceiptAfterReconcile`; it uses `ReceiptLedger` for the receipt |
| `AutomationDelivery` | the delivery composed with its runs, its receipts, the executor's invocations, the tick, people and restarts | one action per transaction or in-memory step of `_execute_sync` and `_execute_agent_async`, in the code's order; `row`, `run`, `receipt` are the database, `worker` the program counters and locals, `recovered` and `operator` the intermediate state of the tick and of `_reconcile_authorized`, `started`, `repudiated`, `stopped` history variables that only properties read |
| `AutomationDeliveryProofs` | | theorems about `AutomationDelivery` |
| `SessionLane`, `MCSessionLane` | the lane of one session and its durable row | `active` is the scheduler's map, `mirror` the row, `pc` and `blocker` the invocations, `edit` an `idle_mutation`; each critical section is an action, each row write another |
| `SessionLaneProofs` | | theorems about `SessionLane` |
| `MCSideEffects`, `MCLaneCrews` | | symmetry for `SideEffects`; two crews on the lane, a mixed one and three executors, one per behaviour |
| `ApprovalResume` | the approvals of one run and their delivery | `run` the record, `vote` the decisions, `delivery` the `resume_json` records, `router` the command router after its claim, `job` and `plain` the workers, `parks` the requests that have yet to park the run; `Sweep` claims, `Routing` hands over, `Consume` is the worker's compare-and-set; a chat worker then asks or ends in one step, an RPA execution walks through the phases of `_execute_prepared` (`Begin`, `Carry`: a look at the signals, a request or a write of the status; then `Deliver`, or `Raise` and `Fail`); `begun`, `stopped` are history |
| `MCApprovalResume` | | three worlds, one per behaviour: an open chat, a quiet chat (no pause, no second question half way), an RPA run that may be paused |
| `ApprovalResumeProofs` | | theorems about `ApprovalResume` |
| `RuntimeEpisodes` | the episodes of one run: a root, its children, the runner's tasks, control messages, the run's cancellation | `row`, `claim`, `dispatched`, `joined`, `landed` are the database, `task` the runner's tasks by claim (slot 0 is the polling loop), `control` the cancel messages |
| `RuntimeEpisodesProofs` | | theorems about `RuntimeEpisodes` |
| `TaskPromise` | what a task given to a neighbour promises: begun at most once, one verdict, none "completed" without work | `begun`, `verdict` |
| `NeighborTask` | origin and peer of one task with every post that may be lost, late or repeated | `origin`, `stored`, `dispatch` at the origin; `queue`, `run`, `answer`, `tries`, `work`, `resend` at the peer; `message` and `late` between them |
| `NeighborTaskProofs` | | theorems about `NeighborTask`, among them that it implements `TaskPromise` |
| `ProviderCircuit` | the circuit of one provider | `circuit`, `permit` are the rows, `call` the invocations, `aged` what the health window has left behind |
| `ProviderCircuitProofs` | | theorems about `ProviderCircuit` |
| `ModelCall` | a model call from admission to settlement, composing `ProviderCircuit` with the budget | `hold` the reservations, `ledger` the usage of each day, `stage` the telemetry callback of each call, `up` the engine |
| `ModelCallProofs` | | theorems about `ModelCall`, among them that it implements `ProviderCircuit` |
| `MCModelCall` | | two worlds: five calls on the circuit alone, three calls with a budget |

Operators named in a comment as a "slip" are variants of the operator that follows them, the way a plausible
mistake in that code would be; nothing else uses them.  Each shows that a property notices the mistake.

### Correspondence and abstractions

* A delivery claim draws a fresh owner id, and every attempt after the first a fresh run id.  Owner, run and
  attempt therefore share one number in `DeliveryLedger`; a resumed invocation has the same number, as in the
  code, where it carries the owner id saved in the run's envelope.
* Lease times are three values: `none`, `live`, `expired`.  `LapseDelivery`, `LapseReceipt` and `LeaseExpires`
  are the wall clock; they ask nothing of the owner.
* `receipt_key` of a row is NULL or the key of the attempt's own receipt (the key contains the run id), hence
  the boolean `linked`.
* A definition's revision is one bit, `current`: a revision never comes back.
* Creating or attaching the run and `verify_binding`'s reads are one action (`Begin`): both come before
  anything that the invocation may write.  `finished()` reads and then moves in a compare-and-set guarded by
  the same owner and phases; it is one action (`Finish`).  A command's status write and its signal write are
  one action.  `transition` followed by an event is one.
* The guard's decision, model output and the action's outcome are nondeterministic.  Reviews that the
  configuration approves on its own never park the run and count as `Allow`.
* A busy lane is "wait" (no step is taken) or, under the policy `reject`, `RejectLane`.  The policy
  `interrupt_then_replace` acts on the lane like `queue`; that it interrupts the holder's run is the command
  `Interrupt` of `AutomationDelivery`.
* The user interface offers resume and retry in some statuses only; the backend checks only the class of the
  run, and the model follows the backend.
* Only one delivery, one lane and one session are modelled; rows do not interact except through the cron
  mutex, whose other holders are invocations of the same job.
* In `SessionLane` the row's `blocked_by` column, metadata and history are left out, as nothing reads them to
  decide; chat calls never overlap each other, since they run on one event loop (`LoopFree`).

* `ApprovalResume`: one run; the chat scheduler runs one job of a run at a time, so at most one plain worker
  waits or works.  A command "interrupt" does to a delivery what "cancel" does and is that command here.
  `Yields` names what makes the chat world hard: "ask" (a continuation stops half way for a further
  approval), "pause", and "slow" (the approval is visible before its run is parked).
  An RPA execution takes stop signals at its looks only: several looks in a row with no write between them are
  one (`Looks`), as are the two writes of one status in `complete`, `fail` and `request_approval`, and its way
  through computer use, which looks and writes in the same order.  That `_begin_run` declines is nondeterministic,
  its metadata being left out; `update_metadata` writes back the status it has read and counts as no write (item 4
  of the plan).  A run that is aborted closes its pending approvals (`Turns`, `Cancel`, `Restart`); the
  recovery of an interrupted RPA continuation fails the run by a statement of its own, which does not.
* `RuntimeEpisodes`: a row, its queue entry and its lease move in one transaction and are one variable.
  `lease_generation` and `attempt_count` only move together and are `claim`.  The tasks share an event loop: a
  task in one of the phases `Inside` is between two awaits and is interrupted by a crash, by other threads and
  by the clock, by no other task.  `declared`, chosen in `Init`, says whether the children are capability
  needs that the runner dispatches, or episodes that the root's executor delegates while it runs.  `Faults`
  bounds crashes and leases that lapse although their worker lives, taken together.
* `NeighborTask`: the id of a result is the assignment's id with its status, so results are named by status.  A
  post is three facts: it arrives or not, its answer arrives or not, and it may arrive after its sender gave up.
* `ProviderCircuit`: time is three facts, whether `open_until` and the probe's lease lie ahead and which
  settled calls the window has left.  A person's connection test (`explicit_probe`) may come at any time.
* `ModelCall`: one unit (tokens), one run and no project, the same estimate for every call.  The ledger
  is summed over scopes as `get_usage_ledger_totals` does.  A call whose engine dies ends on its own; the
  next engine starts when all have, as it holds the state root exclusively.

## 3. Properties

* `SideEffects`: `ExclusiveExecution`, `NoUnconfirmedRepeat`, `CompletionHasEvidence`.
* `AutomationDelivery`: `AtMostOnce`, `OutcomeIsProven`, `CompletedHasEvidence`,
  `CancelFencesAttempt` (action property, for cancels that meet one invocation of the attempt at most, `Lone`),
  `DeliverySettles` (liveness).  `CancelStopsDelivery`, which the code's
  comments promise, does not hold (section 7).
* `SessionLane` (with `MCLaneCrews`): `OneRunAtATime`, `EditsAlone`, `RowSettles` (once everybody has gone the row
  says idle, or one of the three words that `LeftBehind` names), and among executors `ExecutorsProceed` (liveness).
* `ApprovalResume` (with `MCApprovalResume`): `DeliveredOnce`, `RowNamesWorker`, `StoppedStaysStopped` (action
  property, in every world: it speaks of commands to stop that find nobody at work, neither a chat worker nor an
  RPA execution, and no run about to be parked, see `Unattended`), `QuietTakenUp` (liveness); `DecisionTakenUp`, the same for every chat, does not hold.
* `RuntimeEpisodes`: `LandedByHolder`, `JoinedAfterAll`, `TerminalStays` (action property), `CancelEndsEpisode`
  and `ParentResumes` (liveness); `DelegationReturns` does not hold.
* `NeighborTask`: `KeepsPromise` (refinement of `TaskPromise`), `EnginesAgree`, `CompletedRan`, `OriginLearns` and
  `WaitResolves` (liveness).
* `ProviderCircuit`: `OneProbe`, `ClosedIsProven`, `OpenIsEarned`, `CircuitReopens` (liveness).
* `ModelCall`: `AccountedOnce`, `WithinLimits`, `DispatchedStaysHeld` (action property), `ReservationReturns` (liveness).

Each component has one type invariant, `TypeOK` (`CallTypeOK` for `ModelCall`, which contains the circuit's);
that of the lane is proved and not among the properties of a run.
Every property is stated in words above its definition.

## 4. Runs

| Run | Shows | Bounds, and why they are enough |
|---|---|---|
| `side_effects` | no interleaving of claims, reports, crashes and lapsing leases repeats an unconfirmed effect | four calls, one guarded and one replay-safe key: a first call, one that lapses it, one after the operator's reconciliation, and one that races any of them |
| `delivery_recovery` | the action begins once, nothing begun is written off without evidence, and the row does not stay with a lost owner | a command action with reviews, lane rejections and interrupts, 2 attempts, 2 invocations, edits, restarts |
| `delivery_runs` | completion has evidence; a cancelled attempt that one invocation at most carried never begins | an agent action on cron with reviews and governance approvals, commands cancel, resume, pause and retry, 2 attempts, 2 invocations |
| `lane_crews` | one run at a time, no edit under a run, no lost wakeup, the row settles or keeps a word that `LeftBehind` allows | an executor, a maintenance task and two chats with both policies and failing set-ups, or three blocking executors; one edit, restarts |
| `approval_resume` | a decision continues its run once, by the worker its record names, not after a command to stop that found nobody at work on the chat or the robot, and in a quiet chat it is taken up | two approvals (a delivery and the one that replaces or races it), two deliveries of each, one restart |
| `runtime_episodes` | only the holder of the last claim delivers; the root goes on over all its children or not at all; a cancelled root ends | a root and two children, one optional and one retryable, one crash or one live lease that lapses, a cancel of the root and of the run; an episode is claimed three times at most (first, after a join or a retry, after the fault), so that `MaxClaims` 4 cuts nothing off |
| `neighbor_task` | the protocol implements `TaskPromise`; both engines agree; the origin learns of the outcome | one task, three recovery attempts as in the code, two crashes of either engine |
| `model_call` | neither stragglers nor lost probes turn the circuit; what was dispatched is paid for or held once, and no restart gives it up; what was not comes back | five calls, of which two open the circuit, one closes it and two come late; under a budget three calls of which two fit, a reported usage above the estimate, one midnight |
| `lane_revives_cancelled`, `approval_repeats`, `approval_strands`, `delegation_lost` | the disagreements of section 7 | the smallest instance that shows each |

The bounds of the delivery runs are `MaxAttempt` (claims of the row) and the size of `Owner` (invocations of the
executor over a behaviour, so also resumes and retries).  Two attempts are enough for a late worker next to its
successor; what a third attempt meets is a second one that is late.  The two runs split the features because all
of them together do not fit in minutes; each feature meets restarts, lapsing leases and an edit of the definition
in its run.  The features that a run switches off are the ones under which its property fails; section 7 says which.

The modules that choose a world, a crew or a limit in their initial state put two or three instances of one
module into one run; the choice never changes, so that no behaviour mixes them.

Deadlock is not checked: a delivery that reached its outcome, a call that returned, a lane that everyone
left, an ended episode or an answered task have nothing further to do.

## 5. Fairness

* `AutomationDelivery`: every invocation keeps stepping, as a thread or an asyncio task does; its action ends,
  as command, python and agent actions run under timeouts; the scheduler ticks every five seconds; and the
  clock passes a lease that no task renews.  People, restarts and edits are never forced.  A busy lane under
  `queue` is a step that `WF(WorkerStep)` takes in the end; that it does is `ExecutorsProceed`.
* `SessionLane`: threads and the event loop step on; an `idle_mutation` ends (it is a `with` block over a
  database write).  A chat that holds the lane and never returns from its `yield` is outside
  `ExecutorsProceed`, which is stated for blocking executors.
* `ApprovalResume`: the sweep runs periodically, a claimed delivery is handed over, and workers go on.  Where a
  continuation may stop half way nothing forces its end, so `QuietTakenUp` is stated for the quiet world, and
  `approval_strands` shows what happens in the other.
* `RuntimeEpisodes`: the runner goes on as a whole, `WF(Runner)`: its loop polls, and each of its tasks takes
  finitely many steps, as executors run under budgets and timeouts.  The thread that cancels a run finishes, and
  the clock passes the lease of a worker that died.  Crashes, live leases that lapse, and cancels are not forced.
* `NeighborTask`: the wake queue's worker goes on and the clock passes the lease of a dead one.  Nothing is
  asked of the network: a post may be lost for ever, which is why `OriginLearns` and `WaitResolves` end in "or the
  attempts are used up".
* `ProviderCircuit`: only the clock.  `ModelCall`: a call that was begun goes on and ends, as the providers'
  timeouts see to, and a crashed engine is started again, since a reservation of a dead one is released at
  the next start.  No call is forced to begin.

## 6. Proofs

Checked with TLAPS for every value of the constants that satisfies the modules' named assumptions.

* `SideEffectsProofs`: `TypeCorrect`, `Exclusive` (`ExclusiveExecution`), `NoRepeat` (`NoUnconfirmedRepeat`) and
  `CompletionProven` (`CompletionHasEvidence`).
  The first two are not inductive.  The invariant adds `EngagedBlocksClaims` (a guarded key whose action may be
  running or may have run has a row that no claim passes) and `OneEngaged` (at most one call is between its claim
  and its report on a key without such a row).  The evidence needs another one, `EvidenceInv`: a call reports
  success only after it performed its action, one that was repudiated has returned, the legacy answer a call
  carries was true when it was read, and a completed row is `Backed` by its owner's action, or has no owner and
  comes from the event log or from an operator.
* `SessionLaneProofs`: `TypeCorrect`, `OneRun`, `EditAlone` and `RowSettled` (`RowSettles`).  The strengthening for
  the runs is `HolderIsActive` (an invocation on the lane carries the run that `active` names) with
  `EditSeesNobody` (while an edit is open, `active` is empty).  `OneRun` assumes `OwnRuns`, that two invocations
  never carry the same run: with a resumed run it is false: `ResumedRun` in `MCSessionLane` gives TLC the
  counterexample (section 7).  `RowSettled` needs no such hypothesis.  The row is written outside the lock and may
  tell anything of who is on the lane; what is inductive is that somebody still owes the write that takes its word
  back (`Owes`, `Answered`), where the word is not one that `LeftBehind` names.
* `AutomationDeliveryProofs`, for every number of attempts and invocations:
  * `TypeCorrect`.  The invariant is `Typed`: next to `TypeOK` it says what each invocation's locals hold at
    each step (`Reliable`), for instance that `settle_run` is called with one of three results.
  * `CompletedProven` (`CompletedHasEvidence`).  The invariant `Evidence` adds `Attempted`: a row that left
    `pending` belongs to an attempt, so its receipt exists.  The argument is that a completed receipt stays
    completed (`CompletedStays`) and that each writer of `completed` has just read one or is the operator.
  * `BeginsOnce` (`AtMostOnce`), under `NoReentry`: no approval that stops a running action half way
    (`Intervenes`) and, for agents, no `resume`; nothing else resumes.  `AtMostOnce` says nothing of invocations
    that have not begun yet, so `Once` adds who still may: an invocation before its executing CAS, one that began,
    and an approval still to be given hold one token per attempt between them (`OneToken`, `ApprovalExcludes`);
    attempts, owners and runs are numbered by the row (`Numbered`); and after a begin the row never is `pending`,
    `claimed` or `admitted` again (`BeganForGood`).  Reviews before the action, retries, cancels, lapsed leases
    and restarts are covered.  Both hypotheses are necessary.  Without the one on approvals the property is false,
    which is run `approval_repeats`; with resumes it is false where an agent may also be paused (section 7).
  * `ReportProven`, what `OutcomeIsProven` says of the phases `completed` and `failed`, with cancels, under
    `Undisturbed`: the action is no agent's, and nobody retries a run by hand.  Both are necessary, as TLC shows: an agent that is cancelled while it acts ends its invocation with a
    receipt that is still claimed, and the run of a manual retry carries the delivery's owner id, so that its
    `finished()` moves a row whose action another invocation began.  The invariant adds to `Once`: of the
    invocations of an attempt one is under way and the others stand where they can write nothing (`Alone`); the
    one before its CAS holds the receipt's claim while the row is its own (`Armed`); and after the CAS, as long
    as the row has an owner, the receipt either says what came of the action or is held by an invocation that
    has yet to report or that is gone, which the tick tells apart (`Backed`).
  * `OutcomeProven` (`OutcomeIsProven`), under `Unstopped`: moreover nobody cancels.  A cancel makes it false: the
    tick closes the row of a cancelled run as `cancelled` whatever the receipt says (section 7).  The invariant
    adds that without one a begun action has no cancelled run, result, signal or row (`Uncancelled`), for which one has
    to know that an invocation that finds its definition stale is the last of its delivery (`StaleLast`).
  * `CancelFences` (`CancelFencesAttempt`), with every command, resumes, reviews and approvals half way.  The status
    is overwritten by the lane, the guard and the parking of the run, so neither it nor the signal holds an
    invocation back alone.  The invariant `Stilled` says which of the two does at each step: the signal before the
    invocation checks its controls, the status from there to the CAS, and the signal again for one that parks the
    run; nobody else is inside the attempt who could write either of them; and an approval that is still open
    cannot let another invocation in, as it would need the signal gone.  `OwnerCurrent` (the row is owned by its
    last attempt or by nobody) keeps late invocations from the CAS.

  Every step of the executor is summarised once, by what it may do to the invocations (`Walks`), the row
  (`RowWalks`), the runs (`RunWalks`) and `started` (`StartWalks`); the other actions by `Claims` or
  `RowRests`, `WorkersRest` or `Enters`, and `RunsRest`.  The invariants are then proved from the summaries.

* `ApprovalResumeProofs`: `TypeCorrect`, `Once` (`DeliveredOnce`), `OneWorker` (`RowNamesWorker`) and `StopIsFinal`
  (`StoppedStaysStopped`), for any number of approvals, attempts and restarts.  The invariant of the first three: a
  worker that executes is the one its record names (`Named`), one record of a run at most is scheduled or executing
  (`OneReserved`), what is delivered was decided (`Decided`), and a record whose continuation began never is
  pending or scheduled again (`BegunForGood`).  Every action but the claim and the consumption moves no record
  into those states (`Calm`), so that the argument is made twice, not per action.  `StopIsFinal` rests on `Halted`:
  while a command to stop that found nobody at work is the last word, nobody is left who writes the status: no
  plain worker, no execution, and no run about to be parked (`AllIdle`).  The status says cancelled or paused,
  though the worker of a stale delivery may take the signal, so no claim and no consumption finds the run ready;
  a step that leaves all this alone begins nothing and writes no status (`Subdued`).  Chats and RPA runs take the same branch: what sets an RPA execution apart,
  that it takes signals and writes its status in its own time, only happens once it is at work.
* `RuntimeEpisodesProofs`: `TypeCorrect`, `EndedForGood` (`TerminalStays`), `HolderDelivers` (`LandedByHolder`) and
  `JoinComplete` (`JoinedAfterAll`), for any set of children and any number of faults and claims.
  `JoinedAfterAll` is not inductive: the invariant follows the knowledge that the children ended from the
  task that read it, over its phases (`Honest`), to the row that was woken by it (`Told`, `Resumed`).  It uses
  `TerminalStays`, since what was read as ended must still have ended when it is used.
* `NeighborTaskProofs`: `TypeCorrect`, `Agreement` (`EnginesAgree`), `CompletedTruth` (`CompletedRan`) and `Implements`,
  that `Spec` implements `TaskPromise!Spec`: the initial states map, and every step is a step of the promise
  or a stutter.  The invariant says of every place a verdict passes, the peer's results, a post under way, a
  late post and the origin's rows, that the run before it produced it (`Backed`, `Counted`, `Unstarted`,
  `Recorded`, `Delivered`, `Kept`, `Carried`).
* `ProviderCircuitProofs`: `TypeCorrect`, `ProbesAlone` (`OneProbe`), `ClosedByProbe` (`ClosedIsProven`) and
  `OpenedByGeneration` (`OpenIsEarned`), for any set of attempts and any threshold.  The strengthening is that a
  pending probe is the one the row names (`ProbeIsCurrent`) and that a call not yet made has no permit
  (`UnusedCallIsNew`).  `OpenIsEarned` counts the settled calls of a generation, so its proof also shows that only
  finitely many permits exist at any moment (`FinitelyIssued`), and that a window never adds to what it counts.
* `ModelCallProofs`: `CallRefinesCircuit`, that calls under a budget implement `ProviderCircuit` (every action of
  `ModelCall` is a step of the circuit or leaves it alone), and from it `CallsKeepCircuit`, which carries the circuit's
  theorems over; `CallTypeCorrect`, `LimitsHold` (`WithinLimits`) and `Accounted` (`AccountedOnce`), for any set of
  calls, any days and any limits, and `StaysHeld` (`DispatchedStaysHeld`).  The sums over reservations are cardinalities of sets (`Total`), so that no
  induction is needed: the lemmas on `Total` say what one call more, or one value changed, does to a sum over a
  finite set.  `HoldsFollow` relates each reservation to the stage of its callback and to the answer on its permit;
  `SumInv` says that finitely many reservations exist, that the ledger sums up to what the settled ones used
  (`Booked`), and that no day ahead has anything in it (`NothingAhead`).

Only model-checked: the liveness properties, as fairness and ENABLED are outside the prover's reach.  The type
invariants, the safety invariants, the action properties and the refinement that the passing runs check are each
stated by a theorem; four of them (`OneRun`, `EditAlone`, `BeginsOnce`, `OutcomeProven`) under
hypotheses, which the runs that check these properties satisfy.

## 7. Where the code and its documents disagree

* `lane_revives_cancelled`: a busy lane under the policy `reject` puts the run back to `queued` whatever its
  status; a cancelled run is revived and its delivery executes in the next attempt (`action_executor.py` 461
  and 1116, against the comment at `database.py` 2256).  `Deny` and the writes of `waiting_approval` overwrite
  a cancel in the same way.
* `approval_repeats`: an agent that stops half way for an approval is admitted again; if it then loses its
  lease, the delivery is retried from the start as if nothing had begun (`database.py` 2431-2438).  An agent that is
  paused while it acts and then resumed meets the same end: its run is paused when it settles, so `finished()` leaves
  the row `blocked` with a claimed receipt, and the resumed invocation is admitted.  TLC finds this with the commands
  `pause` and `resume`, two attempts and three invocations, hence `NoReentry` in `BeginsOnce`.
* `approval_strands`: a continuation that stops half way for a second approval, a question or a pause leaves
  its record `executing`, which reserves the run against every later decision (`runtimes/chat/runtime.py` 10756
  and `database.py` 9726, against `erc/recovery_policy.py` 32).
* `delegation_lost`: children that an executor delegates may end before its own row waits for them; their
  announcement finds the parent active and is dropped, and nobody repeats it
  (`runtime_episode_runner.py` 1616 and 2377, against `graph/parallel_support.py` 4368).

Further disagreements were found with the models and have no run of their own:

* a resumed invocation that meets the cron mutex reports `rejected` with the owner id of the first one, and
  the executing row becomes `failed` (`action_executor.py` 386, against `delivery.py` 53); only agent runs resume,
  so `OutcomeIsProven` is checked and proved for the other actions;
* a cancel while the action executes closes the row as `cancelled` with a receipt that stays claimed
  (`database.py` 2418, against the docstring at 2400); hence `cancel` is not among the commands of that run;
* the executor's `finally` releases the lane by run id even if this invocation never acquired it
  (`action_executor.py` 751); with `RunOf <- ResumedRun` the lane model violates `OneRunAtATime`.

Open ends that are in the models without a property, because no document says how they must end:

* Deliveries: a `blocked` row whose approval was given just before a crash stays blocked until a person acts; a
  late worker of a superseded attempt leaves its run `running` until restart; a delivery-backed run that is
  retried never executes, since `verify_binding` refuses the new run; `executing()` may run the old revision
  once when an edit falls between its two statements; the second `waiting_approval` write of
  `request_approval` may park a run whose approval was decided already; with a third invocation a resume next to
  one that still parks the run leaves two of them in one attempt, and the late `waiting_approval` overwrites a
  cancel, hence `Lone` in `CancelFencesAttempt`.
* Lane: a chat that fails between the lane and its `try` keeps the lane until restart; a chat stopped while it
  queues may leave its `queued` row behind.
* Approvals: a worker that is refused or dies before its consumption leaves `scheduled`, which the sweep skips
  until a restart; a pause between scheduling and consumption; a worker that ends late writes over a cancel, and
  another one queued next to it consumes the signal: with four approvals TLC finds a cancelled run continued in this
  way, hence `Unattended` in `StoppedStaysStopped`; an RPA execution that a stop meets past its last look writes
  `running`, and in the end `completed`, over it (`runtimes/rpa/runtime.py` 4677 and 4828); the recovery of an
  interrupted RPA continuation leaves a further approval of its run pending, which nobody can decide any more
  (`database.py` 9803-9809).
* Episodes: a crash between a child's commit and its announcement, or between dispatch and park, and a child
  that is cancelled by a message, leave the parent waiting (`Undisturbed` excludes them); a cancelled active
  parent acknowledges its message before its descendants noticed, so queued children still run; parking as
  `waiting_approval` drops `childNeedsDispatched`; a cancel between check and commit leaves its message
  pending on a terminal row; `attempt_count` counts joins and lapses, so a resumed leg may find no retry left;
  delegating an existing child id again may put a failed row back into the queue; a late worker's admissions
  of children are not fenced by its lease.
* Neighbours: after three recoveries a result is never sent again; the waiting run of an assignment that a
  restart interrupted is looked at by nobody.
* Model calls: a reservation whose release fails is held until the next start (`stuck` in `ModelCall`), and
  a call whose accounting and release both fail is held for the day and the run.

## 8. Not modelled

The repository is 395 thousand lines; the protocols above are a small share of it.  Most of the rest has no
state machine of its own that outlives a call: front ends and packages (presentation), the chat runtime's
streaming and its prompt assembly, the LangGraph nodes and tools (model calls and effects on the world,
nondeterministic outcomes here), computer use, creative media and research tools (effects behind drivers), the
safety guardian (a decision over text), configuration and plugins (validation and files), storage, native
helpers and the HTTP API (I/O and validation).  `PROJECT.json` gives the reason component by component.

Inside the components that are modelled:

* `ApprovalResume` leaves out revisions of the approved scope, expiry, the retry commands, and the approvals of
  checkpoints, runtime continuations and MCP tools, which deliver no record; terminal statuses other than
  those a worker and a command write; for an RPA run "delivered" is the model's "completed".
* `RuntimeEpisodes` leaves out deadlines, dependencies between episodes, waits for an approval, an input or a
  peer, degraded and merged outcomes, partial handoffs, direct delegation by tools, grandchildren, re-admission of
  an existing id, and the wake of a chat run over its root episodes.
* `NeighborTask` leaves out relays, handoffs, plain messages, the wake of the origin's supervisor, the peer's
  own assignment and task rows, revocation of the link, and two posters at the origin at once.
* `ModelCall` leaves out the failover to another model, prices and project scopes (further sums of the same
  form), calls without a reservation, and the observability logs.
* `ProviderCircuit` has one provider; providers do not interact.

## 9. Plan

Order of work, the most important behaviour first:

1. done: receipts (`ReceiptLedger`, `SideEffects`), deliveries (`DeliveryLedger`, `AutomationDelivery`), the lane
   (`SessionLane`, `MCLaneCrews`), approvals (`ApprovalResume`), neighbour tasks with their abstract promise
   (`TaskPromise`, `NeighborTask`), model calls (`ProviderCircuit`, `ModelCall`) and episodes
   (`RuntimeEpisodes`), their runs and proofs as above.
2. `OnceDelivery`: the abstract promise of a delivery (pending, begun once, settled with evidence), and
   `AutomationDelivery` without resumes shown to implement it.
3. The wake of a chat run over its root episodes (`runtimeEpisodeResume` markers,
   `_recover_parent_wakes`), composed with `RuntimeEpisodes`.
4. `RunRecords`: the run state machine with conditional and unconditional writers and `update_metadata`.
5. `SessionCoordination`: messages and result waits; deadlock freedom of waits between sessions.
6. `TerminalPostRun`, `ChatRunScheduler`, `WorkflowLedger`: durable queues and fences.
7. `CronPublication`: definitions with revisions against running deliveries.
8. Proofs: the promise of item 2, from `Once` and `Settling`.
