------------------------- MODULE AutomationDelivery -------------------------
(***************************************************************************)
(* One automation delivery from its pending row to its outcome: kick()     *)
(* claims it, a worker (ActionExecutor) walks through admission, guard,    *)
(* receipt and execution, the tick renews, reconciles and marks, people    *)
(* send run commands, and the engine may restart at any moment.            *)
(*                                                                         *)
(* Each action is one transaction or one in-memory step between two of     *)
(* them.  A worker is one invocation of the executor; its number is also   *)
(* the owner id that its begin() draws for the effect receipt.             *)
(***************************************************************************)
EXTENDS DeliveryLedger, FiniteSets

CONSTANTS
    Agent,        \* the action is an agent run: it can be resumed and cancelled
    Intervenes,   \* its model governance can ask for approval in the middle
    Cron,         \* the trigger is cron, which serialises by job
    LaneRejects,  \* the session lane policy is "reject"
    Reviews,      \* the safety guard may ask for a review
    Commands      \* the run commands people use

ASSUME ConfigAssumption ==
    /\ {Agent, Intervenes, Cron, LaneRejects, Reviews} \subseteq BOOLEAN
    /\ Intervenes => Agent
    /\ Commands \subseteq {"cancel", "pause", "interrupt", "resume", "retry"}
    /\ Owner \subseteq Nat /\ NoOwner \notin Owner

Worker == Owner

VARIABLES
    row,         \* the delivery
    run,         \* the run record of each attempt
    receipt,     \* the effect receipt of each attempt
    current,     \* the definition still has the delivery's revision and is enabled
    worker,      \* the invocations of the executor
    recovered,   \* the tick has a completed or failed result of reconcile left to mark
    operator,    \* an operator's reconciliation in progress
    started,     \* history: invocations whose action may have begun
    repudiated,  \* history: invocations that recorded their own action as failed
    stopped      \* history: attempts cancelled while current and Lone, not resumed since

rows == <<row, run, receipt>>
history == <<started, repudiated, stopped>>
vars == <<row, run, receipt, current, worker, recovered, operator, started, repudiated, stopped>>

Steps == {"idle", "begin", "foreign", "stale", "lane", "guard", "review", "confirm", "control",
          "controlled", "start", "claim", "link", "check", "revoke", "execute", "perform",
          "complete", "after", "except", "settle", "mark", "finish", "gone"}

(* What finished() makes of a status string, class by class. *)
Results == {"success", "cancelled", "held", "rejected", "failed", "other"}

Invocation ==
    [pc : Steps, attempt : 0..MaxAttempt, result : Results,
     bound : {"none", "plain", "linked"},               \* delivery_binding and its receipt_key
     refused : BOOLEAN,                                 \* settlement_binding_rejected
     effect : {"none", "own", "done", "open"},          \* execution_receipt
     override : BOOLEAN, retryable : BOOLEAN]

At(step, attempt) == [pc |-> step, attempt |-> attempt, result |-> "success", bound |-> "none",
                      refused |-> FALSE, effect |-> "none", override |-> FALSE, retryable |-> TRUE]

Idle == At("idle", 0)

Idlers == {w \in Worker : worker[w].pc = "idle"}

Ended(w) == [worker EXCEPT ![w] = At("gone", worker[w].attempt)]

(* A new invocation, and what spawns it; Worker bounds how many there are. *)
Spawned(invocation) ==
    LET w == CHOOSE v \in Idlers : TRUE
    IN  [worker EXCEPT ![w] = invocation]

Alive(w) == worker[w].pc \notin {"idle", "gone"}

TypeOK ==
    /\ row \in Delivery
    /\ run \in [Attempt -> Run]
    /\ receipt \in [Attempt -> Receipt]
    /\ current \in BOOLEAN
    /\ worker \in [Worker -> Invocation]
    /\ recovered \in BOOLEAN
    /\ operator \in [step : {"away", "mark", "receipt", "row"}, outcome : {"completed", "failed"},
                     unsettled : BOOLEAN]
    /\ started \in SUBSET Worker
    /\ repudiated \in SUBSET Worker
    /\ stopped \in SUBSET Attempt

Away == [step |-> "away", outcome |-> "failed", unsettled |-> FALSE]

Init ==
    /\ row = Enqueued
    /\ run = [a \in Attempt |-> NoRun]
    /\ receipt = [a \in Attempt |-> Absent]
    /\ current = TRUE
    /\ worker = [w \in Worker |-> Idle]
    /\ recovered = FALSE
    /\ operator = Away
    /\ started = {} /\ repudiated = {} /\ stopped = {}

-----------------------------------------------------------------------------
(* The executor, step by step.                                             *)

Goto(w, step) == worker' = [worker EXCEPT ![w].pc = step]

End(w, result, step) == worker' = [worker EXCEPT ![w].result = result, ![w].pc = step]

(* RAISE with asyncio.CancelledError: settle_run(status="cancelled"). *)
Cancelled(w) == End(w, "cancelled", "settle")

Mine(w) == worker[w].attempt

(* The cron mutex of _active_targets is held from begin to the finally clause. *)
HoldsMutex(w) == worker[w].pc \notin {"idle", "begin", "foreign", "gone"}

Overlapped(w) == Cron /\ \E v \in Worker \ {w} : HoldsMutex(v)

ResultOf(status) ==
    IF status = "cancelled" THEN "cancelled"
    ELSE IF status \in HeldRuns THEN "held"
    ELSE IF status = "failed" THEN "failed" ELSE "other"

(* The receipt key that the binding, completed with execution_receipt, expects. *)
ExpectsLink(w) == worker[w].effect # "none" \/ worker[w].bound = "linked"

BindingConflict(w) ==
    \/ row.attempt # Mine(w)
    \/ worker[w].bound # "none" /\ Conflict(row, Mine(w), ExpectsLink(w))

(* finished(): the finally clause of every invocation that carries the delivery. *)
Finished(w, result) ==
    LET a == Mine(w)
        target == FinishTarget(row, run[row.attempt], receipt[row.attempt], result, worker[w].retryable)
    IN  IF \/ worker[w].refused \/ row.owner # a \/ row.phase \notin LivePhases
           \/ worker[w].bound # "none" /\ Conflict(row, a, ExpectsLink(w))
        THEN row ELSE Moved(row, target, FALSE)

(***************************************************************************)
(* begin_or_attach_run, then verify_binding up to its definition check.    *)
(***************************************************************************)
Begin(w) ==
    LET a == Mine(w) IN
    /\ worker[w].pc = "begin" /\ ~Overlapped(w)
    /\ run' = [run EXCEPT ![a].status = IF @ = "none" THEN "queued" ELSE @]
    /\ \/ /\ row.owner # a \/ row.attempt # a
          /\ worker' = [worker EXCEPT ![w].pc = "except", ![w].retryable = FALSE]
       \/ /\ row.owner = a /\ row.attempt = a
          /\ row.phase \notin {"claimed", "blocked"} /\ Cancelled(w)
       \/ /\ row.owner = a /\ row.attempt = a
          /\ row.phase \in {"claimed", "blocked"} /\ ~current /\ Goto(w, "stale")
       \/ /\ row.owner = a /\ row.attempt = a
          /\ row.phase \in {"claimed", "blocked"} /\ current
          /\ worker' = [worker EXCEPT ![w].pc = "lane",
                                      ![w].bound = IF row.linked THEN "linked" ELSE "plain"]
    /\ UNCHANGED <<row, receipt, current, recovered, operator, history>>

(* Another run of the cron job holds the mutex: finished() without a binding. *)
Overlap(w) ==
    /\ worker[w].pc = "begin" /\ Cron
    /\ row' = Finished(w, "rejected")
    /\ worker' = Ended(w)
    /\ UNCHANGED <<run, receipt, current, recovered, operator, history>>

(* verify_binding saw a changed definition: cancel_automation_delivery checks no owner. *)
CancelStale(w) ==
    /\ worker[w].pc = "stale"
    /\ row' = Revoked(row)
    /\ Cancelled(w)
    /\ UNCHANGED <<run, receipt, current, recovered, operator, history>>

(* The session lane is acquired, at once or after a wait, and admitted() runs. *)
Admit(w) ==
    LET a == Mine(w)
        may == MayMove(row, run[row.attempt], a, {"claimed", "blocked"}, "admitted")
    IN
    /\ worker[w].pc = "lane"
    /\ row' = IF may THEN Moved(row, "admitted", FALSE) ELSE row
    /\ IF may THEN Goto(w, "guard") ELSE Cancelled(w)
    /\ UNCHANGED <<run, receipt, current, recovered, operator, history>>

(* The lane is busy under policy "reject": the run goes back to queued, whatever it was. *)
RejectLane(w) ==
    /\ worker[w].pc = "lane" /\ LaneRejects
    /\ run' = [run EXCEPT ![Mine(w)] = SetStatus(@, "queued")]
    /\ End(w, "rejected", "finish")
    /\ UNCHANGED <<row, receipt, current, recovered, operator, history>>

(* Preflight and action guard: allow, ask for a review, or deny. *)
Allow(w) ==
    /\ worker[w].pc = "guard"
    /\ Goto(w, "control")
    /\ UNCHANGED <<rows, current, recovered, operator, history>>

AskReview(w) ==
    /\ worker[w].pc = "guard" /\ Reviews /\ ~worker[w].override
    /\ run' = [run EXCEPT ![Mine(w)].approval = TRUE]
    /\ End(w, "held", "review")
    /\ UNCHANGED <<row, receipt, current, recovered, operator, history>>

Deny(w) ==
    /\ worker[w].pc = "guard" /\ Reviews
    /\ run' = [run EXCEPT ![Mine(w)] = SetStatus(@, "failed")]
    /\ End(w, "other", "finish")
    /\ UNCHANGED <<row, receipt, current, recovered, operator, history>>

(* request_approval writes waiting_approval in transition() and again after it. *)
AwaitApproval(w) ==
    /\ worker[w].pc \in {"review", "confirm"}
    /\ run' = [run EXCEPT ![Mine(w)].status = "waiting_approval"]
    /\ Goto(w, IF worker[w].pc = "review" THEN "confirm" ELSE "finish")
    /\ UNCHANGED <<row, receipt, current, recovered, operator, history>>

(* _consume_automation_control: the signal is taken in one transaction ... *)
StopSignals == Signals \ {"none", "retry"}

ConsumeSignal(w) ==
    LET signal == run[Mine(w)].signal IN
    /\ worker[w].pc \in {"control", "after"} /\ signal \in StopSignals
    /\ run' = [run EXCEPT ![Mine(w)].signal = "none"]
    /\ End(w, IF signal = "cancel" THEN "cancelled" ELSE IF signal = "interrupt" THEN "other" ELSE "held",
           "controlled")
    /\ UNCHANGED <<row, receipt, current, recovered, operator, history>>

(* ... and the run is moved in a later one, whatever its status has become. *)
ApplySignal(w) ==
    LET status == CASE worker[w].result = "cancelled" -> "cancelled"
                    [] worker[w].result = "other"     -> "interrupted"
                    [] worker[w].result = "held"      -> "paused"
    IN
    /\ worker[w].pc = "controlled"
    /\ run' = [run EXCEPT ![Mine(w)] = SetStatus(@, status)]
    /\ Goto(w, "finish")
    /\ UNCHANGED <<row, receipt, current, recovered, operator, history>>

PassControl(w) ==
    /\ worker[w].pc \in {"control", "after"} /\ run[Mine(w)].signal \notin StopSignals
    /\ run' = [run EXCEPT ![Mine(w)].signal = "none"]
    /\ Goto(w, IF worker[w].pc = "control" THEN "start" ELSE "settle")
    /\ UNCHANGED <<row, receipt, current, recovered, operator, history>>

StartRunning(w) ==
    LET may == run[Mine(w)].status \in OpenRuns IN
    /\ worker[w].pc = "start"
    /\ run' = IF may THEN [run EXCEPT ![Mine(w)].status = "running"] ELSE run
    /\ IF may THEN Goto(w, "claim") ELSE Cancelled(w)
    /\ UNCHANGED <<row, receipt, current, recovered, operator, history>>

(* begin() of the effect, under a key that contains the run id: no legacy evidence. *)
BeginEffect(w) ==
    LET r == receipt[Mine(w)]  s == AfterClaim(r, w, FALSE, FALSE) IN
    /\ worker[w].pc = "claim"
    /\ receipt' = [receipt EXCEPT ![Mine(w)] = s]
    /\ worker' = [worker EXCEPT ![w].pc = "link",
                                ![w].effect = IF Executes(r, FALSE, FALSE) THEN "own"
                                              ELSE IF s.state = "completed" THEN "done" ELSE "open"]
    /\ UNCHANGED <<row, run, current, recovered, operator, history>>

(* link_receipt ignores whether its transition took place. *)
LinkReceipt(w) ==
    /\ worker[w].pc = "link"
    /\ row' = IF MayMove(row, run[row.attempt], Mine(w), {"admitted"}, "admitted")
              THEN Moved(row, "admitted", TRUE) ELSE row
    /\ CASE worker[w].effect = "own"  -> Goto(w, "check")
         [] worker[w].effect = "done" -> Goto(w, "settle")
         [] worker[w].effect = "open" -> End(w, "failed", "settle")
    /\ UNCHANGED <<run, receipt, current, recovered, operator, history>>

(* executing(): the definition is read, then the row is moved in another transaction. *)
CheckDefinition(w) ==
    /\ worker[w].pc = "check"
    /\ Goto(w, IF current THEN "execute" ELSE "revoke")
    /\ UNCHANGED <<rows, current, recovered, operator, history>>

Revoke(w) ==
    /\ worker[w].pc = "revoke"
    /\ row' = IF MayMove(row, run[row.attempt], Mine(w), {"admitted"}, "cancelled")
              THEN Moved(row, "cancelled", FALSE) ELSE row
    /\ Cancelled(w)
    /\ UNCHANGED <<run, receipt, current, recovered, operator, history>>

Execute(w) ==
    LET may == MayMove(row, run[row.attempt], Mine(w), {"admitted"}, "executing") IN
    /\ worker[w].pc = "execute"
    /\ row' = IF may THEN Moved(row, "executing", TRUE) ELSE row
    /\ started' = IF may THEN started \union {w} ELSE started
    /\ IF may THEN Goto(w, "perform") ELSE Cancelled(w)
    /\ UNCHANGED <<run, receipt, current, recovered, operator, repudiated, stopped>>

(* The action returns, raises or is cancelled. *)
Perform(w) ==
    /\ worker[w].pc = "perform"
    /\ Goto(w, "complete") \/ Goto(w, "except") \/ (Agent /\ Cancelled(w))
    /\ UNCHANGED <<rows, current, recovered, operator, history>>

(* ModelGovernanceInterventionRequired: the agent asks for an approval half way. *)
Intervene(w) ==
    /\ worker[w].pc = "perform" /\ Intervenes
    /\ run' = [run EXCEPT ![Mine(w)].approval = TRUE]
    /\ End(w, "held", "review")
    /\ UNCHANGED <<row, receipt, current, recovered, operator, history>>

CompleteEffect(w) ==
    /\ worker[w].pc = "complete"
    /\ receipt' = [receipt EXCEPT ![Mine(w)] = AfterReport(@, w, "completed")]
    /\ Goto(w, IF OwnedClaim(receipt[Mine(w)], w) THEN "after" ELSE "except")
    /\ UNCHANGED <<row, run, current, recovered, operator, history>>

(* An exception anywhere between two steps; begin() may have claimed and not returned. *)
Raise(w) ==
    /\ worker[w].pc \in {"lane", "guard", "control", "start", "claim", "link", "check", "complete", "after"}
    /\ \E retryable \in BOOLEAN :
          worker' = [worker EXCEPT ![w].pc = "except", ![w].retryable = retryable,
                                   ![w].effect = IF worker[w].pc = "link" THEN "none" ELSE @]
    /\ UNCHANGED <<rows, current, recovered, operator, history>>

(* begin_or_attach_run itself fails: there is no run handle, so nothing to settle. *)
FailToBegin(w) ==
    /\ worker[w].pc = "begin" /\ ~Overlapped(w)
    /\ End(w, "failed", "finish")
    /\ UNCHANGED <<rows, current, recovered, operator, history>>

(* except Exception: fail() the receipt, if there is one, and settle as failed. *)
HandleException(w) ==
    LET a == Mine(w)
        reports == worker[w].effect = "own" /\ OwnedClaim(receipt[a], w)
    IN
    /\ worker[w].pc = "except"
    /\ receipt' = IF reports THEN [receipt EXCEPT ![a] = AfterReport(@, w, "failed")] ELSE receipt
    /\ repudiated' = IF reports THEN repudiated \union {w} ELSE repudiated
    /\ End(w, "failed", "settle")
    /\ UNCHANGED <<row, run, current, recovered, operator, started, stopped>>

(***************************************************************************)
(* settle_run.  Its result is the run's status where it was refused, and   *)
(* "review_required" wherever the invocation met somebody else's receipt.  *)
(***************************************************************************)
Conclude(w, result, step) ==
    worker' = [worker EXCEPT ![w].pc = step,
                             ![w].result = IF worker[w].effect = "open" THEN "held" ELSE result]

Settle(w) ==
    LET a == Mine(w)
        desired == IF worker[w].result = "success" THEN "completed" ELSE worker[w].result
        owned == worker[w].effect # "none" /\ row.linked /\ receipt[a].owner = w
        refused == BindingConflict(w) \/ ~MaySettle(row, run[a], a, desired)
        unproven == Unproven(row, receipt[a], desired, owned)
    IN
    /\ worker[w].pc = "settle"
    /\ IF worker[w].bound = "none" /\ row.attempt # a
       THEN Conclude(w, ResultOf(run[a].status), "finish") /\ UNCHANGED <<row, run>>
       ELSE IF refused
       THEN /\ worker' = [worker EXCEPT ![w].pc = "mark",
                                        ![w].refused = worker[w].bound # "none" /\ BindingConflict(w)]
            /\ UNCHANGED <<row, run>>
       ELSE IF unproven
       THEN /\ row' = Parked(row, receipt[a])
            /\ run' = [run EXCEPT ![a] = Waiting(@)]
            /\ Conclude(w, "other", "finish")
       ELSE /\ run' = [run EXCEPT ![a] = SetStatus(@, desired)]
            /\ Conclude(w, worker[w].result, "finish")
            /\ UNCHANGED row
    /\ UNCHANGED <<receipt, current, recovered, operator, history>>

(* _mark_run_waiting_for_external_outcome with the item that settle_run was refused for. *)
MarkLate(w) ==
    LET a == Mine(w)
        marks == ~BindingConflict(w) /\ MayWait(row, run[a])
    IN
    /\ worker[w].pc = "mark"
    /\ run' = IF marks THEN [run EXCEPT ![a] = Waiting(@)] ELSE run
    /\ Conclude(w, ResultOf(run'[a].status), "finish")
    /\ UNCHANGED <<row, receipt, current, recovered, operator, history>>

Finish(w) ==
    /\ worker[w].pc = "finish"
    /\ row' = Finished(w, worker[w].result)
    /\ worker' = Ended(w)
    /\ UNCHANGED <<run, receipt, current, recovered, operator, history>>

(* A retry's run is not the delivery's: verify_binding refuses it and finished() runs. *)
FinishForeign(w) ==
    /\ worker[w].pc = "foreign"
    /\ \E result \in {"rejected", "other"} :
          /\ result = "rejected" => Cron
          /\ result = "other" => ~Overlapped(w)
          /\ row' = Finished(w, result)
    /\ worker' = Ended(w)
    /\ UNCHANGED <<run, receipt, current, recovered, operator, history>>

WorkerStep(w) ==
    \/ Begin(w) \/ Overlap(w) \/ CancelStale(w) \/ Admit(w) \/ RejectLane(w) \/ Allow(w)
    \/ AskReview(w) \/ Deny(w) \/ AwaitApproval(w) \/ ConsumeSignal(w) \/ ApplySignal(w)
    \/ PassControl(w) \/ StartRunning(w) \/ BeginEffect(w) \/ LinkReceipt(w)
    \/ CheckDefinition(w) \/ Revoke(w) \/ Execute(w) \/ Perform(w) \/ Intervene(w) \/ CompleteEffect(w)
    \/ Raise(w) \/ FailToBegin(w) \/ HandleException(w) \/ Settle(w) \/ MarkLate(w)
    \/ Finish(w) \/ FinishForeign(w)

-----------------------------------------------------------------------------
(* The scheduler's tick.                                                   *)

Kick ==
    LET last == IF row.attempt = 0 THEN "none" ELSE run[row.attempt].status IN
    /\ row.phase = "pending" /\ current
    /\ IF last \in {"cancelled", "completed"}
       THEN /\ row' = [row EXCEPT !.phase = IF last = "cancelled" THEN "cancelled" ELSE "unknown"]
            /\ UNCHANGED worker
       ELSE /\ row.attempt < MaxAttempt /\ Idlers # {}
            /\ row' = Claimed(row)
            /\ worker' = Spawned(At("begin", row.attempt + 1))
    /\ UNCHANGED <<run, receipt, current, recovered, operator, history>>

DropStale ==
    /\ row.phase = "pending" /\ ~current
    /\ row' = Revoked(row)
    /\ UNCHANGED <<run, receipt, current, worker, recovered, operator, history>>

(* The owner's task still runs in this process. *)
Renew ==
    /\ row.phase \in LeasedPhases /\ row.lease = "expired"
    /\ \E w \in Worker : Alive(w) /\ Mine(w) = row.owner
    /\ row' = [row EXCEPT !.lease = "live"]
    /\ UNCHANGED <<run, receipt, current, worker, recovered, operator, history>>

Reconcile ==
    LET a == row.attempt  target == ReconcileTarget(row, run[a], receipt[a]) IN
    /\ Due(row)
    /\ row' = Released(row, target)
    /\ receipt' = [receipt EXCEPT ![a] = ReceiptAfterReconcile(row, @, target)]
    /\ recovered' = (target \in {"completed", "failed"})
    /\ UNCHANGED <<run, current, worker, operator, history>>

(* The tick marks what reconcile just resolved, and every unknown row it pages through. *)
MarkRun ==
    /\ recovered \/ row.phase = "unknown"
    /\ recovered' = FALSE
    /\ run' = IF MayWait(row, run[row.attempt])
              THEN [run EXCEPT ![row.attempt] = Waiting(@)] ELSE run
    /\ run' # run \/ recovered
    /\ UNCHANGED <<row, receipt, current, worker, operator, history>>

(* The wall clock, which does not ask whether the owner is alive. *)
LapseDelivery ==
    /\ row.lease = "live"
    /\ row' = [row EXCEPT !.lease = "expired"]
    /\ UNCHANGED <<run, receipt, current, worker, recovered, operator, history>>

LapseReceipt(a) ==
    /\ receipt[a].lease = "live"
    /\ receipt' = [receipt EXCEPT ![a].lease = "expired"]
    /\ UNCHANGED <<row, run, current, worker, recovered, operator, history>>

(* An edit or a disable of the definition; a revision never comes back. *)
ChangeDefinition ==
    /\ current /\ current' = FALSE
    /\ UNCHANGED <<rows, worker, recovered, operator, history>>

(* The engine dies and boots: invocations are gone, open runs become interrupted. *)
Restart ==
    /\ worker' = [w \in Worker |-> IF Alive(w) THEN At("gone", Mine(w)) ELSE worker[w]]
    /\ worker' # worker
    /\ run' = [a \in Attempt |-> IF run[a].status \in OpenRuns
                                 THEN SetStatus(run[a], "interrupted") ELSE run[a]]
    /\ recovered' = FALSE
    /\ operator' = Away
    /\ UNCHANGED <<row, receipt, current, history>>

-----------------------------------------------------------------------------
(* People: run commands, approvals, and the reconciliation of unknowns.    *)

Exists(a) == run[a].status # "none"

(* Invocations that share an attempt, as a resume makes them, write over each  *)
(* other's status; a cancel is the last word where it meets one at most.       *)
Inside(a) == {w \in Worker : worker[w].pc \notin {"idle", "foreign", "gone"} /\ Mine(w) = a}

Lone(a) == \A v, w \in Inside(a) : v = w

Cancel(a) ==
    /\ "cancel" \in Commands /\ Exists(a)
    /\ run' = [run EXCEPT ![a] = [SetStatus(@, "cancelled") EXCEPT !.signal = "cancel"]]
    /\ stopped' = IF a = row.attempt /\ Lone(a) THEN stopped \union {a} ELSE stopped
    /\ UNCHANGED <<row, receipt, current, worker, recovered, operator, started, repudiated>>

Pause(a) ==
    /\ "pause" \in Commands /\ Exists(a)
    /\ run' = [run EXCEPT ![a] = [SetStatus(@, "paused") EXCEPT !.signal = "pause"]]
    /\ stopped' = stopped \ {a}
    /\ UNCHANGED <<row, receipt, current, worker, recovered, operator, started, repudiated>>

Interrupt(a) ==
    /\ "interrupt" \in Commands
    /\ run[a].status \in OpenRuns \union HeldRuns \union {"waiting_external_tool"}
    /\ run' = [run EXCEPT ![a] = [SetStatus(@, "interrupted") EXCEPT !.signal = "interrupt"]]
    /\ stopped' = stopped \ {a}
    /\ UNCHANGED <<row, receipt, current, worker, recovered, operator, started, repudiated>>

(* Only agent runs resume; the new invocation carries the owner id saved in the run. *)
Resume(a) ==
    /\ "resume" \in Commands /\ Agent /\ Exists(a) /\ Idlers # {}
    /\ run' = [run EXCEPT ![a] = [SetStatus(@, "running") EXCEPT !.signal = "none"]]
    /\ worker' = Spawned(At("begin", a))
    /\ stopped' = stopped \ {a}
    /\ UNCHANGED <<row, receipt, current, recovered, operator, started, repudiated>>

Retry(a) ==
    /\ "retry" \in Commands /\ Exists(a) /\ Idlers # {}
    /\ run' = [run EXCEPT ![a].signal = "retry"]
    /\ worker' = Spawned(At("foreign", a))
    /\ stopped' = stopped \ {a}
    /\ UNCHANGED <<row, receipt, current, recovered, operator, started, repudiated>>

(* resolve_pending_approval_if_pending, then _resume_from_approval. *)
Decidable(a) ==
    /\ run[a].approval /\ run[a].status \notin TerminalRuns
    /\ run[a].signal \notin {"cancel", "interrupt"}

Approve(a) ==
    LET status == IF run[a].signal = "none" /\ run[a].status = "waiting_approval"
                  THEN "running" ELSE run[a].status
        resumes == run[a].signal = "none" /\ status = "running"
    IN
    /\ Decidable(a) /\ (resumes => Idlers # {})
    /\ run' = [run EXCEPT ![a].status = status, ![a].approval = FALSE]
    /\ worker' = IF resumes THEN Spawned([At("begin", a) EXCEPT !.override = TRUE]) ELSE worker
    /\ UNCHANGED <<row, receipt, current, recovered, operator, history>>

RejectApproval(a) ==
    LET waits == run[a].signal = "none" /\ run[a].status \in {"running", "waiting_approval"} IN
    /\ Decidable(a)
    /\ run' = [run EXCEPT ![a].approval = FALSE,
                          ![a].status = IF waits THEN "waiting_input" ELSE @,
                          ![a].signal = IF waits THEN "approval_rejected" ELSE @]
    /\ UNCHANGED <<row, receipt, current, worker, recovered, operator, history>>

(* _reconcile_authorized: one read and three separate transactions. *)
OperatorReads ==
    /\ operator = Away /\ row.phase = "unknown"
    /\ \E outcome \in {"completed", "failed"} :
          /\ row.linked => receipt[row.attempt].state \in {"indeterminate", outcome}
          /\ operator' = [step |-> "mark", outcome |-> outcome,
                          unsettled |-> row.linked /\ receipt[row.attempt].state = "indeterminate"]
    /\ UNCHANGED <<rows, current, worker, recovered, history>>

OperatorMarks ==
    /\ operator.step = "mark"
    /\ run' = IF MayWait(row, run[row.attempt])
              THEN [run EXCEPT ![row.attempt] = Waiting(@)] ELSE run
    /\ operator' = [operator EXCEPT !.step = IF operator.unsettled THEN "receipt" ELSE "row"]
    /\ UNCHANGED <<row, receipt, current, worker, recovered, history>>

OperatorSettlesReceipt ==
    LET r == receipt[row.attempt] IN
    /\ operator.step = "receipt"
    /\ receipt' = [receipt EXCEPT ![row.attempt] = AfterReconcile(@, operator.outcome)]
    /\ operator' = IF r.state = "indeterminate" THEN [operator EXCEPT !.step = "row"] ELSE Away
    /\ UNCHANGED <<row, run, current, worker, recovered, history>>

OperatorSettlesRow ==
    /\ operator.step = "row"
    /\ row' = IF row.phase = "unknown"
              THEN [row EXCEPT !.phase = operator.outcome, !.reconciled = TRUE] ELSE row
    /\ operator' = Away
    /\ UNCHANGED <<run, receipt, current, worker, recovered, history>>

Tick == Kick \/ DropStale \/ Renew \/ Reconcile \/ MarkRun

Next ==
    \/ \E w \in Worker : WorkerStep(w)
    \/ Tick \/ LapseDelivery \/ ChangeDefinition \/ Restart
    \/ \E a \in Attempt : \/ LapseReceipt(a) \/ Cancel(a) \/ Pause(a) \/ Interrupt(a)
                           \/ Resume(a) \/ Retry(a) \/ Approve(a) \/ RejectApproval(a)
    \/ OperatorReads \/ OperatorMarks \/ OperatorSettlesReceipt \/ OperatorSettlesRow

Spec == Init /\ [][Next]_vars

(***************************************************************************)
(* The executor's thread or task runs on, its effect bounded by a timeout; *)
(* the scheduler ticks every five seconds; and the clock passes the lease  *)
(* of an owner that no task renews.                                        *)
(***************************************************************************)
Abandoned == \A w \in Worker : Alive(w) => Mine(w) # row.owner

Fairness ==
    /\ \A w \in Worker : WF_vars(WorkerStep(w))
    /\ WF_vars(Kick) /\ WF_vars(DropStale) /\ WF_vars(Reconcile) /\ WF_vars(MarkRun)
    /\ WF_vars(LapseDelivery /\ Abandoned)

FairSpec == Spec /\ Fairness

-----------------------------------------------------------------------------
(***************************************************************************)
(* Two invocations never both begin the action of one delivery, unless one *)
(* of them recorded that its own action failed: neither a lapsed lease nor *)
(* a crash after executing() sends the row back to "pending".              *)
(***************************************************************************)
AtMostOnce ==
    \A v, w \in started : v # w => (v \in repudiated \/ w \in repudiated)

(***************************************************************************)
(* No row ends while a receipt of an action that was begun is still        *)
(* claimed or indeterminate, except by an operator's evidence: what may    *)
(* have happened is not written off, whoever ends the row, finished(),     *)
(* settle_run or the tick's reconcile.                                     *)
(***************************************************************************)
OutcomeIsProven ==
    row.phase \in FinalPhases /\ ~row.reconciled =>
        \A w \in started : receipt[Mine(w)].state \notin {"claimed", "indeterminate"}

(***************************************************************************)
(* A delivery reported as completed has the completed receipt of its own   *)
(* current attempt, or an operator's evidence.                             *)
(***************************************************************************)
CompletedHasEvidence ==
    row.phase = "completed" /\ ~row.reconciled => receipt[row.attempt].state = "completed"

(***************************************************************************)
(* Once the run of the current attempt is cancelled, no invocation, of     *)
(* this attempt or of a later one, begins the action.                      *)
(***************************************************************************)
CancelStopsDelivery == [][started' # started => stopped = {}]_vars

(***************************************************************************)
(* The weaker half of it, which survives resumes, approvals and a busy     *)
(* lane: the cancelled attempt itself does not begin the action, neither   *)
(* by the invocation that the cancel met nor by one that comes after it.   *)
(***************************************************************************)
CancelFencesAttempt == [][\A w \in started' \ started : Mine(w) \notin stopped]_vars

(***************************************************************************)
(* A delivery does not stay with a lost owner: the tick takes it from      *)
(* claimed, admitted or executing to an outcome, to "unknown" or to a      *)
(* further attempt.  Idlers = {} is the bound on invocations.              *)
(***************************************************************************)
DeliverySettles ==
    <>[](\/ row.phase \in FinalPhases \union {"unknown", "blocked"}
         \/ row.phase = "pending" /\ Idlers = {})
=============================================================================
