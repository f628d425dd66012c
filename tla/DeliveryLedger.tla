--------------------------- MODULE DeliveryLedger ---------------------------
(***************************************************************************)
(* One row of runtime_automation_deliveries, together with the run record  *)
(* and the effect receipt of its current attempt, and the transactions of  *)
(* core/database.py that change them, as operators on these records.       *)
(*                                                                         *)
(* A claim draws a fresh owner id and, after the first, a fresh run id, so *)
(* owner, run and attempt share one number.  receipt_key is either NULL or *)
(* the key of the attempt's own receipt, so "linked" stands for it.        *)
(***************************************************************************)
EXTENDS ReceiptLedger, Naturals

CONSTANT MaxAttempt   \* bound: how often the row may be claimed

ASSUME MaxAttemptAssumption == MaxAttempt \in Nat \ {0}

Attempt == 1..MaxAttempt

LeasedPhases == {"claimed", "admitted", "executing"}
LivePhases   == LeasedPhases \union {"blocked"}
FinalPhases  == {"completed", "failed", "cancelled"}

Delivery ==
    [phase : LivePhases \union FinalPhases \union {"pending", "unknown"},
     owner : 0..MaxAttempt, lease : Leases, attempt : 0..MaxAttempt,
     linked : BOOLEAN, reconciled : BOOLEAN]

Enqueued == [phase |-> "pending", owner |-> 0, lease |-> "none", attempt |-> 0,
             linked |-> FALSE, reconciled |-> FALSE]

TerminalRuns == {"completed", "failed", "cancelled", "interrupted"}
HeldRuns     == {"waiting_approval", "waiting_input", "paused"}
OpenRuns     == {"queued", "running"}

Signals == {"none", "cancel", "pause", "interrupt", "approval_rejected", "retry"}

(* "approval": a pending_approvals row of the run; "marked": metadata.automationRecovery. *)
Run == [status : TerminalRuns \union HeldRuns \union OpenRuns
                     \union {"none", "waiting_external_tool"},
        signal : Signals, approval : BOOLEAN, marked : BOOLEAN]

NoRun == [status |-> "none", signal |-> "none", approval |-> FALSE, marked |-> FALSE]

(* update_run_record: aborting a run also closes its pending approvals. *)
SetStatus(run, status) ==
    [run EXCEPT !.status = status,
                !.approval = @ /\ status \notin {"failed", "cancelled", "interrupted"}]

LeaseFor(phase) == IF phase \in LeasedPhases THEN "live" ELSE "none"

(* claim_automation_delivery on a pending row whose last run did not end. *)
Claimed(row) ==
    [row EXCEPT !.phase = "claimed", !.owner = row.attempt + 1, !.attempt = row.attempt + 1,
                !.lease = "live", !.linked = FALSE]

MayMoveLate(row, run, owner, from, to) ==  \* slip: the run is looked at on admission only
    /\ row.owner = owner /\ row.phase \in from
    /\ to = "admitted" => run.status \notin {"cancelled", "completed"}

(* The guard and the assignments of transition_automation_delivery. *)
MayMove(row, run, owner, from, to) ==
    /\ row.owner = owner /\ row.phase \in from
    /\ to \in {"admitted", "executing"} => run.status \notin {"cancelled", "completed"}

Moved(row, to, link) ==
    [row EXCEPT !.phase = to, !.lease = LeaseFor(to), !.linked = @ \/ link]

Revoked(row) ==
    IF row.phase \in {"pending", "claimed", "blocked"}
    THEN [row EXCEPT !.phase = "cancelled", !.lease = "none"] ELSE row

(* _automation_delivery_binding_conflict: attempt and receipt key are what may differ. *)
Conflict(row, attempt, linked) == row.attempt # attempt \/ row.linked # linked

(***************************************************************************)
(* transition_automation_run to completed, failed or cancelled.  "owned"   *)
(* says that the caller's receipt is the row's receipt and still its own.  *)
(***************************************************************************)
MaySettle(row, run, owner, desired) ==
    /\ run.status \in OpenRuns
    /\ row.owner = owner /\ ~row.reconciled
    /\ row.phase \in LivePhases \union (IF desired = "cancelled" THEN {"cancelled"} ELSE {})

Unproven(row, receipt, desired, owned) ==
    LET notStarted == desired = "cancelled" /\ row.phase # "executing" /\ (row.linked => owned) IN
    \/ desired = "completed" /\ ~(owned /\ receipt.state = "completed")
    \/ row.linked /\ ~notStarted /\ ~(owned /\ receipt.state \in {"completed", "failed"})
    \/ desired = "cancelled" /\ row.phase = "executing"

Parked(row, receipt) ==
    [row EXCEPT !.phase = IF row.linked /\ receipt.state \in {"completed", "failed"}
                          THEN receipt.state ELSE "unknown",
                !.owner = 0, !.lease = "none"]

(* transition_automation_run to waiting_external_tool. *)
MayWait(row, run) ==
    /\ row.phase \in {"unknown", "completed", "failed"}
    /\ run.status \in OpenRuns \union {"waiting_external_tool"}
    /\ ~(run.status = "waiting_external_tool" /\ run.marked)

Waiting(run) == [run EXCEPT !.status = "waiting_external_tool", !.marked = TRUE]

FinishAsReported(row, run, receipt, result, retryable) ==  \* slip: the result is the phase
    IF result = "success" THEN "completed" ELSE result

(* The target that finished() picks for the invocation's result. *)
FinishTarget(row, run, receipt, result, retryable) ==
    IF row.linked /\ receipt.state = "completed" THEN "completed"
    ELSE IF result = "cancelled" \/ run.status = "cancelled" THEN "cancelled"
    ELSE IF result = "success" THEN "unknown"
    ELSE IF result = "held" THEN
        IF row.linked /\ receipt.state = "indeterminate" THEN "unknown" ELSE "blocked"
    ELSE IF row.phase \in {"claimed", "admitted"} /\ (result = "rejected" \/ (result = "failed" /\ retryable))
         THEN "pending"
    ELSE "failed"

(***************************************************************************)
(* reconcile_automation_deliveries on one row: due when a lease lapsed or  *)
(* the outcome is unknown.                                                 *)
(***************************************************************************)
DueUnlessAdmitted(row) ==  \* slip: a phase is missing from the query
    row.phase = "unknown" \/ (row.phase \in {"claimed", "executing"} /\ row.lease = "expired")

Due(row) == row.phase = "unknown" \/ (row.phase \in LeasedPhases /\ row.lease = "expired")

Resolved(row, run, receipt, otherwise) ==
    IF row.linked /\ receipt.state = "completed" THEN "completed"
    ELSE IF run.status = "cancelled" THEN "cancelled"
    ELSE IF row.linked /\ receipt.state = "failed" THEN "failed"
    ELSE otherwise

ReconcileRetries(row, run, receipt) ==  \* slip: a lost owner never began the action
    Resolved(row, run, receipt, IF row.phase = "unknown" THEN "unknown" ELSE "pending")

ReconcileFails(row, run, receipt) ==  \* slip: a lost owner is a failure
    Resolved(row, run, receipt, IF row.phase \in {"executing", "unknown"} THEN "failed" ELSE "pending")

ReconcileAssumes(row, run, receipt) ==  \* slip: a linked receipt is taken for a completed one
    IF row.linked THEN "completed" ELSE Resolved(row, run, receipt, "pending")

ReconcileTarget(row, run, receipt) ==
    Resolved(row, run, receipt, IF row.phase \in {"executing", "unknown"} THEN "unknown" ELSE "pending")

ReceiptAfterReconcile(row, receipt, target) ==
    IF receipt.state # "claimed" THEN receipt
    ELSE IF target = "pending" THEN Settled("failed", NoOwner)
    ELSE IF target = "unknown" /\ row.linked THEN Settled("indeterminate", NoOwner)
    ELSE receipt

Released(row, target) == [row EXCEPT !.phase = target, !.owner = 0, !.lease = "none"]
=============================================================================
