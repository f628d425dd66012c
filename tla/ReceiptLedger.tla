--------------------------- MODULE ReceiptLedger ---------------------------
(***************************************************************************)
(* One row of runtime_side_effect_receipts and the five statements that    *)
(* change it, as operators on the row.  Each operator is one BEGIN         *)
(* IMMEDIATE transaction of core/database.py, so a specification that uses *)
(* it applies it in a single step.  Times become the three values of       *)
(* "lease"; errors, metadata and timestamps are left out.                  *)
(***************************************************************************)
CONSTANTS
    Owner,     \* the owner ids a begin() can draw: a fresh uuid per call
    NoOwner    \* owner_id IS NULL

ASSUME NoOwnerAssumption == NoOwner \notin Owner

ReceiptStates == {"absent", "claimed", "completed", "failed", "indeterminate"}

Leases == {"none", "live", "expired"}

Receipt == [state : ReceiptStates, owner : Owner \union {NoOwner}, lease : Leases]

Absent == [state |-> "absent", owner |-> NoOwner, lease |-> "none"]

(* A plausible slip: a claim written under a state name the other statements do not read. *)
HeldMisnamed(owner) == [state |-> "running", owner |-> owner, lease |-> "live"]

Held(owner) == [state |-> "claimed", owner |-> owner, lease |-> "live"]

Settled(state, owner) == [state |-> state, owner |-> owner, lease |-> "none"]

(***************************************************************************)
(* claim_side_effect_receipt with retry_failed = True, which is how        *)
(* begin() always calls it.  "legacy" is the event-log evidence that the   *)
(* effect completed before receipts existed.                               *)
(***************************************************************************)
ExecutesOnLapse(r, replaySafe, legacy) ==  \* slip: replay_safe forgotten
    (r.state = "absent" /\ ~legacy) \/ r.state = "failed" \/ r.lease = "expired"

Executes(r, replaySafe, legacy) ==
    \/ r.state = "absent" /\ ~legacy
    \/ r.state = "failed"
    \/ r.state = "claimed" /\ r.lease = "expired" /\ replaySafe

AfterClaim(r, owner, replaySafe, legacy) ==
    IF Executes(r, replaySafe, legacy) THEN Held(owner)
    ELSE IF r.state = "absent" THEN Settled("completed", NoOwner)
    ELSE IF r.state = "claimed" /\ r.lease = "expired" THEN Settled("indeterminate", NoOwner)
    ELSE r

(* The WHERE clause shared by complete, fail and mark: a live claim of the caller's own. *)
OwnedClaim(r, owner) == r.state = "claimed" /\ r.owner = owner

(* complete_side_effect_receipt and fail_side_effect_receipt keep owner_id. *)
AfterLateReport(r, owner, outcome) ==  \* slip: any claim of the key is settled
    IF r.state = "claimed" THEN Settled(outcome, r.owner) ELSE r

AfterReport(r, owner, outcome) ==
    IF OwnedClaim(r, owner) THEN Settled(outcome, owner) ELSE r

(* mark_side_effect_indeterminate clears owner_id. *)
AfterMarkFailed(r, owner) ==  \* slip: an interrupted effect recorded as not done
    IF OwnedClaim(r, owner) THEN Settled("failed", NoOwner) ELSE r

AfterMark(r, owner) ==
    IF OwnedClaim(r, owner) THEN Settled("indeterminate", NoOwner) ELSE r

(* reconcile_side_effect_receipt: an operator's evidence, only from "indeterminate". *)
AfterReconcile(r, outcome) ==
    IF r.state = "indeterminate" THEN Settled(outcome, NoOwner) ELSE r
=============================================================================
