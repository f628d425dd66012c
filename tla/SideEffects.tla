---------------------------- MODULE SideEffects ----------------------------
(***************************************************************************)
(* SideEffectIdempotencyService: calls that begin() an effect under an     *)
(* idempotency key, run the external action when the ledger says so, and   *)
(* report the outcome.  A call may crash at any point, its lease may lapse *)
(* while it is still running (nothing renews a receipt's lease), and an    *)
(* operator may settle an unknown outcome.                                 *)
(***************************************************************************)
EXTENDS ReceiptLedger

CONSTANTS
    Key,         \* idempotency keys
    ReplaySafe   \* the keys whose begin() passes replay_safe=True

ASSUME ReplaySafeAssumption == ReplaySafe \subseteq Key

VARIABLES
    receipt,     \* the ledger: one row per key
    legacy,      \* keys whose event log already holds side_effect.completed
    pc,          \* where each call stands
    key,         \* the key each call works on
    sawLegacy,   \* the legacy lookup each call made before its claim
    performed,   \* history: calls whose external action ran
    repudiated,  \* history: calls that reported, and had recorded, a failure
    reconciled   \* history: keys an operator settled

vars == <<receipt, legacy, pc, key, sawLegacy, performed, repudiated, reconciled>>

(* An owner id is drawn per begin(), so the calls are the owners. *)
Call == Owner

Phases == {"idle", "looked", "execute", "succeeded", "raised", "interrupted", "done", "dead"}

TypeOK ==
    /\ receipt \in [Key -> Receipt]
    /\ legacy \in SUBSET Key
    /\ pc \in [Call -> Phases]
    /\ key \in [Call -> Key]
    /\ sawLegacy \in [Call -> BOOLEAN]
    /\ performed \in SUBSET Call
    /\ repudiated \in SUBSET Call
    /\ reconciled \in SUBSET Key

Init ==
    /\ receipt = [k \in Key |-> Absent]
    /\ legacy \in SUBSET Key
    /\ pc = [c \in Call |-> "idle"]
    /\ key \in [Call -> Key]
    /\ sawLegacy = [c \in Call |-> FALSE]
    /\ performed = {}
    /\ repudiated = {}
    /\ reconciled = {}

Goto(c, phase) == pc' = [pc EXCEPT ![c] = phase]

(* begin(), first half: the row is missing and the event log has a legacy completion. *)
Look(c) ==
    /\ pc[c] = "idle"
    /\ sawLegacy' = [sawLegacy EXCEPT ![c] = receipt[key[c]].state = "absent" /\ key[c] \in legacy]
    /\ Goto(c, "looked")
    /\ UNCHANGED <<receipt, legacy, key, performed, repudiated, reconciled>>

(* begin(), second half: the claim transaction. *)
Begin(c) ==
    LET k == key[c]  safe == k \in ReplaySafe IN
    /\ pc[c] = "looked"
    /\ receipt' = [receipt EXCEPT ![k] = AfterClaim(@, c, safe, sawLegacy[c])]
    /\ Goto(c, IF Executes(receipt[k], safe, sawLegacy[c]) THEN "execute" ELSE "done")
    /\ UNCHANGED <<legacy, key, sawLegacy, performed, repudiated, reconciled>>

(* The caller's external action: it returns, raises, or is interrupted part way. *)
Perform(c) ==
    /\ pc[c] = "execute"
    /\ performed' = performed \union {c}
    /\ \E outcome \in {"succeeded", "raised", "interrupted"} : Goto(c, outcome)
    /\ UNCHANGED <<receipt, legacy, key, sawLegacy, repudiated, reconciled>>

Complete(c) ==
    /\ pc[c] = "succeeded"
    /\ receipt' = [receipt EXCEPT ![key[c]] = AfterReport(@, c, "completed")]
    /\ Goto(c, "done")
    /\ UNCHANGED <<legacy, key, sawLegacy, performed, repudiated, reconciled>>

(* fail(): the caller asserts the effect did not take place, so a retry may run it. *)
Fail(c) ==
    /\ pc[c] = "raised"
    /\ receipt' = [receipt EXCEPT ![key[c]] = AfterReport(@, c, "failed")]
    /\ repudiated' = IF OwnedClaim(receipt[key[c]], c) THEN repudiated \union {c} ELSE repudiated
    /\ Goto(c, "done")
    /\ UNCHANGED <<legacy, key, sawLegacy, performed, reconciled>>

MarkIndeterminate(c) ==
    /\ pc[c] = "interrupted"
    /\ receipt' = [receipt EXCEPT ![key[c]] = AfterMark(@, c)]
    /\ Goto(c, "done")
    /\ UNCHANGED <<legacy, key, sawLegacy, performed, repudiated, reconciled>>

(* The engine dies under the call; the receipt keeps whatever state it had. *)
Crash(c) ==
    /\ pc[c] \notin {"idle", "done", "dead"}
    /\ Goto(c, "dead")
    /\ UNCHANGED <<receipt, legacy, key, sawLegacy, performed, repudiated, reconciled>>

(* lease_expires_at passes: by the wall clock, whether or not the owner still runs. *)
LeaseExpires(k) ==
    /\ receipt[k].lease = "live"
    /\ receipt' = [receipt EXCEPT ![k].lease = "expired"]
    /\ UNCHANGED <<legacy, pc, key, sawLegacy, performed, repudiated, reconciled>>

Reconcile(k) ==
    /\ receipt[k].state = "indeterminate"
    /\ \E outcome \in {"completed", "failed"} :
          receipt' = [receipt EXCEPT ![k] = AfterReconcile(@, outcome)]
    /\ reconciled' = reconciled \union {k}
    /\ UNCHANGED <<legacy, pc, key, sawLegacy, performed, repudiated>>

CallStep(c) == \/ Look(c) \/ Begin(c) \/ Perform(c) \/ Complete(c) \/ Fail(c)
               \/ MarkIndeterminate(c) \/ Crash(c)

Next ==
    \/ \E c \in Call : CallStep(c)
    \/ \E k \in Key : LeaseExpires(k) \/ Reconcile(k)

Spec == Init /\ [][Next]_vars

-----------------------------------------------------------------------------
(* A call that the ledger let through and that has not reported yet. *)
InFlight(c) == pc[c] \in {"execute", "succeeded", "raised", "interrupted"}

(* Keys the ledger alone decides about: not replay-safe, never settled by hand. *)
Guarded == Key \ (ReplaySafe \union reconciled)

(***************************************************************************)
(* Two calls are never past begin() for one guarded key at the same time,  *)
(* even when the first outlives its lease: the lapse turns the receipt     *)
(* indeterminate instead of handing it to the second.                      *)
(***************************************************************************)
ExclusiveExecution ==
    \A c, d \in Call : (InFlight(c) /\ InFlight(d) /\ key[c] = key[d] /\ key[c] \in Guarded) => c = d

(***************************************************************************)
(* The external action of a guarded key runs a second time only if the     *)
(* ledger recorded the earlier run as failed.  A crash after the action    *)
(* and before its report leaves a claim nobody may take over.              *)
(***************************************************************************)
NoUnconfirmedRepeat ==
    \A c, d \in performed :
        (c # d /\ key[c] = key[d] /\ key[c] \in Guarded) => (c \in repudiated \/ d \in repudiated)

(***************************************************************************)
(* A completed receipt rests on evidence: the owner's action succeeded,    *)
(* the event log held a legacy completion, or an operator settled it.      *)
(***************************************************************************)
CompletionHasEvidence ==
    \A k \in Key : receipt[k].state = "completed" =>
        \/ receipt[k].owner \in performed \ repudiated
        \/ receipt[k].owner = NoOwner /\ (k \in legacy \/ k \in reconciled)
=============================================================================
