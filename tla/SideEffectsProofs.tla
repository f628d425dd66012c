------------------------- MODULE SideEffectsProofs -------------------------
(***************************************************************************)
(* Proofs about SideEffects, for every set of calls and keys.  The         *)
(* inductive invariant follows a call from its claim for as long as the    *)
(* outcome of its action may still be unknown to the ledger.               *)
(***************************************************************************)
EXTENDS SideEffects, TLAPS

USE NoOwnerAssumption, ReplaySafeAssumption

(* The ledger let the call through, and nothing on record says its action failed. *)
Engaged(c) == InFlight(c) \/ c \in performed \ repudiated

(* While a call is engaged with a guarded key no other call can be let through. *)
EngagedBlocksClaims ==
    \A c \in Call : (Engaged(c) /\ key[c] \in Guarded) =>
        \/ OwnedClaim(receipt[key[c]], c)
        \/ receipt[key[c]].state \in {"indeterminate", "completed"}

OneEngaged ==
    \A c, d \in Call : (Engaged(c) /\ Engaged(d) /\ key[c] = key[d] /\ key[c] \in Guarded) => c = d

IInv == TypeOK /\ EngagedBlocksClaims /\ OneEngaged

-----------------------------------------------------------------------------
(* Every ledger statement maps a row of the table to a row of the table. *)
LEMMA LedgerTyped ==
    ASSUME NEW r \in Receipt, NEW o \in Owner, NEW s \in BOOLEAN, NEW l \in BOOLEAN,
           NEW outcome \in {"completed", "failed"}
    PROVE  /\ AfterClaim(r, o, s, l) \in Receipt
           /\ AfterReport(r, o, outcome) \in Receipt
           /\ AfterMark(r, o) \in Receipt
           /\ AfterReconcile(r, outcome) \in Receipt
  BY DEF AfterClaim, AfterReport, AfterMark, AfterReconcile, Receipt, ReceiptStates, Leases,
         Held, Settled

(* An empty ledger and idle calls have their types. *)
LEMMA InitTyped == Init => TypeOK
  BY DEF Init, TypeOK, Absent, Receipt, ReceiptStates, Leases, Phases

(* Each step of begin(), complete(), fail(), mark and reconcile keeps the types. *)
LEMMA StepTyped == TypeOK /\ [Next]_vars => TypeOK'
<1>2. TypeOK /\ [Next]_vars => TypeOK'
  <2> SUFFICES ASSUME TypeOK, [Next]_vars PROVE TypeOK'
    OBVIOUS
  <2> USE DEF TypeOK, Goto, Phases
  <2>1. ASSUME NEW c \in Call, Look(c) PROVE TypeOK'
    BY <2>1 DEF Look
  <2>2. ASSUME NEW c \in Call, Begin(c) PROVE TypeOK'
    <3>1. receipt' \in [Key -> Receipt]
      <4>1. (key[c] \in ReplaySafe) \in BOOLEAN /\ sawLegacy[c] \in BOOLEAN /\ c \in Owner
        BY DEF Call
      <4>2. AfterClaim(receipt[key[c]], c, key[c] \in ReplaySafe, sawLegacy[c]) \in Receipt
        BY <4>1, LedgerTyped
      <4>. QED
        BY <2>2, <4>2 DEF Begin
    <3>. QED
      BY <2>2, <3>1 DEF Begin
  <2>3. ASSUME NEW c \in Call, Perform(c) PROVE TypeOK'
    BY <2>3 DEF Perform
  <2>4. ASSUME NEW c \in Call, Complete(c) PROVE TypeOK'
    <3>1. AfterReport(receipt[key[c]], c, "completed") \in Receipt
      BY LedgerTyped DEF Call
    <3>. QED
      BY <2>4, <3>1 DEF Complete
  <2>5. ASSUME NEW c \in Call, Fail(c) PROVE TypeOK'
    <3>1. AfterReport(receipt[key[c]], c, "failed") \in Receipt
      BY LedgerTyped DEF Call
    <3>. QED
      BY <2>5, <3>1 DEF Fail
  <2>6. ASSUME NEW c \in Call, MarkIndeterminate(c) PROVE TypeOK'
    <3>1. AfterMark(receipt[key[c]], c) \in Receipt
      BY LedgerTyped DEF Call
    <3>. QED
      BY <2>6, <3>1 DEF MarkIndeterminate
  <2>7. ASSUME NEW c \in Call, Crash(c) PROVE TypeOK'
    BY <2>7 DEF Crash
  <2>8. ASSUME NEW k \in Key, LeaseExpires(k) PROVE TypeOK'
    BY <2>8 DEF LeaseExpires, Receipt, Leases
  <2>9. ASSUME NEW k \in Key, Reconcile(k) PROVE TypeOK'
    <3>1. PICK outcome \in {"completed", "failed"} :
            receipt' = [receipt EXCEPT ![k] = AfterReconcile(@, outcome)]
      BY <2>9 DEF Reconcile
    <3>2. AfterReconcile(receipt[k], outcome) \in Receipt
      BY DEF AfterReconcile, Settled, Receipt, ReceiptStates, Leases
    <3>. QED
      BY <2>9, <3>1, <3>2 DEF Reconcile
  <2>10. CASE UNCHANGED vars
    BY <2>10 DEF vars
  <2>. QED
    BY <2>1, <2>2, <2>3, <2>4, <2>5, <2>6, <2>7, <2>8, <2>9, <2>10 DEF Next, CallStep
<1>. QED
  BY <1>2

(* TypeOK: the rows stay rows of the table through every step of the service. *)
THEOREM TypeCorrect == Spec => []TypeOK
  BY InitTyped, StepTyped, PTL DEF Spec

-----------------------------------------------------------------------------
(* A claim that another call wants leaves the claimant alone or turns unknown. *)
LEMMA ClaimKeepsHolder ==
    ASSUME NEW r \in Receipt, NEW c \in Owner, NEW d \in Owner, NEW l \in BOOLEAN,
           NEW safe \in BOOLEAN, ~safe,
           OwnedClaim(r, c) \/ r.state \in {"indeterminate", "completed"}
    PROVE  /\ ~Executes(r, safe, l)
           /\ \/ OwnedClaim(AfterClaim(r, d, safe, l), c)
              \/ AfterClaim(r, d, safe, l).state \in {"indeterminate", "completed"}
<1>1. ~Executes(r, safe, l)
  BY DEF Executes, OwnedClaim
<1>. QED
  BY <1>1 DEF AfterClaim, OwnedClaim, Settled, Receipt

(* Every step of a call or of the ledger keeps IInv. *)
LEMMA Inductive == IInv /\ [Next]_vars => IInv'
<1> SUFFICES ASSUME IInv, [Next]_vars PROVE IInv'
  OBVIOUS
<1>. TypeOK'
  <2>. TypeOK /\ [Next]_vars => TypeOK'
    BY StepTyped
  <2>. QED
    BY DEF IInv
<1>. SUFFICES EngagedBlocksClaims' /\ OneEngaged'
  BY DEF IInv
<1> USE DEF IInv, TypeOK, EngagedBlocksClaims, OneEngaged, Engaged, InFlight, Guarded, Call, Goto, Phases
<1>1. ASSUME NEW c \in Call, Look(c) PROVE EngagedBlocksClaims' /\ OneEngaged'
  BY <1>1 DEF Look
<1>2. ASSUME NEW d \in Call, Begin(d) PROVE EngagedBlocksClaims' /\ OneEngaged'
  <2> DEFINE k == key[d]
             r == receipt[k]
             safe == k \in ReplaySafe
  <2>1. /\ pc[d] = "looked" /\ k \in Key /\ r \in Receipt /\ sawLegacy[d] \in BOOLEAN
        /\ receipt' = [receipt EXCEPT ![k] = AfterClaim(r, d, safe, sawLegacy[d])]
        /\ pc' = [pc EXCEPT ![d] = IF Executes(r, safe, sawLegacy[d]) THEN "execute" ELSE "done"]
        /\ UNCHANGED <<key, performed, repudiated, reconciled>>
    BY <1>2 DEF Begin
  <2>2. ASSUME NEW c \in Call, Engaged(c), key[c] = k, k \in Guarded
        PROVE  /\ ~Executes(r, safe, sawLegacy[d])
               /\ \/ OwnedClaim(receipt'[k], c)
                  \/ receipt'[k].state \in {"indeterminate", "completed"}
    <3>1. ~safe /\ safe \in BOOLEAN /\ c \in Owner /\ d \in Owner
      BY <2>2
    <3>2. OwnedClaim(r, c) \/ r.state \in {"indeterminate", "completed"}
      BY <2>2
    <3>3. receipt'[k] = AfterClaim(r, d, safe, sawLegacy[d])
      BY <2>1
    <3>4. r \in Receipt /\ sawLegacy[d] \in BOOLEAN
      BY <2>1
    <3> HIDE DEF r, safe, Call, OneEngaged, EngagedBlocksClaims, TypeOK, IInv
    <3>5. ~Executes(r, safe, sawLegacy[d])
      BY <3>1, <3>2, <3>4, ClaimKeepsHolder
    <3>6. \/ OwnedClaim(AfterClaim(r, d, safe, sawLegacy[d]), c)
          \/ AfterClaim(r, d, safe, sawLegacy[d]).state \in {"indeterminate", "completed"}
      BY <3>1, <3>2, <3>4, ClaimKeepsHolder, Zenon
    <3>. QED
      BY <3>3, <3>5, <3>6
  <2>3. Executes(r, safe, sawLegacy[d]) => OwnedClaim(receipt'[k], d)
    BY <2>1 DEF AfterClaim, Held, OwnedClaim
  <2>4. ASSUME NEW c \in Call, Engaged(c)' PROVE Engaged(c) \/ (c = d /\ Executes(r, safe, sawLegacy[d]))
    BY <2>1, <2>4
  <2>5. EngagedBlocksClaims'
    <3> SUFFICES ASSUME NEW c \in Call, Engaged(c)', (key[c] \in Guarded)'
                 PROVE  \/ OwnedClaim(receipt'[key[c]], c)
                        \/ receipt'[key[c]].state \in {"indeterminate", "completed"}
      BY <2>1
    <3>1. key[c] \in Guarded /\ key[c] \in Key
      BY <2>1
    <3>2. CASE ~Engaged(c)
      BY <2>3, <2>4, <3>2
    <3>3. CASE Engaged(c) /\ key[c] = k
      BY <2>2, <3>1, <3>3
    <3>4. CASE Engaged(c) /\ key[c] # k
      <4>1. receipt'[key[c]] = receipt[key[c]]
        BY <2>1, <3>1, <3>4
      <4>. QED
        BY <3>1, <3>4, <4>1
    <3>. QED
      BY <3>2, <3>3, <3>4
  <2>6. OneEngaged'
    <3> SUFFICES ASSUME NEW c \in Call, NEW e \in Call, Engaged(c)', Engaged(e)',
                        key[c] = key[e], key[c] \in Guarded
                 PROVE  c = e
      BY <2>1
    <3>1. CASE Engaged(c) /\ Engaged(e)
      BY <3>1
    <3>2. CASE ~Engaged(c)
      BY <2>2, <2>4, <3>2
    <3>3. CASE ~Engaged(e)
      BY <2>2, <2>4, <3>3
    <3>. QED
      BY <3>1, <3>2, <3>3
  <2>. QED
    BY <2>5, <2>6
<1>3. ASSUME NEW c \in Call, Perform(c) PROVE EngagedBlocksClaims' /\ OneEngaged'
  <2>1. /\ InFlight(c) /\ UNCHANGED <<receipt, key, repudiated, reconciled>>
        /\ performed' = performed \union {c}
        /\ \E outcome \in {"succeeded", "raised", "interrupted"} : pc' = [pc EXCEPT ![c] = outcome]
    BY <1>3 DEF Perform
  <2>2. ASSUME NEW d \in Call, Engaged(d)' PROVE Engaged(d)
    BY <2>1, <2>2
  <2>. QED
    BY <2>1, <2>2
<1>4. ASSUME NEW c \in Call, Complete(c) \/ Fail(c) \/ MarkIndeterminate(c)
      PROVE EngagedBlocksClaims' /\ OneEngaged'
  <2> DEFINE k == key[c]
  <2>1. /\ InFlight(c) /\ k \in Key
        /\ pc' = [pc EXCEPT ![c] = "done"]
        /\ UNCHANGED <<key, performed, reconciled>>
        /\ \A j \in Key : j # k => receipt'[j] = receipt[j]
        /\ repudiated \subseteq repudiated'
    BY <1>4 DEF Complete, Fail, MarkIndeterminate
  <2>2. ASSUME NEW d \in Call, Engaged(d)' PROVE Engaged(d)
    BY <2>1, <2>2
  <2>3. ASSUME ~OwnedClaim(receipt[k], c) PROVE receipt'[k] = receipt[k]
    BY <1>4, <2>1, <2>3 DEF Complete, Fail, MarkIndeterminate, AfterReport, AfterMark
  <2>4. ASSUME OwnedClaim(receipt[k], c), Engaged(c)'
        PROVE  receipt'[k].state \in {"indeterminate", "completed"}
    <3>1. ~Fail(c)
      BY <2>1, <2>4 DEF Fail
    <3>. QED
      BY <1>4, <2>1, <2>4, <3>1 DEF Complete, MarkIndeterminate, AfterReport, AfterMark, Settled
  <2>5. EngagedBlocksClaims'
    <3> SUFFICES ASSUME NEW d \in Call, Engaged(d)', key[d] \in Guarded
                 PROVE  \/ OwnedClaim(receipt'[key[d]], d)
                        \/ receipt'[key[d]].state \in {"indeterminate", "completed"}
      BY <2>1
    <3>1. CASE key[d] # k
      BY <2>1, <2>2, <3>1
    <3>2. CASE key[d] = k
      <4>1. d = c
        BY <2>1, <2>2, <3>2
      <4>. QED
        BY <2>2, <2>3, <2>4, <4>1
    <3>. QED
      BY <3>1, <3>2
  <2>6. OneEngaged'
    BY <2>1, <2>2
  <2>. QED
    BY <2>5, <2>6
<1>5. ASSUME NEW c \in Call, Crash(c) PROVE EngagedBlocksClaims' /\ OneEngaged'
  BY <1>5 DEF Crash
<1>6. ASSUME NEW k \in Key, LeaseExpires(k) PROVE EngagedBlocksClaims' /\ OneEngaged'
  <2>1. ASSUME NEW j \in Key
        PROVE  receipt'[j].state = receipt[j].state /\ receipt'[j].owner = receipt[j].owner
    BY <1>6 DEF LeaseExpires, Receipt
  <2>. QED
    BY <1>6, <2>1 DEF LeaseExpires, OwnedClaim
<1>7. ASSUME NEW k \in Key, Reconcile(k) PROVE EngagedBlocksClaims' /\ OneEngaged'
  <2>1. \A j \in Key : j # k => receipt'[j] = receipt[j]
    BY <1>7 DEF Reconcile
  <2>. QED
    BY <1>7, <2>1 DEF Reconcile
<1>8. CASE UNCHANGED vars
  BY <1>8 DEF vars
<1>. QED
  BY <1>1, <1>2, <1>3, <1>4, <1>5, <1>6, <1>7, <1>8 DEF Next, CallStep

(* IInv holds in every reachable state. *)
LEMMA InvariantHolds == Spec => []IInv
<1>1. Init => IInv
  BY InitTyped DEF Init, IInv, EngagedBlocksClaims, OneEngaged, Engaged, InFlight
<1>. QED
  BY <1>1, Inductive, PTL DEF Spec

(***************************************************************************)
(* ExclusiveExecution: begin() never has two calls past it for one guarded *)
(* key, whatever the lease of the first does while it runs.                *)
(***************************************************************************)
THEOREM Exclusive == Spec => []ExclusiveExecution
<1>1. IInv => ExclusiveExecution
  BY DEF IInv, OneEngaged, Engaged, ExclusiveExecution
<1>. QED
  BY <1>1, InvariantHolds, PTL

(***************************************************************************)
(* NoUnconfirmedRepeat: a guarded action runs again only after fail() put  *)
(* the earlier run on record as failed; crashes and lapses never do that.  *)
(***************************************************************************)
THEOREM NoRepeat == Spec => []NoUnconfirmedRepeat
<1>1. IInv => NoUnconfirmedRepeat
  BY DEF IInv, TypeOK, OneEngaged, Engaged, NoUnconfirmedRepeat
<1>. QED
  BY <1>1, InvariantHolds, PTL

-----------------------------------------------------------------------------
(***************************************************************************)
(* What backs a completed row.  The owner a row names after complete() has *)
(* returned from its action and can no longer report anything else, and a  *)
(* row without an owner comes from the event log or from an operator.      *)
(***************************************************************************)
LegacyWasThere == \A c \in Call : sawLegacy[c] => key[c] \in legacy

SuccessWasPerformed == \A c \in Call : pc[c] = "succeeded" => c \in performed

RepudiatorsReturned == \A c \in repudiated : pc[c] = "done"

Backed(k) ==
    \/ receipt[k].owner \in performed \ repudiated /\ pc[receipt[k].owner] = "done"
    \/ receipt[k].owner = NoOwner /\ (k \in legacy \/ k \in reconciled)

CompletedBacked == \A k \in Key : receipt[k].state = "completed" => Backed(k)

EvidenceInv == TypeOK /\ LegacyWasThere /\ SuccessWasPerformed /\ RepudiatorsReturned /\ CompletedBacked

(* A claim completes a row only by the legacy evidence the call read before it. *)
LEMMA ClaimCompletes ==
    ASSUME NEW r \in Receipt, NEW o \in Owner, NEW s \in BOOLEAN, NEW l \in BOOLEAN,
           AfterClaim(r, o, s, l).state = "completed"
    PROVE  AfterClaim(r, o, s, l) = r \/ (l /\ AfterClaim(r, o, s, l).owner = NoOwner)
  BY DEF AfterClaim, Executes, Held, Settled, Receipt

(* Every step of a call or of the ledger keeps EvidenceInv. *)
LEMMA EvidenceInductive == EvidenceInv /\ [Next]_vars => EvidenceInv'
<1> SUFFICES ASSUME EvidenceInv, [Next]_vars PROVE EvidenceInv'
  OBVIOUS
<1>. TypeOK'
  BY StepTyped DEF EvidenceInv
<1>. SUFFICES LegacyWasThere' /\ SuccessWasPerformed' /\ RepudiatorsReturned' /\ CompletedBacked'
  BY DEF EvidenceInv
<1> DEFINE Kept == LegacyWasThere' /\ SuccessWasPerformed' /\ RepudiatorsReturned' /\ CompletedBacked'
<1> USE DEF EvidenceInv, TypeOK, LegacyWasThere, SuccessWasPerformed, RepudiatorsReturned,
            CompletedBacked, Backed, Call, Goto, Phases
<1>1. ASSUME NEW c \in Call, Look(c) PROVE Kept
  BY <1>1 DEF Look
<1>2. ASSUME NEW c \in Call, Begin(c) PROVE Kept
  <2>1. /\ pc[c] = "looked" /\ key[c] \in Key
        /\ UNCHANGED <<legacy, key, sawLegacy, performed, repudiated, reconciled>>
        /\ \A k \in Key : k # key[c] => receipt'[k] = receipt[k]
        /\ \A d \in Call : d # c => pc'[d] = pc[d]
        /\ pc'[c] \in {"execute", "done"}
    BY <1>2 DEF Begin
  <2>2. receipt'[key[c]].state = "completed" =>
          \/ receipt'[key[c]] = receipt[key[c]]
          \/ sawLegacy[c] /\ receipt'[key[c]].owner = NoOwner
    <3>1. (key[c] \in ReplaySafe) \in BOOLEAN /\ sawLegacy[c] \in BOOLEAN /\ receipt[key[c]] \in Receipt
      BY <2>1
    <3>2. receipt'[key[c]] = AfterClaim(receipt[key[c]], c, key[c] \in ReplaySafe, sawLegacy[c])
      BY <1>2, <2>1 DEF Begin
    <3>3. c \in Owner
      OBVIOUS
    <3> DEFINE claimed == AfterClaim(receipt[key[c]], c, key[c] \in ReplaySafe, sawLegacy[c])
    <3> HIDE DEF EvidenceInv, TypeOK, LegacyWasThere, SuccessWasPerformed, RepudiatorsReturned,
                 CompletedBacked, Backed, Call
    <3>4. claimed.state = "completed" => claimed = receipt[key[c]] \/ (sawLegacy[c] /\ claimed.owner = NoOwner)
      BY <3>1, <3>3, ClaimCompletes, Zenon
    <3> HIDE DEF claimed
    <3>5. receipt'[key[c]] = claimed
      BY <3>2 DEF claimed
    <3>. QED
      BY <3>4, <3>5
  <2>3. CompletedBacked'
    BY <2>1, <2>2
  <2>. QED
    BY <2>1, <2>3
<1>3. ASSUME NEW c \in Call, Perform(c) PROVE Kept
  <2>1. CompletedBacked'
    BY <1>3 DEF Perform
  <2>. QED
    BY <1>3, <2>1 DEF Perform
<1>4. ASSUME NEW c \in Call, Complete(c) PROVE Kept
  <2>1. /\ pc[c] = "succeeded" /\ key[c] \in Key /\ c \in performed \ repudiated
        /\ UNCHANGED <<legacy, key, sawLegacy, performed, repudiated, reconciled>>
        /\ \A k \in Key : k # key[c] => receipt'[k] = receipt[k]
        /\ receipt'[key[c]] = AfterReport(receipt[key[c]], c, "completed")
        /\ pc' = [pc EXCEPT ![c] = "done"]
    BY <1>4 DEF Complete
  <2>2. receipt'[key[c]] = receipt[key[c]] \/ receipt'[key[c]].owner = c
    BY <2>1 DEF AfterReport, Settled
  <2>3. CompletedBacked'
    BY <2>1, <2>2
  <2>. QED
    BY <2>1, <2>3
<1>5. ASSUME NEW c \in Call, Fail(c) PROVE Kept
  <2>1. /\ pc[c] = "raised" /\ key[c] \in Key
        /\ UNCHANGED <<legacy, key, sawLegacy, performed, reconciled>>
        /\ \A k \in Key : k # key[c] => receipt'[k] = receipt[k]
        /\ receipt'[key[c]] = AfterReport(receipt[key[c]], c, "failed")
        /\ repudiated \subseteq repudiated' /\ repudiated' \subseteq repudiated \union {c}
        /\ pc' = [pc EXCEPT ![c] = "done"]
    BY <1>5 DEF Fail
  <2>2. receipt'[key[c]] = receipt[key[c]] \/ receipt'[key[c]].state = "failed"
    BY <2>1 DEF AfterReport, Settled
  <2>3. CompletedBacked'
    BY <2>1, <2>2
  <2>. QED
    BY <2>1, <2>3
<1>6. ASSUME NEW c \in Call, MarkIndeterminate(c) PROVE Kept
  <2>1. /\ pc[c] = "interrupted" /\ key[c] \in Key
        /\ UNCHANGED <<legacy, key, sawLegacy, performed, repudiated, reconciled>>
        /\ \A k \in Key : k # key[c] => receipt'[k] = receipt[k]
        /\ receipt'[key[c]] = AfterMark(receipt[key[c]], c)
        /\ pc' = [pc EXCEPT ![c] = "done"]
    BY <1>6 DEF MarkIndeterminate
  <2>2. receipt'[key[c]] = receipt[key[c]] \/ receipt'[key[c]].state = "indeterminate"
    BY <2>1 DEF AfterMark, Settled
  <2>3. CompletedBacked'
    BY <2>1, <2>2
  <2>. QED
    BY <2>1, <2>3
<1>7. ASSUME NEW c \in Call, Crash(c) PROVE Kept
  BY <1>7 DEF Crash
<1>8. ASSUME NEW k \in Key, LeaseExpires(k) PROVE Kept
  <2>1. ASSUME NEW j \in Key
        PROVE  receipt'[j].state = receipt[j].state /\ receipt'[j].owner = receipt[j].owner
    BY <1>8 DEF LeaseExpires, Receipt
  <2>. QED
    BY <1>8, <2>1 DEF LeaseExpires
<1>9. ASSUME NEW k \in Key, Reconcile(k) PROVE Kept
  <2>1. /\ UNCHANGED <<legacy, pc, key, sawLegacy, performed, repudiated>>
        /\ reconciled' = reconciled \union {k}
        /\ \A j \in Key : j # k => receipt'[j] = receipt[j]
        /\ receipt'[k].owner = NoOwner
    BY <1>9 DEF Reconcile, AfterReconcile, Settled
  <2>. QED
    BY <2>1
<1>10. CASE UNCHANGED vars
  BY <1>10 DEF vars
<1>. QED
  BY <1>1, <1>2, <1>3, <1>4, <1>5, <1>6, <1>7, <1>8, <1>9, <1>10 DEF Next, CallStep

(***************************************************************************)
(* CompletionHasEvidence: a row reads "completed" only where its owner's   *)
(* action returned, the event log held a completion from before receipts   *)
(* existed, or an operator settled it; a crash, a lapse or the late report *)
(* of another owner never produces one.                                    *)
(***************************************************************************)
THEOREM CompletionProven == Spec => []CompletionHasEvidence
<1>1. Init => EvidenceInv
  BY InitTyped DEF Init, EvidenceInv, LegacyWasThere, SuccessWasPerformed, RepudiatorsReturned,
     CompletedBacked, Absent
<1>2. EvidenceInv => CompletionHasEvidence
  BY DEF EvidenceInv, CompletedBacked, Backed, CompletionHasEvidence
<1>. QED
  BY <1>1, <1>2, EvidenceInductive, PTL DEF Spec
=============================================================================
