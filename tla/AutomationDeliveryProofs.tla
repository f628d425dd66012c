---------------------- MODULE AutomationDeliveryProofs ----------------------
(***************************************************************************)
(* Proofs about AutomationDelivery, for every number of attempts and of    *)
(* invocations: its types; that a delivery which ends completed, failed or *)
(* resolved has its evidence; that the action begins once where nobody     *)
(* re-enters an attempt; and that a cancelled attempt does not begin.      *)
(***************************************************************************)
EXTENDS AutomationDelivery, TLAPS

USE NoOwnerAssumption, MaxAttemptAssumption, ConfigAssumption

(* What an invocation's locals hold at each step, as far as later steps rely on it. *)
Walking == Steps \ {"review", "confirm", "controlled", "settle", "mark", "finish", "gone"}

Reliable(i) ==
    /\ i.pc \in Walking => i.result = "success"
    /\ i.pc = "controlled" => i.result \in {"cancelled", "other", "held"}
    /\ i.pc = "settle" => i.result \in {"success", "cancelled", "failed"}
    /\ i.pc = "link" => i.effect # "none"

Locals == \A w \in Worker : Reliable(worker[w])

Typed == TypeOK /\ Locals

(* A row that left "pending" other than by a cancel belongs to an attempt; so do invocations. *)
Attempted ==
    /\ row.phase \notin {"pending", "cancelled"} => row.attempt \in Attempt
    /\ \A w \in Worker : worker[w].pc # "idle" => Mine(w) \in Attempt

Evidence == Typed /\ Attempted /\ CompletedHasEvidence

(***************************************************************************)
(* AtMostOnce is not inductive: it needs to know who may still begin.  An  *)
(* invocation that is on its way to executing(), one that began, and an    *)
(* approval still to be given exclude each other within an attempt, and    *)
(* once one began, the row never gets back to where executing() starts.    *)
(***************************************************************************)
Entering == {"begin", "lane", "guard", "control", "start", "claim", "link", "check", "execute"}

Early == {"pending", "claimed", "admitted"}

Token(w) == worker[w].pc \in Entering \/ w \in started

OneToken == \A v, w \in Worker : Token(v) /\ Token(w) /\ Mine(v) = Mine(w) => v = w

ApprovalExcludes == \A a \in Attempt, w \in Worker : run[a].approval /\ Token(w) => Mine(w) # a

Numbered ==
    /\ row.owner \in {0, row.attempt}
    /\ \A w \in Worker : Mine(w) <= row.attempt
    /\ \A a \in Attempt : run[a].status # "none" \/ run[a].approval => a <= row.attempt

BeganForGood == \A w \in started :
    /\ Mine(w) = row.attempt /\ row.phase \notin Early
    /\ worker[w].pc \notin Entering \union {"idle"}

Once == OneToken /\ ApprovalExcludes /\ Numbered /\ BeganForGood
-----------------------------------------------------------------------------
Phases == LivePhases \union FinalPhases \union {"pending", "unknown"}

Statuses == TerminalRuns \union HeldRuns \union OpenRuns \union {"none", "waiting_external_tool"}

(* The names that the code writes into the two tables. *)
LEMMA Names ==
    /\ Phases = {"pending", "claimed", "admitted", "executing", "blocked", "completed", "failed",
                 "cancelled", "unknown"}
    /\ Statuses = {"none", "queued", "running", "waiting_approval", "waiting_input", "paused",
                   "waiting_external_tool", "completed", "failed", "cancelled", "interrupted"}
  BY DEF Phases, LivePhases, LeasedPhases, FinalPhases, Statuses, TerminalRuns, HeldRuns, OpenRuns

(* The fields of a delivery row and of a run record, with the names kept folded. *)
LEMMA Fields ==
    /\ Delivery = [phase : Phases, owner : 0..MaxAttempt, lease : Leases, attempt : 0..MaxAttempt,
                   linked : BOOLEAN, reconciled : BOOLEAN]
    /\ Run = [status : Statuses, signal : Signals, approval : BOOLEAN, marked : BOOLEAN]
    /\ Attempt = 1..MaxAttempt /\ MaxAttempt \in Nat /\ MaxAttempt > 0
  BY DEF Delivery, Run, Phases, Statuses, Attempt

(* The statements on the delivery row keep it a row of its table. *)
LEMMA RowTyped ==
    ASSUME NEW r \in Delivery, NEW to \in Phases, NEW link \in BOOLEAN, NEW c
    PROVE  /\ Moved(r, to, link) \in Delivery
           /\ Released(r, to) \in Delivery
           /\ Revoked(r) \in Delivery
           /\ Parked(r, c) \in Delivery
           /\ r.attempt < MaxAttempt => Claimed(r) \in Delivery
<1>0. /\ "claimed" \in Phases /\ "cancelled" \in Phases /\ "completed" \in Phases
      /\ "failed" \in Phases /\ "unknown" \in Phases
      /\ 0 \in 0..MaxAttempt
  BY Fields, Names
<1> USE <1>0, Fields DEF Leases
<1>1. Moved(r, to, link) \in Delivery
  BY DEF Moved, LeaseFor
<1>2. Released(r, to) \in Delivery
  BY DEF Released
<1>3. Revoked(r) \in Delivery
  BY DEF Revoked
<1>4. Parked(r, c) \in Delivery
  BY DEF Parked
<1>5. r.attempt < MaxAttempt => Claimed(r) \in Delivery
  <2> SUFFICES ASSUME r.attempt < MaxAttempt PROVE Claimed(r) \in Delivery
    OBVIOUS
  <2>1. r.attempt + 1 \in 0..MaxAttempt
    OBVIOUS
  <2>. QED
    BY <2>1 DEF Claimed
<1>. QED
  BY <1>1, <1>2, <1>3, <1>4, <1>5

(* The receipt ledger's statements keep the receipt a receipt. *)
LEMMA ReceiptTyped ==
    ASSUME NEW c \in Receipt, NEW o \in Owner, NEW outcome \in {"completed", "failed"}
    PROVE  AfterClaim(c, o, FALSE, FALSE) \in Receipt /\ AfterReport(c, o, outcome) \in Receipt
  BY DEF AfterClaim, AfterReport, Receipt, ReceiptStates, Leases, Held, Settled

(* So do the two reconciliations, the operator's and the tick's. *)
LEMMA ReconciledTyped ==
    ASSUME NEW c \in Receipt, NEW outcome \in {"completed", "failed"}, NEW r, NEW target
    PROVE  AfterReconcile(c, outcome) \in Receipt /\ ReceiptAfterReconcile(r, c, target) \in Receipt
  BY DEF AfterReconcile, ReceiptAfterReconcile, Receipt, ReceiptStates, Leases, Settled

(* Writing a status of the run keeps the run record typed. *)
LEMMA RunTyped ==
    ASSUME NEW r \in Run, NEW status \in Statuses
    PROVE  SetStatus(r, status) \in Run /\ Waiting(r) \in Run
  BY Fields, Names DEF SetStatus, Waiting

(* A run command writes a status and a signal. *)
LEMMA CommandTyped ==
    ASSUME NEW r \in Run, NEW status \in Statuses, NEW signal \in Signals
    PROVE  [SetStatus(r, status) EXCEPT !.signal = signal] \in Run
  BY RunTyped, Fields

(* finished() and the tick pick a phase of the table. *)
LEMMA TargetsTyped ==
    ASSUME NEW r, NEW u, NEW c, NEW result, NEW retryable
    PROVE  FinishTarget(r, u, c, result, retryable) \in Phases /\ ReconcileTarget(r, u, c) \in Phases
  BY Names DEF FinishTarget, ReconcileTarget, Resolved

(* The steps at which an invocation has not yet put its result down. *)
LEMMA StepNames ==
    /\ Walking = {"idle", "begin", "foreign", "stale", "lane", "guard", "control", "start", "claim",
                  "link", "check", "revoke", "execute", "perform", "complete", "after", "except"}
    /\ Steps = Walking \union {"review", "confirm", "controlled", "settle", "mark", "finish", "gone"}
  BY DEF Walking, Steps

(* Typed is about each invocation on its own. *)
LEMMA Replaced ==
    ASSUME Typed, NEW w \in Worker, NEW j \in Invocation, Reliable(j),
           worker' = [worker EXCEPT ![w] = j]
    PROVE  worker' \in [Worker -> Invocation] /\ Locals'
  BY DEF Typed, TypeOK, Locals

(* Going on from a walking step to another, or to a step that relies on nothing. *)
LEMMA GotoTyped ==
    ASSUME Typed, NEW w \in Worker, NEW step, Goto(w, step),
           \/ worker[w].pc \in Walking /\ step \in (Walking \ {"link"}) \union {"settle"}
           \/ step \in {"review", "confirm", "mark", "finish", "gone"}
    PROVE  worker' \in [Worker -> Invocation] /\ Locals'
<1>1. worker[w] \in Invocation /\ Reliable(worker[w])
  BY DEF Typed, TypeOK, Locals
<1>2. step \in Steps
  BY StepNames
<1>3. PICK j : j = [worker[w] EXCEPT !.pc = step]
  OBVIOUS
<1>4. worker' = [worker EXCEPT ![w] = j]
  BY <1>3 DEF Goto, Typed, TypeOK
<1>5. j \in Invocation /\ j.pc = step /\ j.result = worker[w].result
  BY <1>1, <1>2, <1>3 DEF Invocation
<1>6. Reliable(j)
  <2>1. worker[w].pc \in Walking => worker[w].result = "success"
    BY <1>1 DEF Reliable
  <2>. QED
    BY <1>5, <2>1, StepNames DEF Reliable
<1>. QED
  BY <1>4, <1>5, <1>6, Replaced

(* Putting down a result that the step accepts. *)
LEMMA EndTyped ==
    ASSUME Typed, NEW w \in Worker, NEW step, NEW result \in Results, End(w, result, step),
           \/ step = "settle" /\ result \in {"success", "cancelled", "failed"}
           \/ step = "controlled" /\ result \in {"cancelled", "other", "held"}
           \/ step \in {"review", "confirm", "mark", "finish", "gone"}
    PROVE  worker' \in [Worker -> Invocation] /\ Locals'
<1>1. worker[w] \in Invocation
  BY DEF Typed, TypeOK
<1>2. step \in Steps
  BY StepNames
<1>3. PICK j : j = [worker[w] EXCEPT !.result = result, !.pc = step]
  OBVIOUS
<1>4. worker' = [worker EXCEPT ![w] = j]
  BY <1>3 DEF End, Typed, TypeOK
<1>5. j \in Invocation /\ j.pc = step /\ j.result = result
  BY <1>1, <1>2, <1>3 DEF Invocation
<1>6. Reliable(j)
  BY <1>5, StepNames DEF Reliable
<1>. QED
  BY <1>4, <1>5, <1>6, Replaced

(* Where an invocation ends there is nothing left to rely on. *)
LEMMA EndedTyped ==
    ASSUME Typed, NEW w \in Worker, worker' = Ended(w)
    PROVE  worker' \in [Worker -> Invocation] /\ Locals'
<1>1. PICK j : j = At("gone", worker[w].attempt)
  OBVIOUS
<1>2. worker[w].attempt \in 0..MaxAttempt
  BY DEF Typed, TypeOK, Invocation
<1>3. j \in Invocation /\ j.pc = "gone"
  BY <1>1, <1>2, StepNames DEF At, Invocation, Results
<1>4. Reliable(j)
  BY <1>3, StepNames DEF Reliable
<1>5. worker' = [worker EXCEPT ![w] = j]
  BY <1>1 DEF Ended
<1>. QED
  BY <1>3, <1>4, <1>5, Replaced

(* What settle_run leaves for finished() is one of its results. *)
LEMMA ConcludeTyped ==
    ASSUME Typed, NEW w \in Worker, NEW status, NEW result, Conclude(w, result, "finish"),
           result \in {ResultOf(status), "other", worker[w].result}
    PROVE  worker' \in [Worker -> Invocation] /\ Locals'
<1>1. worker[w] \in Invocation
  BY DEF Typed, TypeOK
<1>2. PICK known \in Results :
        worker' = [worker EXCEPT ![w].pc = "finish", ![w].result = known]
  BY <1>1 DEF Conclude, ResultOf, Results, Invocation
<1>3. PICK j : j = [worker[w] EXCEPT !.pc = "finish", !.result = known]
  OBVIOUS
<1>4. j \in Invocation /\ j.pc = "finish"
  BY <1>1, <1>3, StepNames DEF Invocation
<1>5. worker' = [worker EXCEPT ![w] = j]
  BY <1>2, <1>3 DEF Typed, TypeOK
<1>. QED
  BY <1>4, <1>5, StepNames, Replaced DEF Reliable

(* Each step of the executor keeps every invocation's locals. *)
LEMMA WorkersTyped ==
    ASSUME Typed, NEW w \in Worker, WorkerStep(w)
    PROVE  worker' \in [Worker -> Invocation] /\ Locals'
<1> DEFINE Goal == worker' \in [Worker -> Invocation] /\ Locals'
<1> USE StepNames
<1>. worker[w] \in Invocation /\ Reliable(worker[w])
  BY DEF Typed, TypeOK, Locals
<1>1. Begin(w) => Goal
  <2> SUFFICES ASSUME Begin(w) PROVE Goal
    OBVIOUS
  <2>1. CASE worker' = [worker EXCEPT ![w].pc = "except", ![w].retryable = FALSE]
    <3>1. PICK j : j = [worker[w] EXCEPT !.pc = "except", !.retryable = FALSE]
      OBVIOUS
    <3>2. j \in Invocation /\ j.pc = "except" /\ j.result = "success"
      BY <3>1 DEF Begin, Reliable, Invocation
    <3>3. worker' = [worker EXCEPT ![w] = j]
      BY <2>1, <3>1 DEF Typed, TypeOK
    <3>. QED
      BY <3>2, <3>3, Replaced DEF Reliable
  <2>2. CASE worker' = [worker EXCEPT ![w].pc = "lane", ![w].bound = IF row.linked THEN "linked" ELSE "plain"]
    <3>1. PICK j : j = [worker[w] EXCEPT !.pc = "lane", !.bound = IF row.linked THEN "linked" ELSE "plain"]
      OBVIOUS
    <3>2. j \in Invocation /\ j.pc = "lane" /\ j.result = "success"
      BY <3>1 DEF Begin, Reliable, Invocation
    <3>3. worker' = [worker EXCEPT ![w] = j]
      BY <2>2, <3>1 DEF Typed, TypeOK
    <3>. QED
      BY <3>2, <3>3, Replaced DEF Reliable
  <2>. QED
    BY <2>1, <2>2, GotoTyped, EndTyped DEF Begin, Cancelled, Results
<1>2. Overlap(w) => Goal
  BY EndedTyped DEF Overlap
<1>3. CancelStale(w) => Goal
  BY EndTyped DEF CancelStale, Cancelled, Results
<1>4. Admit(w) => Goal
  BY GotoTyped, EndTyped DEF Admit, Cancelled, Results
<1>5. RejectLane(w) => Goal
  BY EndTyped DEF RejectLane, Results
<1>6. Allow(w) => Goal
  BY GotoTyped DEF Allow
<1>7. AskReview(w) => Goal
  BY EndTyped DEF AskReview, Results
<1>8. Deny(w) => Goal
  BY EndTyped DEF Deny, Results
<1>9. AwaitApproval(w) => Goal
  BY GotoTyped DEF AwaitApproval
<1>10. ConsumeSignal(w) => Goal
  BY EndTyped DEF ConsumeSignal, Results
<1>11. ApplySignal(w) => Goal
  BY GotoTyped DEF ApplySignal
<1>12. PassControl(w) => Goal
  BY GotoTyped DEF PassControl
<1>13. StartRunning(w) => Goal
  BY GotoTyped, EndTyped DEF StartRunning, Cancelled, Results
<1>14. BeginEffect(w) => Goal
  <2> SUFFICES ASSUME BeginEffect(w) PROVE Goal
    OBVIOUS
  <2>1. PICK effect \in {"own", "done", "open"} :
          worker' = [worker EXCEPT ![w].pc = "link", ![w].effect = effect]
    BY DEF BeginEffect
  <2>2. PICK j : j = [worker[w] EXCEPT !.pc = "link", !.effect = effect]
    OBVIOUS
  <2>3. j \in Invocation /\ j.pc = "link" /\ j.result = "success" /\ j.effect = effect
    BY <2>2 DEF BeginEffect, Reliable, Invocation
  <2>4. worker' = [worker EXCEPT ![w] = j]
    BY <2>1, <2>2 DEF Typed, TypeOK
  <2>. QED
    BY <2>3, <2>4, Replaced DEF Reliable
<1>15. LinkReceipt(w) => Goal
  <2> SUFFICES ASSUME LinkReceipt(w) PROVE Goal
    OBVIOUS
  <2>1. worker[w].effect \in {"own", "done", "open"}
    BY DEF LinkReceipt, Invocation, Reliable
  <2>. QED
    BY <2>1, GotoTyped, EndTyped DEF LinkReceipt, Results
<1>16. CheckDefinition(w) => Goal
  BY GotoTyped DEF CheckDefinition
<1>17. Revoke(w) => Goal
  BY EndTyped DEF Revoke, Cancelled, Results
<1>18. Execute(w) => Goal
  BY GotoTyped, EndTyped DEF Execute, Cancelled, Results
<1>19. Perform(w) => Goal
  BY GotoTyped, EndTyped DEF Perform, Cancelled, Results
<1>20. Intervene(w) => Goal
  BY EndTyped DEF Intervene, Results
<1>21. CompleteEffect(w) => Goal
  BY GotoTyped DEF CompleteEffect
<1>22. Raise(w) => Goal
  <2> SUFFICES ASSUME Raise(w) PROVE Goal
    OBVIOUS
  <2>1. PICK retryable \in BOOLEAN :
          worker' = [worker EXCEPT ![w].pc = "except", ![w].retryable = retryable,
                                   ![w].effect = IF worker[w].pc = "link" THEN "none" ELSE @]
    BY DEF Raise
  <2>2. PICK j : j = [worker[w] EXCEPT !.pc = "except", !.retryable = retryable,
                                       !.effect = IF worker[w].pc = "link" THEN "none" ELSE @]
    OBVIOUS
  <2>3. j \in Invocation /\ j.pc = "except" /\ j.result = "success"
    BY <2>2 DEF Raise, Reliable, Invocation
  <2>4. worker' = [worker EXCEPT ![w] = j]
    BY <2>1, <2>2 DEF Typed, TypeOK
  <2>. QED
    BY <2>3, <2>4, Replaced DEF Reliable
<1>23. FailToBegin(w) => Goal
  BY EndTyped DEF FailToBegin, Results
<1>24. HandleException(w) => Goal
  BY EndTyped DEF HandleException, Results
<1>25. Settle(w) => Goal
  <2> SUFFICES ASSUME Settle(w) PROVE Goal
    OBVIOUS
  <2>1. CASE worker' = [worker EXCEPT ![w].pc = "mark",
                                      ![w].refused = worker[w].bound # "none" /\ BindingConflict(w)]
    <3>1. PICK j : j = [worker[w] EXCEPT !.pc = "mark",
                                         !.refused = worker[w].bound # "none" /\ BindingConflict(w)]
      OBVIOUS
    <3>2. j \in Invocation /\ j.pc = "mark"
      BY <3>1 DEF Invocation
    <3>3. worker' = [worker EXCEPT ![w] = j]
      BY <2>1, <3>1 DEF Typed, TypeOK
    <3>. QED
      BY <3>2, <3>3, Replaced DEF Reliable
  <2>. QED
    BY <2>1, ConcludeTyped DEF Settle
<1>26. MarkLate(w) => Goal
  BY ConcludeTyped DEF MarkLate
<1>27. Finish(w) => Goal
  BY EndedTyped DEF Finish
<1>28. FinishForeign(w) => Goal
  BY EndedTyped DEF FinishForeign
<1>. QED
  BY <1>1, <1>2, <1>3, <1>4, <1>5, <1>6, <1>7, <1>8, <1>9, <1>10, <1>11, <1>12, <1>13, <1>14,
     <1>15, <1>16, <1>17, <1>18, <1>19, <1>20, <1>21, <1>22, <1>23, <1>24, <1>25, <1>26, <1>27,
     <1>28 DEF WorkerStep

-----------------------------------------------------------------------------
(* TypeOK without the invocations. *)
Ledgers ==
    /\ row \in Delivery
    /\ run \in [Attempt -> Run]
    /\ receipt \in [Attempt -> Receipt]
    /\ current \in BOOLEAN /\ recovered \in BOOLEAN
    /\ operator \in [step : {"away", "mark", "receipt", "row"}, outcome : {"completed", "failed"},
                     unsettled : BOOLEAN]
    /\ started \in SUBSET Worker /\ repudiated \in SUBSET Worker /\ stopped \in SUBSET Attempt

LEMMA Parts == TypeOK <=> (Ledgers /\ worker \in [Worker -> Invocation])
  BY DEF TypeOK, Ledgers

(* A status written into any run leaves the run records typed. *)
LEMMA RunsTyped ==
    ASSUME run \in [Attempt -> Run], NEW a, NEW status \in Statuses,
           \/ run' = [run EXCEPT ![a] = SetStatus(@, status)]
           \/ run' = [run EXCEPT ![a] = Waiting(@)]
           \/ run' = [run EXCEPT ![a].status = status]
           \/ run' = [run EXCEPT ![a].signal = "none"]
           \/ run' = [run EXCEPT ![a].approval = TRUE]
    PROVE  run' \in [Attempt -> Run]
<1>1. CASE a \notin Attempt
  BY <1>1
<1>2. CASE a \in Attempt
  <2>1. run[a] \in Run
    BY <1>2
  <2>2. SetStatus(run[a], status) \in Run /\ Waiting(run[a]) \in Run
    BY <2>1, RunTyped
  <2>3. /\ [run[a] EXCEPT !.status = status] \in Run
        /\ [run[a] EXCEPT !.signal = "none"] \in Run
        /\ [run[a] EXCEPT !.approval = TRUE] \in Run
    BY <2>1, Fields DEF Signals
  <2>. QED
    BY <1>2, <2>2, <2>3
<1>. QED
  BY <1>1, <1>2

(* A ledger statement on any receipt leaves the receipts typed. *)
LEMMA ReceiptsTyped ==
    ASSUME receipt \in [Attempt -> Receipt], NEW a, NEW o \in Worker, NEW outcome \in {"completed", "failed"},
           \/ receipt' = [receipt EXCEPT ![a] = AfterClaim(receipt[a], o, FALSE, FALSE)]
           \/ receipt' = [receipt EXCEPT ![a] = AfterReport(@, o, outcome)]
    PROVE  receipt' \in [Attempt -> Receipt]
<1>1. CASE a \notin Attempt
  BY <1>1
<1>2. CASE a \in Attempt
  <2>1. receipt[a] \in Receipt /\ o \in Owner
    BY <1>2 DEF Worker
  <2>2. /\ AfterClaim(receipt[a], o, FALSE, FALSE) \in Receipt
        /\ AfterReport(receipt[a], o, outcome) \in Receipt
    BY <2>1, ReceiptTyped
  <2>. QED
    BY <1>2, <2>2
<1>. QED
  BY <1>1, <1>2

(* finished() writes a row of the table. *)
LEMMA FinishedTyped ==
    ASSUME row \in Delivery, NEW w, NEW result
    PROVE  Finished(w, result) \in Delivery
<1>1. FinishTarget(row, run[row.attempt], receipt[row.attempt], result, worker[w].retryable) \in Phases
  BY TargetsTyped
<1>2. \A to \in Phases : Moved(row, to, FALSE) \in Delivery
  BY RowTyped
<1>. QED
  BY <1>1, <1>2 DEF Finished

(* Each step of the executor keeps the rows of the database typed. *)
LEMMA LedgersTyped ==
    ASSUME Typed, NEW w \in Worker, WorkerStep(w)
    PROVE  Ledgers'
<1> USE DEF rows, history, Ledgers
<1>. Ledgers /\ worker[w] \in Invocation /\ Reliable(worker[w])
  BY Parts DEF Typed, TypeOK, Locals
<1>. /\ "queued" \in Statuses /\ "failed" \in Statuses /\ "waiting_approval" \in Statuses
     /\ "running" \in Statuses /\ "cancelled" \in Statuses /\ "interrupted" \in Statuses
     /\ "paused" \in Statuses /\ "completed" \in Statuses
     /\ "admitted" \in Phases /\ "cancelled" \in Phases /\ "executing" \in Phases
  BY Names
<1>1. Begin(w) => Ledgers'
  <2> SUFFICES ASSUME Begin(w) PROVE run' \in [Attempt -> Run]
    BY DEF Begin
  <2>1. CASE Mine(w) \in Attempt
    <3>1. PICK status \in Statuses : run' = [run EXCEPT ![Mine(w)].status = status]
      BY <2>1, Fields DEF Begin
    <3>. QED
      BY <3>1, RunsTyped
  <2>2. CASE Mine(w) \notin Attempt
    BY <2>2 DEF Begin
  <2>. QED
    BY <2>1, <2>2
<1>2. Overlap(w) => Ledgers'
  BY FinishedTyped DEF Overlap
<1>3. CancelStale(w) => Ledgers'
  BY RowTyped DEF CancelStale
<1>4. Admit(w) => Ledgers'
  <2> SUFFICES ASSUME Admit(w) PROVE Ledgers'
    OBVIOUS
  <2>1. row' = row \/ row' = Moved(row, "admitted", FALSE)
    BY DEF Admit
  <2>. QED
    BY <2>1, RowTyped DEF Admit
<1>5. RejectLane(w) => Ledgers'
  BY RunsTyped DEF RejectLane
<1>6. Allow(w) => Ledgers'
  BY DEF Allow
<1>7. AskReview(w) => Ledgers'
  BY RunsTyped DEF AskReview
<1>8. Deny(w) => Ledgers'
  BY RunsTyped DEF Deny
<1>9. AwaitApproval(w) => Ledgers'
  BY RunsTyped DEF AwaitApproval
<1>10. ConsumeSignal(w) => Ledgers'
  BY RunsTyped DEF ConsumeSignal
<1>11. ApplySignal(w) => Ledgers'
  BY RunsTyped DEF ApplySignal, Reliable
<1>12. PassControl(w) => Ledgers'
  BY RunsTyped DEF PassControl
<1>13. StartRunning(w) => Ledgers'
  BY RunsTyped DEF StartRunning
<1>14. BeginEffect(w) => Ledgers'
  BY ReceiptsTyped DEF BeginEffect
<1>15. LinkReceipt(w) => Ledgers'
  <2> SUFFICES ASSUME LinkReceipt(w) PROVE Ledgers'
    OBVIOUS
  <2>1. row' = row \/ row' = Moved(row, "admitted", TRUE)
    BY DEF LinkReceipt
  <2>. QED
    BY <2>1, RowTyped DEF LinkReceipt
<1>16. CheckDefinition(w) => Ledgers'
  BY DEF CheckDefinition
<1>17. Revoke(w) => Ledgers'
  <2> SUFFICES ASSUME Revoke(w) PROVE Ledgers'
    OBVIOUS
  <2>1. row' = row \/ row' = Moved(row, "cancelled", FALSE)
    BY DEF Revoke
  <2>. QED
    BY <2>1, RowTyped DEF Revoke
<1>18. Execute(w) => Ledgers'
  <2> SUFFICES ASSUME Execute(w) PROVE Ledgers'
    OBVIOUS
  <2>1. row' = row \/ row' = Moved(row, "executing", TRUE)
    BY DEF Execute
  <2>2. started' \in SUBSET Worker
    BY DEF Execute
  <2>. QED
    BY <2>1, <2>2, RowTyped DEF Execute
<1>19. Perform(w) => Ledgers'
  BY DEF Perform
<1>20. Intervene(w) => Ledgers'
  BY RunsTyped DEF Intervene
<1>21. CompleteEffect(w) => Ledgers'
  BY ReceiptsTyped DEF CompleteEffect
<1>22. Raise(w) => Ledgers'
  BY DEF Raise
<1>23. FailToBegin(w) => Ledgers'
  BY DEF FailToBegin
<1>24. HandleException(w) => Ledgers'
  <2> SUFFICES ASSUME HandleException(w) PROVE Ledgers'
    OBVIOUS
  <2>1. receipt' = receipt \/ receipt' = [receipt EXCEPT ![Mine(w)] = AfterReport(@, w, "failed")]
    BY DEF HandleException
  <2>2. repudiated' \in SUBSET Worker
    BY DEF HandleException
  <2>. QED
    BY <2>1, <2>2, ReceiptsTyped DEF HandleException
<1>25. Settle(w) => Ledgers'
  BY RowTyped, RunsTyped, StepNames DEF Settle, Reliable
<1>26. MarkLate(w) => Ledgers'
  BY RunsTyped DEF MarkLate
<1>27. Finish(w) => Ledgers'
  BY FinishedTyped DEF Finish
<1>28. FinishForeign(w) => Ledgers'
  BY FinishedTyped DEF FinishForeign
<1>. QED
  BY <1>1, <1>2, <1>3, <1>4, <1>5, <1>6, <1>7, <1>8, <1>9, <1>10, <1>11, <1>12, <1>13, <1>14,
     <1>15, <1>16, <1>17, <1>18, <1>19, <1>20, <1>21, <1>22, <1>23, <1>24, <1>25, <1>26, <1>27,
     <1>28 DEF WorkerStep

(* A spawned invocation takes the place of an idle one. *)
LEMMA SpawnTyped ==
    ASSUME Typed, NEW a \in Attempt, NEW i, Idlers # {}, worker' = Spawned(i),
           i \in {At("begin", a), At("foreign", a), [At("begin", a) EXCEPT !.override = TRUE]}
    PROVE  worker' \in [Worker -> Invocation] /\ Locals'
<1>1. PICK w \in Worker : worker' = [worker EXCEPT ![w] = i]
  BY DEF Spawned, Idlers
<1>2. a \in 0..MaxAttempt
  BY Fields
<1>3. i \in Invocation /\ i.pc \in {"begin", "foreign"} /\ i.result = "success"
  <2>1. ASSUME NEW step \in {"begin", "foreign"}
        PROVE  At(step, a) \in Invocation /\ At(step, a).pc = step /\ At(step, a).result = "success"
    BY <1>2, StepNames DEF At, Invocation, Results
  <2>2. PICK step \in {"begin", "foreign"} : i \in {At(step, a), [At(step, a) EXCEPT !.override = TRUE]}
    OBVIOUS
  <2>. QED
    BY <2>1, <2>2 DEF Invocation
<1>4. Reliable(i)
  BY <1>3, StepNames DEF Reliable
<1>. QED
  BY <1>1, <1>3, <1>4, Replaced

(* What approvals and retries write into the run. *)
LEMMA DecisionTyped ==
    ASSUME NEW r \in Run, NEW status \in Statuses, NEW signal \in Signals
    PROVE  /\ [r EXCEPT !.signal = signal] \in Run
           /\ [r EXCEPT !.status = status, !.approval = FALSE] \in Run
           /\ [r EXCEPT !.approval = FALSE, !.status = status, !.signal = signal] \in Run
  BY Fields

(* The tick, the clock, restarts and people keep the types. *)
LEMMA OthersTyped ==
    ASSUME Typed, Next, \A w \in Worker : ~WorkerStep(w)
    PROVE  Typed'
<1> USE DEF rows, history
<1>. Ledgers /\ worker \in [Worker -> Invocation] /\ Locals
  BY Parts DEF Typed
<1>. SUFFICES Ledgers' /\ worker' \in [Worker -> Invocation] /\ Locals'
  BY DEF Typed, TypeOK, Ledgers
<1> DEFINE Goal == Ledgers' /\ worker' \in [Worker -> Invocation] /\ Locals'
<1> USE DEF Ledgers
<1>. /\ "running" \in Statuses /\ "cancelled" \in Statuses /\ "interrupted" \in Statuses
     /\ "paused" \in Statuses /\ "waiting_input" \in Statuses
     /\ {"none", "cancel", "pause", "interrupt", "retry", "approval_rejected"} = Signals
     /\ "cancelled" \in Phases /\ "unknown" \in Phases /\ "completed" \in Phases /\ "failed" \in Phases
  BY Names DEF Signals
<1>. UNCHANGED worker => worker' \in [Worker -> Invocation] /\ Locals'
  BY DEF Locals
<1>1. Kick => Goal
  <2> SUFFICES ASSUME Kick PROVE Goal
    OBVIOUS
  <2>1. CASE UNCHANGED worker
    <3>1. \E to \in Phases : row' = [row EXCEPT !.phase = to] \/ (row' = Claimed(row) /\ row.attempt < MaxAttempt)
      BY DEF Kick
    <3>2. ASSUME NEW to \in Phases PROVE [row EXCEPT !.phase = to] \in Delivery
      BY Fields
    <3>3. row.attempt < MaxAttempt => Claimed(row) \in Delivery
      BY RowTyped
    <3>4. row' \in Delivery
      BY <3>1, <3>2, <3>3
    <3>. QED
      BY <2>1, <3>4 DEF Kick
  <2>2. CASE /\ row.attempt < MaxAttempt /\ Idlers # {}
             /\ row' = Claimed(row)
             /\ worker' = Spawned(At("begin", row.attempt + 1))
    <3>1. row.attempt + 1 \in Attempt
      BY <2>2, Fields
    <3>2. worker' \in [Worker -> Invocation] /\ Locals'
      BY <2>2, <3>1, SpawnTyped
    <3>3. row' \in Delivery
      BY <2>2, RowTyped
    <3>. QED
      BY <3>2, <3>3 DEF Kick
  <2>. QED
    BY <2>1, <2>2 DEF Kick
<1>2. DropStale => Goal
  BY RowTyped DEF DropStale
<1>3. Renew => Goal
  BY Fields DEF Renew, Leases
<1>4. Reconcile => Goal
  <2> SUFFICES ASSUME Reconcile PROVE Goal
    OBVIOUS
  <2>1. row' \in Delivery
    BY RowTyped, TargetsTyped DEF Reconcile
  <2>2. receipt' \in [Attempt -> Receipt]
    <3>1. CASE row.attempt \in Attempt
      BY <3>1, ReconciledTyped DEF Reconcile
    <3>2. CASE row.attempt \notin Attempt
      BY <3>2 DEF Reconcile
    <3>. QED
      BY <3>1, <3>2
  <2>3. recovered' \in BOOLEAN
    BY DEF Reconcile
  <2>. QED
    BY <2>1, <2>2, <2>3 DEF Reconcile
<1>5. MarkRun => Goal
  BY RunsTyped DEF MarkRun
<1>6. LapseDelivery => Goal
  BY Fields DEF LapseDelivery, Leases
<1>7. ASSUME NEW a \in Attempt PROVE LapseReceipt(a) => Goal
  BY DEF LapseReceipt, Receipt, Leases
<1>8. ChangeDefinition => Goal
  BY DEF ChangeDefinition
<1>9. Restart => Goal
  <2> SUFFICES ASSUME Restart PROVE Goal
    OBVIOUS
  <2>1. ASSUME NEW w \in Worker PROVE worker'[w] \in Invocation /\ Reliable(worker'[w])
    <3>1. worker[w] \in Invocation /\ Reliable(worker[w])
      BY DEF Locals
    <3>2. worker'[w] = worker[w] \/ worker'[w] = At("gone", worker[w].attempt)
      BY DEF Restart, Mine
    <3>3. /\ At("gone", worker[w].attempt) \in Invocation
          /\ At("gone", worker[w].attempt).pc = "gone"
      BY <3>1, StepNames DEF At, Invocation, Results
    <3>. QED
      BY <3>1, <3>2, <3>3, StepNames DEF Reliable
  <2>2. worker' \in [Worker -> Invocation] /\ Locals'
    BY <2>1 DEF Restart, Locals
  <2>3. run' \in [Attempt -> Run]
    BY RunTyped DEF Restart
  <2>. QED
    BY <2>2, <2>3 DEF Restart, Away
<1>10. ASSUME NEW a \in Attempt PROVE Cancel(a) => Goal
  <2> SUFFICES ASSUME Cancel(a) PROVE Goal
    OBVIOUS
  <2>1. run' = [run EXCEPT ![a] = [SetStatus(@, "cancelled") EXCEPT !.signal = "cancel"]]
    BY DEF Cancel
  <2>2. run' \in [Attempt -> Run]
    BY <2>1, CommandTyped
  <2>3. stopped' = stopped \union {a} \/ stopped' = stopped
    BY DEF Cancel
  <2>4. stopped' \in SUBSET Attempt
    BY <2>3
  <2>5. UNCHANGED <<row, receipt, current, worker, recovered, operator, started, repudiated>>
    BY DEF Cancel
  <2>. QED
    BY <2>2, <2>4, <2>5
<1>11. ASSUME NEW a \in Attempt PROVE Pause(a) => Goal
  BY CommandTyped DEF Pause
<1>12. ASSUME NEW a \in Attempt PROVE Interrupt(a) => Goal
  BY CommandTyped DEF Interrupt
<1>13. ASSUME NEW a \in Attempt PROVE Resume(a) => Goal
  <2> SUFFICES ASSUME Resume(a) PROVE Goal
    OBVIOUS
  <2>1. worker' \in [Worker -> Invocation] /\ Locals'
    BY SpawnTyped DEF Resume
  <2>2. run' \in [Attempt -> Run]
    BY CommandTyped DEF Resume
  <2>. QED
    BY <2>1, <2>2 DEF Resume
<1>14. ASSUME NEW a \in Attempt PROVE Retry(a) => Goal
  <2> SUFFICES ASSUME Retry(a) PROVE Goal
    OBVIOUS
  <2>1. worker' \in [Worker -> Invocation] /\ Locals'
    BY SpawnTyped DEF Retry
  <2>2. run' = [run EXCEPT ![a] = [run[a] EXCEPT !.signal = "retry"]]
    BY DEF Retry
  <2>3. run' \in [Attempt -> Run]
    BY <2>2, DecisionTyped
  <2>. QED
    BY <2>1, <2>3 DEF Retry
<1>15. ASSUME NEW a \in Attempt PROVE Approve(a) => Goal
  <2> SUFFICES ASSUME Approve(a) PROVE Goal
    OBVIOUS
  <2>1. worker' \in [Worker -> Invocation] /\ Locals'
    BY SpawnTyped DEF Approve
  <2>2. PICK status \in Statuses :
           run' = [run EXCEPT ![a] = [run[a] EXCEPT !.status = status, !.approval = FALSE]]
    BY Fields DEF Approve
  <2>3. run' \in [Attempt -> Run]
    BY <2>2, DecisionTyped
  <2>. QED
    BY <2>1, <2>3 DEF Approve
<1>16. ASSUME NEW a \in Attempt PROVE RejectApproval(a) => Goal
  <2> SUFFICES ASSUME RejectApproval(a) PROVE Goal
    OBVIOUS
  <2>1. run[a].status \in Statuses /\ run[a].signal \in Signals
    BY Fields
  <2>2. PICK status \in Statuses, signal \in Signals :
           run' = [run EXCEPT ![a] =
                      [run[a] EXCEPT !.approval = FALSE, !.status = status, !.signal = signal]]
    <3> DEFINE new(status, signal) == [run EXCEPT ![a] =
                   [run[a] EXCEPT !.approval = FALSE, !.status = status, !.signal = signal]]
    <3>1. run' = new("waiting_input", "approval_rejected") \/ run' = new(run[a].status, run[a].signal)
      BY DEF RejectApproval
    <3>. QED
      BY <2>1, <3>1
  <2>3. run' \in [Attempt -> Run]
    BY <2>2, DecisionTyped
  <2>. QED
    BY <2>3 DEF RejectApproval
<1>17. OperatorReads => Goal
  BY DEF OperatorReads
<1>18. OperatorMarks => Goal
  BY RunsTyped DEF OperatorMarks
<1>19. OperatorSettlesReceipt => Goal
  <2> SUFFICES ASSUME OperatorSettlesReceipt PROVE Goal
    OBVIOUS
  <2>1. receipt' \in [Attempt -> Receipt]
    <3>1. CASE row.attempt \in Attempt
      BY <3>1, ReconciledTyped DEF OperatorSettlesReceipt
    <3>2. CASE row.attempt \notin Attempt
      BY <3>2 DEF OperatorSettlesReceipt
    <3>. QED
      BY <3>1, <3>2
  <2>2. operator' = [operator EXCEPT !.step = "row"] \/ operator' = Away
    BY DEF OperatorSettlesReceipt
  <2>. QED
    BY <2>1, <2>2 DEF OperatorSettlesReceipt, Away
<1>20. OperatorSettlesRow => Goal
  <2> SUFFICES ASSUME OperatorSettlesRow PROVE Goal
    OBVIOUS
  <2>1. operator.outcome \in Phases
    OBVIOUS
  <2>2. row' \in Delivery
    BY <2>1, Fields DEF OperatorSettlesRow
  <2>. QED
    BY <2>2 DEF OperatorSettlesRow, Away
<1>. QED
  BY <1>1, <1>2, <1>3, <1>4, <1>5, <1>6, <1>7, <1>8, <1>9, <1>10, <1>11, <1>12, <1>13, <1>14,
     <1>15, <1>16, <1>17, <1>18, <1>19, <1>20 DEF Next, Tick

LEMMA InitTyped == Init => Typed
<1> SUFFICES ASSUME Init PROVE Typed
  OBVIOUS
<1>1. Idle \in Invocation /\ Idle.pc = "idle" /\ Idle.result = "success"
  BY Fields, StepNames DEF Idle, At, Invocation, Results
<1>2. worker \in [Worker -> Invocation] /\ Locals
  BY <1>1, StepNames DEF Init, Locals, Reliable
<1>3. Enqueued \in Delivery /\ NoRun \in Run
  BY Fields, Names DEF Enqueued, NoRun, Leases, Signals
<1>4. Absent \in Receipt
  BY DEF Absent, Receipt, ReceiptStates, Leases
<1>. QED
  BY <1>2, <1>3, <1>4 DEF Init, Typed, TypeOK, Away

LEMMA StepTyped == Typed /\ [Next]_vars => Typed'
<1> SUFFICES ASSUME Typed, [Next]_vars PROVE Typed'
  OBVIOUS
<1>1. CASE \E w \in Worker : WorkerStep(w)
  BY <1>1, WorkersTyped, LedgersTyped DEF Typed, TypeOK, Ledgers
<1>2. CASE Next /\ \A w \in Worker : ~WorkerStep(w)
  BY <1>2, OthersTyped
<1>3. CASE UNCHANGED vars
  BY <1>3 DEF vars, Typed, TypeOK, Locals
<1>. QED
  BY <1>1, <1>2, <1>3

(***************************************************************************)
(* Whatever the executor, the tick, a restart and people do in whatever    *)
(* order, the ledgers hold only rows of their tables and every invocation  *)
(* is at a step with locals that this step can have.                       *)
(***************************************************************************)
THEOREM TypeCorrect == Spec => []TypeOK
<1>1. Spec => []Typed
  BY InitTyped, StepTyped, PTL DEF Spec
<1>2. Typed => TypeOK
  BY DEF Typed
<1>. QED
  BY <1>1, <1>2, PTL

-----------------------------------------------------------------------------
(* What a step of the executor does to the invocations, whichever step it is. *)
Walks(w) ==
    /\ worker[w].pc # "idle" /\ worker'[w].pc # "idle"
    /\ worker'[w].attempt = worker[w].attempt
    /\ worker'[w].pc \in Entering => worker[w].pc \in Entering
    /\ \A v \in Worker \ {w} : worker'[v] = worker[v]

LEMMA GotoWalks ==
    ASSUME worker \in [Worker -> Invocation], NEW w \in Worker, worker[w].pc # "idle",
           NEW step, NEW result, step # "idle", step \in Entering => worker[w].pc \in Entering,
           Goto(w, step) \/ End(w, result, step)
    PROVE  Walks(w)
  BY DEF Goto, End, Walks, Invocation

LEMMA WorkerWalks ==
    ASSUME Typed, NEW w \in Worker, WorkerStep(w)
    PROVE  Walks(w)
<1> USE DEF Entering
<1>. worker \in [Worker -> Invocation] /\ worker[w] \in Invocation /\ Reliable(worker[w])
  BY DEF Typed, TypeOK, Locals
<1>1. Begin(w) => Walks(w)
  <2> SUFFICES ASSUME Begin(w) PROVE Walks(w)
    OBVIOUS
  <2>1. \/ Cancelled(w) \/ Goto(w, "stale")
        \/ worker' = [worker EXCEPT ![w].pc = "except", ![w].retryable = FALSE]
        \/ worker' = [worker EXCEPT ![w].pc = "lane", ![w].bound = IF row.linked THEN "linked" ELSE "plain"]
    BY DEF Begin
  <2>2. worker[w].pc = "begin"
    BY DEF Begin
  <2>3. CASE Cancelled(w) \/ Goto(w, "stale")
    BY <2>2, <2>3, GotoWalks DEF Cancelled
  <2>. QED
    BY <2>1, <2>2, <2>3 DEF Walks, Invocation
<1>2. Overlap(w) => Walks(w)
  BY DEF Overlap, Ended, At, Walks
<1>3. CancelStale(w) => Walks(w)
  BY GotoWalks DEF CancelStale, Cancelled
<1>4. Admit(w) => Walks(w)
  BY GotoWalks DEF Admit, Cancelled
<1>5. RejectLane(w) => Walks(w)
  BY GotoWalks DEF RejectLane
<1>6. Allow(w) => Walks(w)
  BY GotoWalks DEF Allow
<1>7. AskReview(w) => Walks(w)
  BY GotoWalks DEF AskReview
<1>8. Deny(w) => Walks(w)
  BY GotoWalks DEF Deny
<1>9. AwaitApproval(w) => Walks(w)
  BY GotoWalks DEF AwaitApproval
<1>10. ConsumeSignal(w) => Walks(w)
  BY GotoWalks DEF ConsumeSignal
<1>11. ApplySignal(w) => Walks(w)
  BY GotoWalks DEF ApplySignal
<1>12. PassControl(w) => Walks(w)
  BY GotoWalks DEF PassControl
<1>13. StartRunning(w) => Walks(w)
  BY GotoWalks DEF StartRunning, Cancelled
<1>14. BeginEffect(w) => Walks(w)
  BY DEF BeginEffect, Walks, Invocation
<1>15. LinkReceipt(w) => Walks(w)
  <2> SUFFICES ASSUME LinkReceipt(w) PROVE Walks(w)
    OBVIOUS
  <2>1. worker[w].pc = "link" /\ worker[w].effect \in {"own", "done", "open"}
    BY DEF LinkReceipt, Reliable, Invocation
  <2>2. Goto(w, "check") \/ Goto(w, "settle") \/ End(w, "failed", "settle")
    BY <2>1 DEF LinkReceipt
  <2>. QED
    BY <2>1, <2>2, GotoWalks
<1>16. CheckDefinition(w) => Walks(w)
  BY GotoWalks DEF CheckDefinition
<1>17. Revoke(w) => Walks(w)
  BY GotoWalks DEF Revoke, Cancelled
<1>18. Execute(w) => Walks(w)
  BY GotoWalks DEF Execute, Cancelled
<1>19. Perform(w) => Walks(w)
  BY GotoWalks DEF Perform, Cancelled
<1>20. Intervene(w) => Walks(w)
  BY GotoWalks DEF Intervene
<1>21. CompleteEffect(w) => Walks(w)
  BY GotoWalks DEF CompleteEffect
<1>22. Raise(w) => Walks(w)
  BY DEF Raise, Walks, Invocation
<1>23. FailToBegin(w) => Walks(w)
  BY GotoWalks DEF FailToBegin
<1>24. HandleException(w) => Walks(w)
  BY GotoWalks DEF HandleException
<1>25. Settle(w) => Walks(w)
  BY DEF Settle, Conclude, Walks, Invocation
<1>26. MarkLate(w) => Walks(w)
  BY DEF MarkLate, Conclude, Walks, Invocation
<1>27. Finish(w) => Walks(w)
  BY DEF Finish, Ended, At, Walks
<1>28. FinishForeign(w) => Walks(w)
  BY DEF FinishForeign, Ended, At, Walks
<1>. QED
  BY <1>1, <1>2, <1>3, <1>4, <1>5, <1>6, <1>7, <1>8, <1>9, <1>10, <1>11, <1>12, <1>13, <1>14,
     <1>15, <1>16, <1>17, <1>18, <1>19, <1>20, <1>21, <1>22, <1>23, <1>24, <1>25, <1>26, <1>27,
     <1>28 DEF WorkerStep

(* What a step of the executor may do to the delivery row, whichever step it is. *)
RowWalks(w) ==
    /\ row'.attempt = row.attempt /\ row'.reconciled = row.reconciled
    /\ row'.owner \in {0, row.owner}
    /\ row'.phase \in Early => \/ row.phase \in Early
                               \/ worker[w].pc = "lane" /\ row.owner = worker[w].attempt
    /\ row'.phase \notin {"pending", "cancelled"} =>
          row.phase \notin {"pending", "cancelled"} \/ row.attempt = worker[w].attempt
    /\ row'.phase = "completed" => row.phase = "completed" \/ receipt[row.attempt].state = "completed"

LEMMA FinishedWalks ==
    ASSUME row \in Delivery, NEW w, NEW result, row' = Finished(w, result)
    PROVE  RowWalks(w)
<1>1. CASE row' = row
  BY <1>1 DEF RowWalks
<1>2. CASE row' # row
  <2> DEFINE to == FinishTarget(row, run[row.attempt], receipt[row.attempt], result, worker[w].retryable)
  <2>1. row' = Moved(row, to, FALSE) /\ row.phase \in LivePhases
    BY <1>2 DEF Finished
  <2>2. to = "completed" => receipt[row.attempt].state = "completed"
    BY DEF FinishTarget
  <2>3. to \in Early => row.phase \in {"claimed", "admitted"}
    BY DEF FinishTarget, Early
  <2>4. /\ row'.phase = to /\ row'.attempt = row.attempt /\ row'.owner = row.owner
        /\ row'.reconciled = row.reconciled
    BY <2>1, Fields DEF Moved
  <2>. QED
    BY <2>1, <2>2, <2>3, <2>4 DEF RowWalks, Early, LivePhases, LeasedPhases
<1>. QED
  BY <1>1, <1>2

LEMMA RowsWalk ==
    ASSUME row \in Delivery, NEW w \in Worker, WorkerStep(w)
    PROVE  RowWalks(w)
<1> USE Fields DEF RowWalks, rows, LivePhases, LeasedPhases, Early
<1>1. CancelStale(w) => RowWalks(w)
  BY DEF CancelStale, Revoked
<1>2. Overlap(w) \/ Finish(w) \/ FinishForeign(w) => RowWalks(w)
  BY FinishedWalks DEF Overlap, Finish, FinishForeign
<1>3. Admit(w) => RowWalks(w)
  <2> SUFFICES ASSUME Admit(w), row' # row PROVE RowWalks(w)
    OBVIOUS
  <2>1. /\ row' = Moved(row, "admitted", FALSE) /\ row.phase \in {"claimed", "blocked"}
        /\ worker[w].pc = "lane" /\ row.owner = worker[w].attempt
    BY DEF Admit, MayMove, Mine
  <2>. QED
    BY <2>1 DEF Moved
<1>4. LinkReceipt(w) => RowWalks(w)
  <2> SUFFICES ASSUME LinkReceipt(w), row' # row PROVE RowWalks(w)
    OBVIOUS
  <2>1. row' = Moved(row, "admitted", TRUE) /\ row.phase = "admitted"
    BY DEF LinkReceipt, MayMove
  <2>. QED
    BY <2>1 DEF Moved
<1>5. Revoke(w) => RowWalks(w)
  <2> SUFFICES ASSUME Revoke(w), row' # row PROVE RowWalks(w)
    OBVIOUS
  <2>1. row' = Moved(row, "cancelled", FALSE) /\ row.phase = "admitted"
    BY DEF Revoke, MayMove
  <2>. QED
    BY <2>1 DEF Moved
<1>6. Execute(w) => RowWalks(w)
  <2> SUFFICES ASSUME Execute(w), row' # row PROVE RowWalks(w)
    OBVIOUS
  <2>1. row' = Moved(row, "executing", TRUE) /\ row.phase = "admitted"
    BY DEF Execute, MayMove
  <2>. QED
    BY <2>1 DEF Moved
<1>7. Settle(w) => RowWalks(w)
  <2> SUFFICES ASSUME Settle(w), row' # row PROVE RowWalks(w)
    OBVIOUS
  <2>1. row' = Parked(row, receipt[row.attempt]) /\ row.attempt = worker[w].attempt
    BY DEF Settle, BindingConflict, Mine
  <2>. QED
    BY <2>1 DEF Parked
<1>8. UNCHANGED row => RowWalks(w)
  OBVIOUS
<1>9. \/ CancelStale(w) \/ Overlap(w) \/ Finish(w) \/ FinishForeign(w) \/ Admit(w) \/ LinkReceipt(w)
      \/ Revoke(w) \/ Execute(w) \/ Settle(w) \/ UNCHANGED row
  BY DEF WorkerStep, Begin, RejectLane, Allow, AskReview, Deny, AwaitApproval, ConsumeSignal,
         ApplySignal, PassControl, StartRunning, BeginEffect, CheckDefinition, Perform, Intervene,
         CompleteEffect, Raise, FailToBegin, HandleException, MarkLate
<1>. QED
  BY <1>1, <1>2, <1>3, <1>4, <1>5, <1>6, <1>7, <1>8, <1>9

(* The claim of a pending row, and whatever else happens to the row outside the executor. *)
Claims ==
    /\ row.phase = "pending" /\ row.attempt < MaxAttempt /\ Idlers # {}
    /\ row' = Claimed(row)
    /\ worker' = Spawned(At("begin", row.attempt + 1))
    /\ UNCHANGED <<run, receipt, started>>

RowRests ==
    /\ row'.attempt = row.attempt
    /\ row'.owner \in {0, row.owner}
    /\ row'.phase \in Early => row.phase \in Early
    /\ row'.phase \notin {"pending", "cancelled"} => row.attempt \in Attempt
    /\ row'.phase = "completed" /\ ~row'.reconciled =>
          (row.phase = "completed" /\ ~row.reconciled) \/ receipt[row.attempt].state = "completed"

LEMMA RowsRest ==
    ASSUME Typed, Attempted, Next, \A w \in Worker : ~WorkerStep(w)
    PROVE  Claims \/ RowRests
<1> USE Fields DEF RowRests, rows, LivePhases, LeasedPhases, Early
<1>. /\ row \in Delivery
     /\ row.phase \notin {"pending", "cancelled"} => row.attempt \in Attempt
  BY DEF Typed, TypeOK, Attempted
<1>1. UNCHANGED row => RowRests
  OBVIOUS
<1>2. Kick => Claims \/ RowRests
  <2> SUFFICES ASSUME Kick, ~Claims PROVE RowRests
    OBVIOUS
  <2>1. PICK to \in {"cancelled", "unknown"} :
           row' = [row EXCEPT !.phase = to] /\ (to = "unknown" => row.attempt # 0)
    BY DEF Kick, Claims, history
  <2>. QED
    BY <2>1
<1>3. DropStale => RowRests
  BY DEF DropStale, Revoked
<1>4. Renew => RowRests
  BY DEF Renew
<1>5. Reconcile => RowRests
  <2> SUFFICES ASSUME Reconcile PROVE RowRests
    OBVIOUS
  <2> DEFINE to == ReconcileTarget(row, run[row.attempt], receipt[row.attempt])
  <2>1. row' = Released(row, to) /\ row.phase \in LeasedPhases \union {"unknown"}
    BY DEF Reconcile, Due
  <2>2. to = "completed" => receipt[row.attempt].state = "completed"
    BY DEF ReconcileTarget, Resolved
  <2>3. to \in Early => row.phase \in {"claimed", "admitted"}
    BY <2>1 DEF ReconcileTarget, Resolved
  <2>4. /\ row'.phase = to /\ row'.attempt = row.attempt /\ row'.owner = 0
        /\ row'.reconciled = row.reconciled
    BY <2>1 DEF Released
  <2>. QED
    BY <2>1, <2>2, <2>3, <2>4
<1>6. LapseDelivery => RowRests
  BY DEF LapseDelivery
<1>7. OperatorSettlesRow => RowRests
  <2> SUFFICES ASSUME OperatorSettlesRow, row' # row PROVE RowRests
    OBVIOUS
  <2>1. operator.outcome \in {"completed", "failed"}
    BY DEF Typed, TypeOK
  <2>2. row' = [row EXCEPT !.phase = operator.outcome, !.reconciled = TRUE] /\ row.phase = "unknown"
    BY DEF OperatorSettlesRow
  <2>. QED
    BY <2>1, <2>2
<1>8. \/ UNCHANGED row \/ Kick \/ DropStale \/ Renew \/ Reconcile \/ LapseDelivery \/ OperatorSettlesRow
  BY DEF Next, Tick, MarkRun, ChangeDefinition, Restart, LapseReceipt, Cancel, Pause, Interrupt, Resume,
         Retry, Approve, RejectApproval, OperatorReads, OperatorMarks, OperatorSettlesReceipt
<1>. QED
  BY <1>1, <1>2, <1>3, <1>4, <1>5, <1>6, <1>7, <1>8

(* A receipt that says "completed" says so for good. *)
LEMMA CompletedStays ==
    ASSUME Typed, Next, NEW a \in Attempt, receipt[a].state = "completed"
    PROVE  receipt'[a].state = "completed"
<1> USE DEF rows
<1>. receipt \in [Attempt -> Receipt] /\ receipt[a] \in Receipt
  BY DEF Typed, TypeOK
<1>1. CASE UNCHANGED receipt
  BY <1>1
<1>2. ASSUME NEW b,
             \/ \E o, flag : receipt' = [receipt EXCEPT ![b] = AfterClaim(receipt[b], o, FALSE, FALSE)]
             \/ \E o, outcome : receipt' = [receipt EXCEPT ![b] = AfterReport(@, o, outcome)]
             \/ \E outcome : receipt' = [receipt EXCEPT ![b] = AfterReconcile(@, outcome)]
             \/ \E r, target : receipt' = [receipt EXCEPT ![b] = ReceiptAfterReconcile(r, @, target)]
             \/ receipt' = [receipt EXCEPT ![b].lease = "expired"]
      PROVE  receipt'[a].state = "completed"
  BY <1>2 DEF AfterClaim, Executes, AfterReport, OwnedClaim, AfterReconcile, ReceiptAfterReconcile, Receipt
<1>3. ASSUME NEW w \in Worker, WorkerStep(w) PROVE receipt'[a].state = "completed"
  <2>1. UNCHANGED receipt \/ BeginEffect(w) \/ CompleteEffect(w) \/ HandleException(w)
    BY <1>3 DEF WorkerStep, Begin, Overlap, CancelStale, Admit, RejectLane, Allow, AskReview, Deny,
         AwaitApproval, ConsumeSignal, ApplySignal, PassControl, StartRunning, LinkReceipt,
         CheckDefinition, Revoke, Execute, Perform, Intervene, Raise, FailToBegin, Settle, MarkLate,
         Finish, FinishForeign
  <2>. QED
    BY <1>1, <1>2, <2>1 DEF BeginEffect, CompleteEffect, HandleException
<1>4. CASE \A w \in Worker : ~WorkerStep(w)
  <2>1. UNCHANGED receipt \/ Reconcile \/ (\E b \in Attempt : LapseReceipt(b)) \/ OperatorSettlesReceipt
    BY <1>4 DEF Next, Tick, Kick, DropStale, Renew, MarkRun, LapseDelivery, ChangeDefinition, Restart,
         Cancel, Pause, Interrupt, Resume, Retry, Approve, RejectApproval, OperatorReads,
         OperatorMarks, OperatorSettlesRow
  <2>. QED
    BY <1>1, <1>2, <2>1 DEF Reconcile, LapseReceipt, OperatorSettlesReceipt
<1>. QED
  BY <1>3, <1>4

-----------------------------------------------------------------------------
(* The invocations outside the executor: they rest or die, or a new one enters. *)
WorkersRest ==
    \A w \in Worker : \/ worker'[w] = worker[w]
                      \/ /\ worker[w].pc # "idle" /\ worker'[w].pc = "gone"
                         /\ worker'[w].attempt = worker[w].attempt

Enters(w, a) ==
    /\ worker[w].pc = "idle"
    /\ worker'[w].attempt = a /\ worker'[w].pc \in {"begin", "foreign"}
    /\ \A v \in Worker \ {w} : worker'[v] = worker[v]

LEMMA SpawnEnters ==
    ASSUME worker \in [Worker -> Invocation], Idlers # {}, NEW i, worker' = Spawned(i), NEW a,
           i.attempt = a, i.pc \in {"begin", "foreign"}
    PROVE  \E w \in Worker : Enters(w, a) /\ worker'[w].pc = i.pc
<1>1. PICK w \in Worker : worker[w].pc = "idle" /\ worker' = [worker EXCEPT ![w] = i]
  BY DEF Spawned, Idlers
<1>. QED
  BY <1>1 DEF Enters

LEMMA OthersEnter ==
    ASSUME Typed, Next, \A w \in Worker : ~WorkerStep(w)
    PROVE  \/ WorkersRest
           \/ Claims /\ \E w \in Worker : Enters(w, row.attempt + 1)
           \/ \E a \in Attempt, w \in Worker :
                 /\ Enters(w, a)
                 /\ Resume(a) \/ (Retry(a) /\ worker'[w].pc = "foreign") \/ Approve(a)
<1> DEFINE Goal ==
      \/ WorkersRest
      \/ Claims /\ \E w \in Worker : Enters(w, row.attempt + 1)
      \/ \E a \in Attempt, w \in Worker :
            /\ Enters(w, a)
            /\ Resume(a) \/ (Retry(a) /\ worker'[w].pc = "foreign") \/ Approve(a)
<1>. worker \in [Worker -> Invocation]
  BY DEF Typed, TypeOK
<1>1. UNCHANGED worker => WorkersRest
  BY DEF WorkersRest
<1>2. Restart => WorkersRest
  BY DEF Restart, WorkersRest, Alive, At, Mine
<1>3. Kick => Goal
  <2> SUFFICES ASSUME Kick, worker' # worker PROVE Goal
    BY <1>1
  <2>1. Claims
    BY DEF Kick, Claims, history
  <2>2. \E w \in Worker : Enters(w, row.attempt + 1)
    BY <2>1, SpawnEnters DEF Claims, At
  <2>. QED
    BY <2>1, <2>2
<1>4. ASSUME NEW a \in Attempt, Resume(a) PROVE Goal
  <2>1. \E w \in Worker : Enters(w, a)
    BY <1>4, SpawnEnters DEF Resume, At
  <2>. QED
    BY <1>4, <2>1
<1>5. ASSUME NEW a \in Attempt, Retry(a) PROVE Goal
  <2>1. \E w \in Worker : Enters(w, a) /\ worker'[w].pc = "foreign"
    <3>1. PICK i : i = At("foreign", a)
      OBVIOUS
    <3>2. i.attempt = a /\ i.pc = "foreign"
      BY <3>1 DEF At
    <3>3. worker' = Spawned(i) /\ Idlers # {}
      BY <1>5, <3>1 DEF Retry
    <3>. QED
      BY <3>2, <3>3, SpawnEnters
  <2>. QED
    BY <1>5, <2>1
<1>6. ASSUME NEW a \in Attempt, Approve(a) PROVE Goal
  <2>1. CASE UNCHANGED worker
    BY <1>1, <2>1
  <2>2. CASE worker' # worker
    <3>1. PICK i : i = [At("begin", a) EXCEPT !.override = TRUE]
      OBVIOUS
    <3>2. i.attempt = a /\ i.pc = "begin"
      BY <3>1 DEF At
    <3>3. worker' = Spawned(i) /\ Idlers # {}
      BY <1>6, <2>2, <3>1 DEF Approve
    <3>4. \E w \in Worker : Enters(w, a)
      BY <3>2, <3>3, SpawnEnters
    <3>. QED
      BY <1>6, <3>4
  <2>. QED
    BY <2>1, <2>2
<1>7. \/ UNCHANGED worker \/ Kick \/ Restart
      \/ \E a \in Attempt : Resume(a) \/ Retry(a) \/ Approve(a)
  BY DEF Next, Tick, DropStale, Renew, Reconcile, MarkRun, LapseDelivery, LapseReceipt, ChangeDefinition,
         Cancel, Pause, Interrupt, RejectApproval, OperatorReads, OperatorMarks,
         OperatorSettlesReceipt, OperatorSettlesRow, rows, history
<1>. QED
  BY <1>1, <1>2, <1>3, <1>4, <1>5, <1>6, <1>7

(* The invariant behind CompletedHasEvidence. *)
LEMMA StepEvidence == Evidence /\ [Next]_vars => Evidence'
<1> SUFFICES ASSUME Evidence, [Next]_vars PROVE Evidence'
  OBVIOUS
<1> USE Fields DEF Evidence, Attempted, CompletedHasEvidence
<1>. Typed'
  BY StepTyped
<1>. row \in Delivery
  BY DEF Typed, TypeOK
<1>0. CASE UNCHANGED vars
  BY <1>0 DEF vars, Mine
<1>1. ASSUME NEW w \in Worker, WorkerStep(w) PROVE Evidence'
  <2>1. RowWalks(w) /\ Walks(w)
    BY <1>1, RowsWalk, WorkerWalks
  <2>2. Attempted'
    BY <2>1 DEF RowWalks, Walks, Mine
  <2>3. CompletedHasEvidence'
    <3> SUFFICES ASSUME row'.phase = "completed", ~row'.reconciled
                 PROVE  receipt'[row'.attempt].state = "completed"
      OBVIOUS
    <3>1. row'.attempt = row.attempt /\ receipt[row.attempt].state = "completed"
      BY <2>1 DEF RowWalks
    <3>2. row.attempt \in Attempt
      BY <2>2, <3>1
    <3>. QED
      BY <1>1, <3>1, <3>2, CompletedStays DEF Next
  <2>. QED
    BY <2>2, <2>3
<1>2. CASE Next /\ \A w \in Worker : ~WorkerStep(w)
  <2>1. Claims \/ RowRests
    BY <1>2, RowsRest
  <2>2. row'.phase \notin {"pending", "cancelled"} => row'.attempt \in Attempt
    <3>1. CASE Claims
      <4>1. row'.attempt = row.attempt + 1 /\ row.attempt < MaxAttempt
        BY <3>1 DEF Claims, Claimed
      <4>. QED
        BY <4>1
    <3>2. CASE RowRests
      BY <3>2 DEF RowRests
    <3>. QED
      BY <2>1, <3>1, <3>2
  <2>3. \A w \in Worker : worker'[w].pc # "idle" => worker'[w].attempt \in Attempt
    <3>1. CASE WorkersRest
      BY <3>1 DEF WorkersRest, Mine
    <3>2. CASE Claims /\ \E w \in Worker : Enters(w, row.attempt + 1)
      BY <3>2 DEF Claims, Enters, Mine
    <3>3. CASE \E a \in Attempt, w \in Worker : Enters(w, a)
      BY <3>3 DEF Enters, Mine
    <3>. QED
      BY <1>2, <3>1, <3>2, <3>3, OthersEnter
  <2>4. CompletedHasEvidence'
    <3> SUFFICES ASSUME row'.phase = "completed", ~row'.reconciled
                 PROVE  receipt'[row'.attempt].state = "completed"
      OBVIOUS
    <3>1. row'.attempt = row.attempt /\ row.attempt \in Attempt /\ receipt[row.attempt].state = "completed"
      BY <2>1 DEF Claims, Claimed, RowRests
    <3>. QED
      BY <1>2, <3>1, CompletedStays
  <2>. QED
    BY <2>2, <2>3, <2>4 DEF Mine
<1>. QED
  BY <1>0, <1>1, <1>2

(***************************************************************************)
(* A delivery reported as completed has the completed receipt of its       *)
(* current attempt or an operator's evidence, for every number of          *)
(* invocations and attempts and whatever commands, crashes and late        *)
(* writers come between.                                                   *)
(***************************************************************************)
THEOREM CompletedProven == Spec => []CompletedHasEvidence
<1>1. Init => Evidence
  BY InitTyped DEF Init, Evidence, Attempted, CompletedHasEvidence, Enqueued, Idle, At
<1>2. Evidence => CompletedHasEvidence
  BY DEF Evidence
<1>. QED
  BY <1>1, <1>2, StepEvidence, PTL DEF Spec

-----------------------------------------------------------------------------
(* Nothing sends an attempt back through the guard: no resume, no approval half way. *)
NoReentry == ~Intervenes /\ (Agent => "resume" \notin Commands)

(* What a step of the executor does to the runs and to the invocations that began. *)
RunWalks(w) == \A a \in Attempt :
    /\ run'[a].approval => \/ run[a].approval
                           \/ /\ a = worker[w].attempt
                              /\ worker[w].pc = "guard" /\ worker'[w].pc = "review"
    /\ run'[a].status # "none" => run[a].status # "none" \/ a = worker[w].attempt

StartWalks(w) ==
    \/ started' = started
    \/ /\ started' = started \union {w} /\ worker[w].pc = "execute" /\ worker'[w].pc = "perform"
       /\ row.owner = worker[w].attempt /\ row'.phase = "executing"

(* No write of a status brings an approval back. *)
LEMMA StatusWritten ==
    ASSUME NEW r \in Run, NEW status, NEW signal
    PROVE  /\ SetStatus(r, status).approval => r.approval
           /\ [SetStatus(r, status) EXCEPT !.signal = signal].approval => r.approval
           /\ Waiting(r).approval => r.approval
           /\ [r EXCEPT !.status = status].approval => r.approval
           /\ [r EXCEPT !.signal = signal].approval => r.approval
  BY Fields DEF SetStatus, Waiting

LEMMA RunsWalk ==
    ASSUME Typed, NoReentry, NEW w \in Worker, WorkerStep(w)
    PROVE  RunWalks(w)
<1> USE DEF rows, Mine, RunWalks
<1>. worker \in [Worker -> Invocation] /\ run \in [Attempt -> Run]
  BY DEF Typed, TypeOK
<1>. \A a \in Attempt : run[a] \in [status : Statuses, signal : Signals, approval : BOOLEAN, marked : BOOLEAN]
  BY Fields
<1>1. UNCHANGED run => RunWalks(w)
  OBVIOUS
<1>2. AskReview(w) => RunWalks(w)
  BY DEF AskReview, End, Invocation
<1>3. Intervene(w) => RunWalks(w)
  BY DEF Intervene, NoReentry
<1>4. ASSUME NEW b, b = worker[w].attempt, NEW status,
             \/ run' = [run EXCEPT ![b].status = status]
             \/ run' = [run EXCEPT ![b].signal = "none"]
             \/ run' = [run EXCEPT ![b] = SetStatus(@, status)]
             \/ run' = [run EXCEPT ![b] = Waiting(@)]
      PROVE  RunWalks(w)
  <2> SUFFICES ASSUME NEW a \in Attempt, a = b, run' # run
               PROVE  run'[a].approval => run[a].approval
    BY <1>4
  <2>1. run[a] \in Run
    OBVIOUS
  <2>2. \/ run'[a] = [run[a] EXCEPT !.status = status] \/ run'[a] = [run[a] EXCEPT !.signal = "none"]
        \/ run'[a] = SetStatus(run[a], status) \/ run'[a] = Waiting(run[a])
    BY <1>4
  <2>. QED
    BY <2>1, <2>2, StatusWritten
<1>5. \/ UNCHANGED run \/ AskReview(w) \/ Intervene(w)
      \/ \E status : \/ run' = [run EXCEPT ![worker[w].attempt].status = status]
                     \/ run' = [run EXCEPT ![worker[w].attempt].signal = "none"]
                     \/ run' = [run EXCEPT ![worker[w].attempt] = SetStatus(@, status)]
                     \/ run' = [run EXCEPT ![worker[w].attempt] = Waiting(@)]
  <2>1. CASE \/ RejectLane(w) \/ Deny(w) \/ AwaitApproval(w) \/ ConsumeSignal(w) \/ ApplySignal(w)
             \/ PassControl(w) \/ StartRunning(w) \/ Settle(w) \/ MarkLate(w)
    BY <2>1 DEF RejectLane, Deny, AwaitApproval, ConsumeSignal, ApplySignal, PassControl, StartRunning,
                Settle, MarkLate
  <2>2. CASE Begin(w)
    BY <2>2 DEF Begin
  <2>3. CASE \/ Overlap(w) \/ CancelStale(w) \/ Admit(w) \/ Allow(w) \/ BeginEffect(w) \/ LinkReceipt(w)
             \/ CheckDefinition(w) \/ Revoke(w) \/ Execute(w) \/ Perform(w) \/ CompleteEffect(w)
             \/ Raise(w) \/ FailToBegin(w) \/ HandleException(w) \/ Finish(w) \/ FinishForeign(w)
    BY <2>3 DEF Overlap, CancelStale, Admit, Allow, BeginEffect, LinkReceipt, CheckDefinition, Revoke,
                Execute, Perform, CompleteEffect, Raise, FailToBegin, HandleException, Finish, FinishForeign
  <2>. QED
    BY <2>1, <2>2, <2>3 DEF WorkerStep
<1>. QED
  BY <1>1, <1>2, <1>3, <1>4, <1>5

LEMMA StartsWalk ==
    ASSUME Typed, NEW w \in Worker, WorkerStep(w)
    PROVE  StartWalks(w)
<1> USE DEF rows, history, Mine, StartWalks
<1>1. Execute(w) => StartWalks(w)
  <2> SUFFICES ASSUME Execute(w), started' # started PROVE StartWalks(w)
    OBVIOUS
  <2>1. /\ started' = started \union {w} /\ worker[w].pc = "execute" /\ row.owner = worker[w].attempt
        /\ row' = Moved(row, "executing", TRUE) /\ Goto(w, "perform")
    BY DEF Execute, MayMove
  <2>2. row'.phase = "executing"
    BY <2>1, Fields DEF Moved, Typed, TypeOK
  <2>3. worker'[w].pc = "perform"
    BY <2>1 DEF Goto, Typed, TypeOK, Invocation
  <2>. QED
    BY <2>1, <2>2, <2>3
<1>2. UNCHANGED started \/ Execute(w)
  BY DEF WorkerStep, Begin, Overlap, CancelStale, Admit, RejectLane, Allow, AskReview, Deny,
         AwaitApproval, ConsumeSignal, ApplySignal, PassControl, StartRunning, BeginEffect, LinkReceipt,
         CheckDefinition, Revoke, Perform, Intervene, CompleteEffect, Raise, FailToBegin,
         HandleException, Settle, MarkLate, Finish, FinishForeign
<1>. QED
  BY <1>1, <1>2

(* Outside the executor approvals only disappear, and only runs that exist are written to. *)
RunsRest ==
    /\ started' = started
    /\ \A a \in Attempt :
          /\ run'[a].approval => run[a].approval
          /\ run'[a].status # "none" => run[a].status # "none" \/ run[a].approval

LEMMA OthersRest ==
    ASSUME Typed, Next, \A w \in Worker : ~WorkerStep(w)
    PROVE  RunsRest
<1> USE DEF rows, history, RunsRest
<1>. run \in [Attempt -> Run]
  BY DEF Typed, TypeOK
<1>. \A a \in Attempt : run[a] \in [status : Statuses, signal : Signals, approval : BOOLEAN, marked : BOOLEAN]
  BY Fields
<1>0. UNCHANGED started
  BY DEF Next, Tick, Kick, DropStale, Renew, Reconcile, MarkRun, LapseDelivery, ChangeDefinition, Restart,
         LapseReceipt, Cancel, Pause, Interrupt, Resume, Retry, Approve, RejectApproval, OperatorReads,
         OperatorMarks, OperatorSettlesReceipt, OperatorSettlesRow
<1>1. UNCHANGED run => RunsRest
  BY <1>0
<1>2. MarkRun \/ OperatorMarks => RunsRest
  <2> SUFFICES ASSUME MayWait(row, run[row.attempt]), row.attempt \in Attempt,
                      run' = [run EXCEPT ![row.attempt] = Waiting(@)]
               PROVE  RunsRest
    BY <1>1 DEF MarkRun, OperatorMarks
  <2>1. Waiting(run[row.attempt]).approval => run[row.attempt].approval
    BY StatusWritten
  <2>2. run[row.attempt].status # "none"
    BY DEF MayWait, OpenRuns
  <2>. QED
    BY <1>0, <2>1, <2>2
<1>3. Restart => RunsRest
  <2> SUFFICES ASSUME Restart, NEW a \in Attempt
               PROVE  /\ run'[a].approval => run[a].approval
                      /\ run'[a].status # "none" => run[a].status # "none"
    BY <1>0
  <2>1. \/ run'[a] = run[a]
        \/ run'[a] = SetStatus(run[a], "interrupted") /\ run[a].status \in OpenRuns
    BY DEF Restart
  <2>2. SetStatus(run[a], "interrupted").approval => run[a].approval
    BY StatusWritten
  <2>. QED
    BY <2>1, <2>2 DEF OpenRuns
<1>4. ASSUME NEW a \in Attempt, Cancel(a) \/ Pause(a) \/ Interrupt(a) \/ Resume(a) PROVE RunsRest
  <2>1. PICK status, signal : run' = [run EXCEPT ![a] = [SetStatus(run[a], status) EXCEPT !.signal = signal]]
    BY <1>4 DEF Cancel, Pause, Interrupt, Resume
  <2>2. run[a].status # "none"
    BY <1>4 DEF Cancel, Pause, Interrupt, Resume, Exists, OpenRuns, HeldRuns
  <2>3. [SetStatus(run[a], status) EXCEPT !.signal = signal].approval => run[a].approval
    BY StatusWritten
  <2>4. run'[a] = [SetStatus(run[a], status) EXCEPT !.signal = signal] /\ \A b \in Attempt \ {a} : run'[b] = run[b]
    BY <2>1
  <2>. QED
    BY <1>0, <2>2, <2>3, <2>4
<1>5. ASSUME NEW a \in Attempt, Retry(a) \/ RejectApproval(a) PROVE RunsRest
  BY <1>0, <1>5 DEF Retry, RejectApproval, Decidable
<1>6. ASSUME NEW a \in Attempt, Approve(a) PROVE RunsRest /\ run[a].approval /\ ~run'[a].approval
  BY <1>0, <1>6 DEF Approve, Decidable
<1>7. \/ UNCHANGED run \/ MarkRun \/ OperatorMarks \/ Restart
      \/ \E a \in Attempt : \/ Cancel(a) \/ Pause(a) \/ Interrupt(a) \/ Resume(a)
                             \/ Retry(a) \/ RejectApproval(a) \/ Approve(a)
  BY DEF Next, Tick, Kick, DropStale, Renew, Reconcile, LapseDelivery, LapseReceipt, ChangeDefinition,
         OperatorReads, OperatorSettlesReceipt, OperatorSettlesRow
<1>. QED
  BY <1>1, <1>2, <1>3, <1>4, <1>5, <1>6, <1>7

Guarded == Evidence /\ Once

(* A step of the executor hands its token on, spends it, or leaves it as an approval. *)
LEMMA WorkerOnce ==
    ASSUME Guarded, NoReentry, NEW w \in Worker, WorkerStep(w)
    PROVE  Once'
<1> USE DEF Mine, Once, Token
<1>. Typed /\ Attempted /\ Once /\ started \subseteq Worker
  BY DEF Guarded, Evidence, Typed, TypeOK
<1>. /\ row.attempt \in Nat /\ row.owner \in Nat
     /\ \A v \in Worker : worker[v].attempt \in Nat
     /\ \A a \in Attempt : a \in Nat
  BY Fields DEF Typed, TypeOK, Invocation
<1>. Walks(w) /\ RowWalks(w) /\ RunWalks(w) /\ StartWalks(w)
  BY WorkerWalks, RowsWalk, RunsWalk, StartsWalk DEF Typed, TypeOK
<1>0. /\ \A v \in Worker : worker'[v].attempt = worker[v].attempt
      /\ \A v \in Worker : worker'[v].pc \in Entering => worker[v].pc \in Entering
      /\ \A v \in Worker : v # w => worker'[v] = worker[v]
      /\ row'.attempt = row.attempt
      /\ worker[w].attempt \in Attempt /\ worker[w].attempt # 0
  BY Fields DEF Walks, RowWalks, Attempted
<1>1. \A v \in Worker : Token(v)' => Token(v)
  BY <1>0 DEF StartWalks, Entering
<1>2. OneToken'
  BY <1>0, <1>1 DEF OneToken
<1>3. ApprovalExcludes'
  <2> SUFFICES ASSUME NEW a \in Attempt, NEW v \in Worker, run'[a].approval, Token(v)', worker[v].attempt = a
               PROVE  FALSE
    BY <1>0 DEF ApprovalExcludes
  <2>1. a = worker[w].attempt /\ worker[w].pc = "guard" /\ worker'[w].pc = "review"
    BY <1>1 DEF ApprovalExcludes, RunWalks
  <2>2. Token(w)
    BY <2>1 DEF Entering
  <2>3. v = w
    BY <1>1, <2>1, <2>2 DEF OneToken
  <2>4. w \notin started
    BY <2>1 DEF BeganForGood, Entering
  <2>. QED
    BY <2>1, <2>3, <2>4 DEF StartWalks, Entering
<1>4. Numbered'
  BY <1>0 DEF Numbered, RowWalks, RunWalks
<1>5. row.owner = worker[w].attempt => worker[w].attempt = row.attempt
  BY <1>0 DEF Numbered
<1>6. BeganForGood'
  <2> SUFFICES ASSUME NEW v \in Worker, v \in started'
               PROVE  /\ worker[v].attempt = row.attempt /\ row'.phase \notin Early
                      /\ worker'[v].pc \notin Entering \union {"idle"}
    BY <1>0 DEF BeganForGood, StartWalks
  <2>1. CASE v \in started
    <3>1. worker[v].attempt = row.attempt /\ row.phase \notin Early /\ worker[v].pc \notin Entering \union {"idle"}
      BY <2>1 DEF BeganForGood
    <3>2. ~(worker[w].pc = "lane" /\ row.owner = worker[w].attempt)
      BY <1>5, <2>1, <3>1 DEF OneToken, Entering
    <3>. QED
      BY <1>0, <3>1, <3>2 DEF RowWalks, Walks
  <2>2. CASE v \notin started
    <3>1. v = w /\ worker'[w].pc = "perform" /\ row.owner = worker[w].attempt /\ row'.phase = "executing"
      BY <2>2 DEF StartWalks
    <3>. QED
      BY <1>5, <3>1 DEF Early, Entering
  <2>. QED
    BY <2>1, <2>2
<1>. QED
  BY <1>2, <1>3, <1>4, <1>6

(* Invocations that join an attempt: only an approval, which it spends, lets one enter. *)
Arrive(fresh) ==
    /\ fresh \in {{}} \union {{w} : w \in Worker}
    /\ \A v \in Worker \ fresh : \/ worker'[v] = worker[v]
                                 \/ /\ worker[v].pc # "idle" /\ worker'[v].pc = "gone"
                                    /\ worker'[v].attempt = worker[v].attempt
    /\ \A v \in fresh :
          /\ worker[v].pc = "idle" /\ worker'[v].pc # "idle"
          /\ worker'[v].attempt <= row.attempt /\ worker'[v].attempt \in Attempt
          /\ worker'[v].pc \in Entering => /\ run[worker'[v].attempt].approval
                                          /\ ~run'[worker'[v].attempt].approval

(* The tick claims for an attempt of its own; an approval becomes a token, a retry none. *)
LEMMA OthersOnce ==
    ASSUME Guarded, NoReentry, Next, \A w \in Worker : ~WorkerStep(w)
    PROVE  Once'
<1> USE DEF Mine, Once, Token
<1>. Typed /\ Attempted /\ Once /\ started \subseteq Worker
  BY DEF Guarded, Evidence, Typed, TypeOK
<1>. /\ row.attempt \in Nat /\ row.owner \in Nat
     /\ \A v \in Worker : worker[v].attempt \in Nat
     /\ \A a \in Attempt : a \in Nat
  BY Fields DEF Typed, TypeOK, Invocation
<1>. RunsRest
  BY OthersRest
<1>1. ASSUME Claims PROVE Once'
  <2>1. PICK w \in Worker : Enters(w, row.attempt + 1)
    BY <1>1, SpawnEnters DEF Claims, At, Typed, TypeOK
  <2>2. /\ row'.attempt = row.attempt + 1 /\ row'.owner = row.attempt + 1
    BY <1>1, Fields DEF Claims, Claimed, Typed, TypeOK
  <2>3. started = {} /\ started' = {}
    BY <1>1 DEF Claims, BeganForGood, Early, RunsRest
  <2>4. \A v \in Worker : v # w => worker'[v] = worker[v] /\ worker[v].attempt <= row.attempt
    BY <2>1 DEF Enters, Numbered
  <2>5. worker'[w].attempt = row.attempt + 1
    BY <2>1 DEF Enters
  <2>6. OneToken'
    BY <2>3, <2>4, <2>5 DEF OneToken
  <2>7. ApprovalExcludes'
    <3> SUFFICES ASSUME NEW a \in Attempt, NEW v \in Worker, run'[a].approval, Token(v)', worker'[v].attempt = a
                 PROVE  FALSE
      BY DEF ApprovalExcludes
    <3>1. run[a].approval /\ a <= row.attempt
      BY DEF RunsRest, Numbered
    <3>2. v # w
      BY <2>5, <3>1
    <3>. QED
      BY <2>3, <2>4, <3>1, <3>2 DEF ApprovalExcludes
  <2>8. Numbered'
    BY <2>2, <2>4, <2>5 DEF Numbered, RunsRest
  <2>9. BeganForGood'
    BY <2>3 DEF BeganForGood
  <2>. QED
    BY <2>6, <2>7, <2>8, <2>9
<1>2. ASSUME RowRests, NEW fresh, Arrive(fresh)
      PROVE  Once'
  <2> USE <1>2 DEF Arrive
  <2>1. \A v \in Worker \ fresh : (Token(v)' => Token(v)) /\ worker'[v].attempt = worker[v].attempt
    BY <1>2 DEF RunsRest, Entering
  <2>2. \A v \in fresh : v \notin started
    BY <1>2 DEF BeganForGood
  <2>3. \A v \in fresh : Token(v)' => /\ run[worker'[v].attempt].approval
                                      /\ ~run'[worker'[v].attempt].approval
    BY <1>2, <2>2 DEF RunsRest
  <2>4. OneToken'
    <3> SUFFICES ASSUME NEW v \in Worker, NEW u \in Worker, Token(v)', Token(u)',
                        worker'[v].attempt = worker'[u].attempt
                 PROVE  v = u
      BY DEF OneToken
    <3>1. CASE v \notin fresh /\ u \notin fresh
      BY <2>1, <3>1 DEF OneToken
    <3>2. CASE v \in fresh /\ u \in fresh
      BY <1>2, <3>2
    <3>3. ASSUME NEW x \in fresh, NEW y \in Worker \ fresh, Token(x)', Token(y)',
                 worker'[x].attempt = worker'[y].attempt
          PROVE  FALSE
      <4>1. run[worker'[x].attempt].approval /\ worker'[x].attempt \in Attempt
        BY <1>2, <2>3, <3>3
      <4>2. Token(y) /\ worker[y].attempt = worker'[x].attempt
        BY <2>1, <3>3
      <4>. QED
        BY <4>1, <4>2 DEF ApprovalExcludes
    <3>. QED
      BY <3>1, <3>2, <3>3
  <2>5. ApprovalExcludes'
    <3> SUFFICES ASSUME NEW a \in Attempt, NEW v \in Worker, run'[a].approval, Token(v)', worker'[v].attempt = a
                 PROVE  FALSE
      BY DEF ApprovalExcludes
    <3>1. v \notin fresh
      BY <2>3
    <3>2. run[a].approval
      BY DEF RunsRest
    <3>. QED
      BY <2>1, <3>1, <3>2 DEF ApprovalExcludes
  <2>6. Numbered'
    <3>1. row'.attempt = row.attempt /\ row'.owner \in {0, row'.attempt}
      BY <1>2 DEF RowRests, Numbered
    <3>2. \A v \in Worker : worker'[v].attempt <= row.attempt
      BY <1>2, <2>1 DEF Numbered
    <3>3. \A a \in Attempt : run'[a].status # "none" \/ run'[a].approval => a <= row.attempt
      BY DEF RunsRest, Numbered
    <3>. QED
      BY <3>1, <3>2, <3>3 DEF Numbered
  <2>7. BeganForGood'
    <3> SUFFICES ASSUME NEW v \in Worker, v \in started
                 PROVE  /\ worker'[v].attempt = row'.attempt /\ row'.phase \notin Early
                        /\ worker'[v].pc \notin Entering \union {"idle"}
      BY DEF BeganForGood, RunsRest
    <3>1. worker[v].attempt = row.attempt /\ row.phase \notin Early /\ worker[v].pc \notin Entering \union {"idle"}
      BY DEF BeganForGood
    <3>2. v \notin fresh
      BY <2>2
    <3>3. worker'[v] = worker[v] \/ (worker'[v].pc = "gone" /\ worker'[v].attempt = worker[v].attempt)
      BY <1>2, <3>2
    <3>. QED
      BY <1>2, <3>1, <3>3 DEF RowRests, Entering
  <2>. QED
    BY <2>4, <2>5, <2>6, <2>7
<1>3. CASE RowRests /\ WorkersRest
  <2>1. Arrive({})
    BY <1>3 DEF WorkersRest, Arrive
  <2>. QED
    BY <1>2, <1>3, <2>1
<1>4. ASSUME RowRests, NEW a \in Attempt, NEW w \in Worker, Enters(w, a),
             Resume(a) \/ (Retry(a) /\ worker'[w].pc = "foreign") \/ Approve(a)
      PROVE  Once'
  <2>1. (Retry(a) /\ worker'[w].pc = "foreign") \/ Approve(a)
    BY <1>4 DEF Resume, NoReentry
  <2>2. run[a].status # "none" \/ run[a].approval
    BY <2>1 DEF Retry, Approve, Exists, Decidable
  <2>3. a <= row.attempt
    BY <2>2 DEF Numbered
  <2>4. worker'[w].pc \in Entering => run[a].approval /\ ~run'[a].approval
    <3>1. Approve(a) => run[a].approval /\ ~run'[a].approval
      <4>1. run \in [Attempt -> [status : Statuses, signal : Signals, approval : BOOLEAN, marked : BOOLEAN]]
        BY Fields DEF Typed, TypeOK
      <4>. QED
        BY <4>1 DEF Approve, Decidable
    <3>. QED
      BY <2>1, <3>1 DEF Entering
  <2>5. /\ worker[w].pc = "idle" /\ worker'[w].pc # "idle" /\ worker'[w].attempt = a
        /\ \A v \in Worker \ {w} : worker'[v] = worker[v]
    BY <1>4 DEF Enters
  <2>6. Arrive({w})
    BY <2>3, <2>4, <2>5 DEF Arrive
  <2>. QED
    BY <1>2, <1>4, <2>6
<1>. QED
  BY <1>1, <1>3, <1>4, RowsRest, OthersEnter

LEMMA InitGuarded == Init => Guarded
<1> SUFFICES ASSUME Init PROVE Guarded
  OBVIOUS
<1>1. Evidence
  BY InitTyped DEF Init, Evidence, Attempted, CompletedHasEvidence, Enqueued, Idle, At
<1>2. Once
  BY Fields DEF Init, Once, OneToken, ApprovalExcludes, Numbered, BeganForGood, Token, Mine, Enqueued, Idle,
         At, NoRun, Entering
<1>. QED
  BY <1>1, <1>2 DEF Guarded

LEMMA StepGuarded == NoReentry /\ Guarded /\ [Next]_vars => Guarded'
<1> SUFFICES ASSUME NoReentry, Guarded, [Next]_vars PROVE Guarded'
  OBVIOUS
<1>1. Evidence'
  BY StepEvidence DEF Guarded
<1>2. ASSUME UNCHANGED vars PROVE Once'
  BY <1>2 DEF vars, Guarded, Once, OneToken, ApprovalExcludes, Numbered, BeganForGood, Token, Mine
<1>3. ASSUME Next PROVE Once'
  BY <1>3, WorkerOnce, OthersOnce
<1>. QED
  BY <1>1, <1>2, <1>3 DEF Guarded

(***************************************************************************)
(* Where no attempt is sent back through the guard by a resume or by an    *)
(* approval half way, the action of a delivery begins at most once,        *)
(* however leases lapse, restarts and reviews come, and late invocations   *)
(* of earlier attempts go on.                                              *)
(***************************************************************************)
THEOREM BeginsOnce == NoReentry => (Spec => []AtMostOnce)
<1> SUFFICES ASSUME NoReentry PROVE Spec => []AtMostOnce
  OBVIOUS
<1>1. Guarded /\ [Next]_vars => Guarded'
  BY StepGuarded
<1>2. Guarded => AtMostOnce
  BY DEF Guarded, Evidence, Typed, TypeOK, Once, OneToken, BeganForGood, AtMostOnce, Token
<1>. QED
  BY <1>1, <1>2, InitGuarded, PTL DEF Spec

-----------------------------------------------------------------------------
(***************************************************************************)
(* OutcomeIsProven is not inductive either: it needs to know that no other  *)
(* invocation of the attempt has anything left to report, and that the one *)
(* which began the action still owns the receipt's claim, or has settled   *)
(* it, for as long as the row has an owner.                                *)
(***************************************************************************)
Stands(v) ==
    \/ worker[v].pc \in {"idle", "gone"}
    \/ worker[v].pc \in {"review", "confirm", "finish"} /\ worker[v].result = "held"

Alone ==
    /\ \A v, w \in Worker : Token(w) /\ v # w /\ Mine(v) = Mine(w) => Stands(v)
    /\ \A a \in Attempt, v \in Worker : run[a].approval /\ Mine(v) = a => Stands(v)

Owns(w) == OwnedClaim(receipt[Mine(w)], w)

Proven(a) == receipt[a].state \in {"completed", "failed"}

(* On its way to executing() an invocation keeps the claim as long as the row is its own. *)
Arm(w) ==
    worker[w].pc \in {"check", "execute"} \/ (worker[w].pc = "link" /\ worker[w].effect = "own") =>
        /\ worker[w].effect = "own"
        /\ row.owner = Mine(w) => Owns(w)

Acting == {"perform", "complete", "except"}

Reporting == Acting \union {"after", "controlled", "settle", "mark", "finish", "gone"}

Back(w) ==
    /\ worker[w].pc \in Reporting
    /\ worker[w].pc \in Acting \union {"after"} => worker[w].effect = "own"
    /\ row.owner # 0 => Proven(Mine(w)) \/ (Owns(w) /\ worker[w].pc \in Acting \union {"gone"})
    /\ row.phase = "failed" /\ ~row.reconciled => Proven(Mine(w))

Armed == \A w \in Worker : Arm(w)

Backed == \A w \in started : Back(w)

(* Nothing but the tick and an approval lets an invocation in, and only its end ends an action. *)
Undisturbed == ~Agent /\ "retry" \notin Commands

LEMMA UndisturbedEnters == Undisturbed => NoReentry
<1> SUFFICES ASSUME Undisturbed PROVE NoReentry
  OBVIOUS
<1>1. ~Agent /\ ~Intervenes
  BY ConfigAssumption DEF Undisturbed
<1>2. Agent => "resume" \notin Commands
  BY <1>1
<1>. QED
  BY <1>1, <1>2 DEF NoReentry

(* What a step of the executor does to the receipts. *)
ReceiptWalks(w) == \A a \in Attempt :
    \/ receipt'[a] = receipt[a]
    \/ a = worker[w].attempt /\ worker[w].pc = "claim"
    \/ /\ a = worker[w].attempt /\ OwnedClaim(receipt[a], w)
       /\ receipt'[a].state \in {"completed", "failed"}

LEMMA ReceiptsWalk ==
    ASSUME Typed, NEW w \in Worker, WorkerStep(w)
    PROVE  ReceiptWalks(w)
<1> USE DEF rows, Mine, ReceiptWalks
<1>. receipt \in [Attempt -> Receipt]
  BY DEF Typed, TypeOK
<1>1. UNCHANGED receipt => ReceiptWalks(w)
  OBVIOUS
<1>2. BeginEffect(w) => ReceiptWalks(w)
  BY DEF BeginEffect
<1>3. ASSUME NEW outcome \in {"completed", "failed"},
             receipt' = [receipt EXCEPT ![worker[w].attempt] = AfterReport(@, w, outcome)]
      PROVE  ReceiptWalks(w)
  BY <1>3 DEF AfterReport, Settled
<1>4. UNCHANGED receipt \/ BeginEffect(w) \/ CompleteEffect(w) \/ HandleException(w)
  BY DEF WorkerStep, Begin, Overlap, CancelStale, Admit, RejectLane, Allow, AskReview, Deny,
         AwaitApproval, ConsumeSignal, ApplySignal, PassControl, StartRunning, LinkReceipt,
         CheckDefinition, Revoke, Execute, Perform, Intervene, Raise, FailToBegin, Settle, MarkLate,
         Finish, FinishForeign
<1>. QED
  BY <1>1, <1>2, <1>3, <1>4 DEF CompleteEffect, HandleException

(* Outside the executor a claim is taken with the row, and an operator settles what was open. *)
ReceiptRests == \A a \in Attempt :
    \/ receipt'[a].state = receipt[a].state /\ receipt'[a].owner = receipt[a].owner
    \/ a = row.attempt /\ receipt[a].state = "claimed" /\ row'.owner = 0
    \/ receipt[a].state = "indeterminate" /\ receipt'[a].state \in {"completed", "failed"}

LEMMA ReceiptsRest ==
    ASSUME Typed, Next, \A w \in Worker : ~WorkerStep(w)
    PROVE  ReceiptRests
<1> USE DEF rows, ReceiptRests
<1>. /\ receipt \in [Attempt -> Receipt] /\ row \in Delivery
     /\ operator.outcome \in {"completed", "failed"}
  BY DEF Typed, TypeOK
<1>1. UNCHANGED receipt => ReceiptRests
  OBVIOUS
<1>2. Reconcile => ReceiptRests
  <2> SUFFICES ASSUME Reconcile PROVE ReceiptRests
    OBVIOUS
  <2>1. row'.owner = 0
    BY Fields DEF Reconcile, Released
  <2>2. PICK target : receipt' = [receipt EXCEPT ![row.attempt] = ReceiptAfterReconcile(row, @, target)]
    BY DEF Reconcile
  <2>. QED
    BY <2>1, <2>2 DEF ReceiptAfterReconcile
<1>3. ASSUME NEW a \in Attempt, LapseReceipt(a) PROVE ReceiptRests
  BY <1>3 DEF LapseReceipt, Receipt
<1>4. OperatorSettlesReceipt => ReceiptRests
  BY DEF OperatorSettlesReceipt, AfterReconcile, Settled
<1>5. UNCHANGED receipt \/ Reconcile \/ (\E b \in Attempt : LapseReceipt(b)) \/ OperatorSettlesReceipt
  BY DEF Next, Tick, Kick, DropStale, Renew, MarkRun, LapseDelivery, ChangeDefinition, Restart,
         Cancel, Pause, Interrupt, Resume, Retry, Approve, RejectApproval, OperatorReads,
         OperatorMarks, OperatorSettlesRow
<1>. QED
  BY <1>1, <1>2, <1>3, <1>4, <1>5

(* Which steps of the executor end a delivery as failed or as cancelled. *)
RowEnds(w) ==
    LET reports == row.owner = worker[w].attempt  early == worker[w].pc \in {"begin", "foreign"} IN
    /\ row'.phase = "failed" =>
          \/ row.phase = "failed" \/ Proven(row.attempt)
          \/ reports /\ (early \/ (worker[w].pc = "finish" /\ worker[w].result # "held"))
    /\ row'.phase = "cancelled" =>
          \/ row.phase \in {"cancelled", "admitted"} \/ worker[w].pc = "stale"
          \/ /\ reports
             /\ \/ early
                \/ worker[w].pc = "finish" /\ "cancelled" \in {worker[w].result, run[row.attempt].status}

LEMMA FinishedEnds ==
    ASSUME row \in Delivery, NEW w, NEW result, row' = Finished(w, result)
    PROVE  /\ row'.phase = "failed" =>
                 row.phase = "failed" \/ (row.owner = worker[w].attempt /\ result # "held")
           /\ row'.phase = "cancelled" =>
                 \/ row.phase = "cancelled"
                 \/ row.owner = worker[w].attempt /\ "cancelled" \in {result, run[row.attempt].status}
<1>1. CASE row' = row
  BY <1>1 DEF LivePhases, LeasedPhases
<1>2. CASE row' # row
  <2> DEFINE to == FinishTarget(row, run[row.attempt], receipt[row.attempt], result, worker[w].retryable)
  <2>1. row' = Moved(row, to, FALSE) /\ row.owner = worker[w].attempt
    BY <1>2 DEF Finished, Mine
  <2>2. row'.phase = to
    BY <2>1, Fields DEF Moved
  <2>3. to = "failed" => result # "held"
    BY DEF FinishTarget
  <2>4. to = "cancelled" => "cancelled" \in {result, run[row.attempt].status}
    BY DEF FinishTarget
  <2>. QED
    BY <2>1, <2>2, <2>3, <2>4
<1>. QED
  BY <1>1, <1>2

LEMMA RowsEnd ==
    ASSUME Typed, NEW w \in Worker, WorkerStep(w)
    PROVE  RowEnds(w)
<1>. row \in Delivery
  BY DEF Typed, TypeOK
<1> USE Fields DEF RowEnds, rows, Mine
<1>1. CancelStale(w) => RowEnds(w)
  BY DEF CancelStale, Revoked
<1>2. ASSUME Overlap(w) \/ FinishForeign(w) PROVE RowEnds(w)
  <2>1. PICK result \in {"rejected", "other"} : row' = Finished(w, result)
    BY <1>2 DEF Overlap, FinishForeign
  <2>2. worker[w].pc \in {"begin", "foreign"}
    BY <1>2 DEF Overlap, FinishForeign
  <2>. QED
    BY <2>1, <2>2, FinishedEnds
<1>3. ASSUME Finish(w) PROVE RowEnds(w)
  <2>1. row' = Finished(w, worker[w].result) /\ worker[w].pc = "finish"
    BY <1>3 DEF Finish
  <2>. QED
    BY <2>1, FinishedEnds
<1>4. ASSUME Admit(w) \/ LinkReceipt(w) \/ Execute(w), row' # row PROVE RowEnds(w)
  <2>1. PICK to \in {"admitted", "executing"}, link \in BOOLEAN : row' = Moved(row, to, link)
    BY <1>4 DEF Admit, LinkReceipt, Execute
  <2>2. row'.phase = to
    BY <2>1 DEF Moved
  <2>. QED
    BY <2>2
<1>5. ASSUME Revoke(w), row' # row PROVE RowEnds(w)
  <2>1. row' = Moved(row, "cancelled", FALSE) /\ row.phase = "admitted"
    BY <1>5 DEF Revoke, MayMove
  <2>2. row'.phase = "cancelled"
    BY <2>1 DEF Moved
  <2>. QED
    BY <2>1, <2>2
<1>6. ASSUME Settle(w), row' # row PROVE RowEnds(w)
  <2>1. row' = Parked(row, receipt[row.attempt])
    BY <1>6 DEF Settle, BindingConflict
  <2>2. row'.phase = "unknown" \/ (row'.phase \in {"completed", "failed"} /\ Proven(row.attempt))
    BY <2>1 DEF Parked, Proven
  <2>. QED
    BY <2>2
<1>7. UNCHANGED row => RowEnds(w)
  OBVIOUS
<1>8. \/ CancelStale(w) \/ Overlap(w) \/ Finish(w) \/ FinishForeign(w) \/ Admit(w) \/ LinkReceipt(w)
      \/ Revoke(w) \/ Execute(w) \/ Settle(w) \/ UNCHANGED row
  BY DEF WorkerStep, Begin, RejectLane, Allow, AskReview, Deny, AwaitApproval, ConsumeSignal,
         ApplySignal, PassControl, StartRunning, BeginEffect, CheckDefinition, Perform, Intervene,
         CompleteEffect, Raise, FailToBegin, HandleException, MarkLate
<1>. QED
  BY <1>1, <1>2, <1>3, <1>4, <1>5, <1>6, <1>7, <1>8

(* And which steps outside the executor do. *)
RowEndsElsewhere ==
    /\ row'.phase = "failed" /\ ~row'.reconciled =>
          (row.phase = "failed" /\ ~row.reconciled) \/ Proven(row.attempt)
    /\ row'.phase = "cancelled" =>
          row.phase \in {"cancelled", "pending"} \/ run[row.attempt].status = "cancelled"

LEMMA RowsEndElsewhere ==
    ASSUME Typed, Next, \A w \in Worker : ~WorkerStep(w)
    PROVE  RowEndsElsewhere
<1>. row \in Delivery /\ operator.outcome \in {"completed", "failed"}
  BY DEF Typed, TypeOK
<1> USE Fields DEF RowEndsElsewhere, Proven, rows
<1>1. UNCHANGED row => RowEndsElsewhere
  OBVIOUS
<1>2. ASSUME Kick PROVE RowEndsElsewhere
  <2>1. row.phase = "pending"
    BY <1>2 DEF Kick
  <2>2. row' = Claimed(row) \/ \E to \in {"cancelled", "unknown"} : row' = [row EXCEPT !.phase = to]
    BY <1>2 DEF Kick
  <2>3. row'.phase # "failed"
    BY <2>2, Fields DEF Claimed
  <2>. QED
    BY <2>1, <2>3
<1>3. DropStale => RowEndsElsewhere
  BY DEF DropStale, Revoked
<1>4. Renew \/ LapseDelivery => RowEndsElsewhere
  BY DEF Renew, LapseDelivery
<1>5. ASSUME Reconcile PROVE RowEndsElsewhere
  <2> DEFINE to == ReconcileTarget(row, run[row.attempt], receipt[row.attempt])
  <2>1. row'.phase = to
    BY <1>5 DEF Reconcile, Released
  <2>2. to = "failed" => receipt[row.attempt].state = "failed"
    BY DEF ReconcileTarget, Resolved
  <2>3. to = "cancelled" => run[row.attempt].status = "cancelled"
    BY DEF ReconcileTarget, Resolved
  <2>. QED
    BY <2>1, <2>2, <2>3
<1>6. OperatorSettlesRow => RowEndsElsewhere
  BY DEF OperatorSettlesRow
<1>7. \/ UNCHANGED row \/ Kick \/ DropStale \/ Renew \/ Reconcile \/ LapseDelivery \/ OperatorSettlesRow
  BY DEF Next, Tick, MarkRun, ChangeDefinition, Restart, LapseReceipt, Cancel, Pause, Interrupt, Resume,
         Retry, Approve, RejectApproval, OperatorReads, OperatorMarks, OperatorSettlesReceipt
<1>. QED
  BY <1>1, <1>2, <1>3, <1>4, <1>5, <1>6, <1>7

(* Where the moves of an invocation take it, and what they leave of its locals. *)
LEMMA GotoArrives ==
    ASSUME worker \in [Worker -> Invocation], NEW w \in Worker, NEW step, Goto(w, step)
    PROVE  /\ worker'[w].pc = step
           /\ worker'[w].result = worker[w].result /\ worker'[w].effect = worker[w].effect
  BY DEF Goto, Invocation

LEMMA EndArrives ==
    ASSUME worker \in [Worker -> Invocation], NEW w \in Worker, NEW result, NEW step, End(w, result, step)
    PROVE  worker'[w].pc = step /\ worker'[w].result = result /\ worker'[w].effect = worker[w].effect
  BY DEF End, Invocation

LEMMA BeginArrives ==
    ASSUME worker \in [Worker -> Invocation], NEW w \in Worker, Begin(w)
    PROVE  worker'[w].pc \in {"settle", "stale", "except", "lane"}
<1>1. \/ Cancelled(w) \/ Goto(w, "stale")
      \/ worker' = [worker EXCEPT ![w].pc = "except", ![w].retryable = FALSE]
      \/ worker' = [worker EXCEPT ![w].pc = "lane", ![w].bound = IF row.linked THEN "linked" ELSE "plain"]
  BY DEF Begin
<1>2. CASE Cancelled(w) \/ Goto(w, "stale")
  BY <1>2, GotoArrives, EndArrives DEF Cancelled
<1>. QED
  BY <1>1, <1>2 DEF Invocation

LEMMA LinkArrives ==
    ASSUME Typed, NEW w \in Worker, LinkReceipt(w)
    PROVE  /\ worker[w].pc = "link" /\ receipt' = receipt
           /\ worker'[w].pc \in {"check", "settle"} /\ worker'[w].effect = worker[w].effect
           /\ worker'[w].pc = "check" => worker[w].effect = "own"
<1>. worker \in [Worker -> Invocation] /\ worker[w] \in Invocation /\ Reliable(worker[w])
  BY DEF Typed, TypeOK, Locals
<1>1. worker[w].pc = "link" /\ receipt' = receipt /\ worker[w].effect \in {"own", "done", "open"}
  BY DEF LinkReceipt, Reliable, Invocation
<1>2. \/ worker[w].effect = "own" /\ Goto(w, "check")
      \/ Goto(w, "settle") \/ End(w, "failed", "settle")
  BY <1>1 DEF LinkReceipt
<1>. QED
  BY <1>1, <1>2, GotoArrives, EndArrives

LEMMA ClaimArrives ==
    ASSUME worker \in [Worker -> Invocation], NEW w \in Worker, BeginEffect(w)
    PROVE  worker'[w].pc = "link"
<1>1. PICK effect : worker' = [worker EXCEPT ![w].pc = "link", ![w].effect = effect]
  BY Zenon DEF BeginEffect
<1>. QED
  BY <1>1 DEF Invocation

LEMMA CheckArrives ==
    ASSUME worker \in [Worker -> Invocation], NEW w \in Worker, CheckDefinition(w)
    PROVE  worker'[w].pc \in {"execute", "revoke"} /\ worker'[w].effect = worker[w].effect
<1>1. PICK step \in {"execute", "revoke"} : Goto(w, step)
  BY DEF CheckDefinition
<1>. QED
  BY <1>1, GotoArrives

LEMMA RaiseArrives ==
    ASSUME worker \in [Worker -> Invocation], NEW w \in Worker, Raise(w)
    PROVE  /\ worker'[w].pc = "except" /\ worker'[w].result = worker[w].result
           /\ worker[w].pc # "link" => worker'[w].effect = worker[w].effect
<1>1. PICK retryable :
         worker' = [worker EXCEPT ![w].pc = "except", ![w].retryable = retryable,
                                  ![w].effect = IF worker[w].pc = "link" THEN "none" ELSE @]
  BY DEF Raise
<1>. QED
  BY <1>1 DEF Invocation

(* An invocation that stood aside for a review goes on standing aside. *)
LEMMA StandsOn ==
    ASSUME Typed, NEW w \in Worker, WorkerStep(w), Stands(w)
    PROVE  Stands(w)'
<1>. worker \in [Worker -> Invocation]
  BY DEF Typed, TypeOK
<1>1. AwaitApproval(w) \/ Finish(w)
  <2>1. worker[w].pc \in {"idle", "gone", "review", "confirm", "finish"}
    BY DEF Stands
  <2>. QED
    BY <2>1 DEF WorkerStep, Begin, Overlap, CancelStale, Admit, RejectLane, Allow, AskReview, Deny,
         ConsumeSignal, ApplySignal, PassControl, StartRunning, BeginEffect, LinkReceipt,
         CheckDefinition, Revoke, Execute, Perform, Intervene, CompleteEffect, Raise, FailToBegin,
         HandleException, Settle, MarkLate, FinishForeign
<1>2. CASE AwaitApproval(w)
  <2>1. worker[w].pc \in {"review", "confirm"} /\ worker[w].result = "held"
    BY <1>2 DEF AwaitApproval, Stands
  <2>2. worker'[w].pc \in {"confirm", "finish"} /\ worker'[w].result = worker[w].result
    BY <1>2 DEF AwaitApproval, Goto, Invocation
  <2>. QED
    BY <2>1, <2>2 DEF Stands
<1>3. CASE Finish(w)
  BY <1>3 DEF Finish, Ended, At, Stands
<1>. QED
  BY <1>1, <1>2, <1>3

(* The invocation that asks for the review is the one that stands aside for it. *)
LEMMA AskerStands ==
    ASSUME Typed, NEW w \in Worker, WorkerStep(w), worker[w].pc = "guard", worker'[w].pc = "review"
    PROVE  Stands(w)'
<1>. worker \in [Worker -> Invocation]
  BY DEF Typed, TypeOK
<1>1. Allow(w) \/ AskReview(w) \/ Deny(w) \/ Raise(w)
  BY DEF WorkerStep, Begin, Overlap, CancelStale, Admit, RejectLane, AwaitApproval,
         ConsumeSignal, ApplySignal, PassControl, StartRunning, BeginEffect, LinkReceipt,
         CheckDefinition, Revoke, Execute, Perform, Intervene, CompleteEffect, FailToBegin,
         HandleException, Settle, MarkLate, Finish, FinishForeign
<1>2. ~Allow(w) /\ ~Deny(w) /\ ~Raise(w)
  <2>1. ~Allow(w) /\ ~Deny(w)
    BY GotoArrives, EndArrives DEF Allow, Deny
  <2>. QED
    BY <2>1, RaiseArrives
<1>3. worker'[w].result = "held"
  BY <1>1, <1>2, GotoArrives, EndArrives DEF AskReview
<1>. QED
  BY <1>3 DEF Stands

LEMMA WorkerAlone ==
    ASSUME Guarded, Alone, NoReentry, NEW w \in Worker, WorkerStep(w)
    PROVE  Alone'
<1> USE DEF Mine, Token
<1>. Typed /\ Attempted /\ Once /\ started \subseteq Worker
  BY DEF Guarded, Evidence, Typed, TypeOK
<1>. Walks(w) /\ RunWalks(w) /\ StartWalks(w)
  BY WorkerWalks, RunsWalk, StartsWalk
<1>0. /\ \A v \in Worker : worker'[v].attempt = worker[v].attempt
      /\ \A v \in Worker : worker'[v].pc \in Entering => worker[v].pc \in Entering
      /\ \A v \in Worker : v # w => worker'[v] = worker[v]
  BY DEF Walks
<1>1. \A v \in Worker : Token(v)' => Token(v)
  BY <1>0 DEF StartWalks, Entering
<1>2. \A v \in Worker : Stands(v) => Stands(v)'
  BY <1>0, StandsOn DEF Stands
<1>3. ASSUME NEW a \in Attempt, NEW v \in Worker, run'[a].approval, worker[v].attempt = a
      PROVE  Stands(v)'
  <2>1. CASE run[a].approval
    BY <1>2, <1>3, <2>1 DEF Alone
  <2>2. CASE ~run[a].approval
    <3>1. a = worker[w].attempt /\ worker[w].pc = "guard" /\ worker'[w].pc = "review"
      BY <1>3, <2>2 DEF RunWalks
    <3>2. CASE v = w
      BY <3>1, <3>2, AskerStands
    <3>3. CASE v # w
      <4>1. Token(w)
        BY <3>1 DEF Entering
      <4>. QED
        BY <1>2, <1>3, <3>1, <3>3, <4>1 DEF Alone
    <3>. QED
      BY <3>2, <3>3
  <2>. QED
    BY <2>1, <2>2
<1>4. ASSUME NEW u \in Worker, NEW v \in Worker, Token(v)', u # v, worker[u].attempt = worker[v].attempt
      PROVE  Stands(u)'
  BY <1>1, <1>2, <1>4 DEF Alone
<1>. QED
  BY <1>0, <1>3, <1>4 DEF Alone

(* Only an approval lets an invocation into an attempt that others have been in. *)
LEMMA OthersAlone ==
    ASSUME Guarded, Alone, Undisturbed, Next, \A w \in Worker : ~WorkerStep(w)
    PROVE  Alone'
<1> USE DEF Mine, Token
<1>. Typed /\ Attempted /\ Once /\ started \subseteq Worker
  BY DEF Guarded, Evidence, Typed, TypeOK
<1>. /\ row.attempt \in Nat
     /\ \A v \in Worker : worker[v].attempt \in Nat
     /\ \A a \in Attempt : a \in Nat
  BY Fields DEF Typed, TypeOK, Invocation
<1>. RunsRest
  BY OthersRest
<1>1. ASSUME WorkersRest PROVE Alone'
  <2>1. \A v \in Worker : (Token(v)' => Token(v)) /\ worker'[v].attempt = worker[v].attempt
    BY <1>1 DEF WorkersRest, RunsRest, Entering
  <2>2. \A v \in Worker : Stands(v) => Stands(v)'
    BY <1>1 DEF WorkersRest, Stands
  <2>. QED
    BY <2>1, <2>2 DEF Alone, RunsRest
<1>2. ASSUME NEW w \in Worker, NEW a \in Attempt, Enters(w, a), ~run'[a].approval,
             \A v \in Worker \ {w} : worker[v].attempt = a => Stands(v) /\ ~Token(v)
      PROVE  Alone'
  <2>1. \A v \in Worker \ {w} : /\ worker'[v] = worker[v]
                                /\ Token(v)' <=> Token(v)
                                /\ Stands(v)' <=> Stands(v)
    BY <1>2 DEF Enters, RunsRest, Stands
  <2>2. worker'[w].attempt = a
    BY <1>2 DEF Enters
  <2>3. ASSUME NEW u \in Worker, NEW v \in Worker, Token(v)', u # v, worker'[u].attempt = worker'[v].attempt
        PROVE  Stands(u)'
    BY <1>2, <2>1, <2>2, <2>3 DEF Alone
  <2>4. ASSUME NEW b \in Attempt, NEW v \in Worker, run'[b].approval, worker'[v].attempt = b
        PROVE  Stands(v)'
    BY <1>2, <2>1, <2>2, <2>4 DEF Alone, RunsRest
  <2>. QED
    BY <2>3, <2>4 DEF Alone
<1>3. ASSUME Claims, NEW w \in Worker, Enters(w, row.attempt + 1) PROVE Alone'
  <2>1. row.attempt + 1 \in Attempt
    BY <1>3, Fields DEF Claims
  <2>2. \A v \in Worker : worker[v].attempt # row.attempt + 1
    BY DEF Once, Numbered
  <2>3. ~run'[row.attempt + 1].approval
    BY <2>1 DEF Once, Numbered, RunsRest
  <2>. QED
    BY <1>2, <1>3, <2>1, <2>2, <2>3
<1>4. ASSUME NEW w \in Worker, NEW a \in Attempt, Enters(w, a), Approve(a) PROVE Alone'
  <2>1. run[a].approval /\ ~run'[a].approval
    <3>1. run \in [Attempt -> [status : Statuses, signal : Signals, approval : BOOLEAN, marked : BOOLEAN]]
      BY Fields DEF Typed, TypeOK
    <3>. QED
      BY <1>4, <3>1 DEF Approve, Decidable
  <2>. QED
    BY <1>2, <1>4, <2>1 DEF Alone, Once, ApprovalExcludes
<1>5. \A a \in Attempt : ~Resume(a) /\ ~Retry(a)
  BY DEF Undisturbed, Resume, Retry
<1>. QED
  BY <1>1, <1>3, <1>4, <1>5, OthersEnter

(* Only five steps lead to where an invocation is armed, sent away as stale or stopped. *)
Elsewhere(w) == worker'[w].pc \notin {"link", "check", "execute", "stale", "controlled"}

LEMMA GoneElsewhere ==
    ASSUME worker \in [Worker -> Invocation], NEW w \in Worker, NEW step, NEW result,
           step \notin {"link", "check", "execute", "stale", "controlled"}, Goto(w, step) \/ End(w, result, step)
    PROVE  Elsewhere(w)
  BY GotoArrives, EndArrives DEF Elsewhere

LEMMA ElsewhereSteps ==
    ASSUME worker \in [Worker -> Invocation], NEW w \in Worker, WorkerStep(w),
           ~Begin(w), ~ConsumeSignal(w), ~BeginEffect(w), ~LinkReceipt(w),
           ~CheckDefinition(w)
    PROVE  Elsewhere(w)
<1>1. Overlap(w) \/ Finish(w) \/ FinishForeign(w) => Elsewhere(w)
  BY DEF Overlap, Finish, FinishForeign, Ended, At, Elsewhere
<1>2. Raise(w) => Elsewhere(w)
  BY RaiseArrives DEF Elsewhere
<1>3. Settle(w) \/ MarkLate(w) => Elsewhere(w)
  BY DEF Settle, MarkLate, Conclude, Elsewhere, Invocation
<1>4. CancelStale(w) => Elsewhere(w)
  BY GoneElsewhere DEF CancelStale, Cancelled
<1>5. Admit(w) => Elsewhere(w)
  BY GoneElsewhere DEF Admit, Cancelled
<1>6. RejectLane(w) => Elsewhere(w)
  BY GoneElsewhere DEF RejectLane
<1>7. Allow(w) => Elsewhere(w)
  BY GoneElsewhere DEF Allow
<1>8. AskReview(w) => Elsewhere(w)
  BY GoneElsewhere DEF AskReview
<1>9. Deny(w) => Elsewhere(w)
  BY GoneElsewhere DEF Deny
<1>10. AwaitApproval(w) => Elsewhere(w)
  BY GoneElsewhere DEF AwaitApproval
<1>11. ApplySignal(w) => Elsewhere(w)
  BY GoneElsewhere DEF ApplySignal
<1>12. PassControl(w) => Elsewhere(w)
  BY GoneElsewhere DEF PassControl
<1>13. StartRunning(w) => Elsewhere(w)
  BY GoneElsewhere DEF StartRunning, Cancelled
<1>14. Revoke(w) => Elsewhere(w)
  BY GoneElsewhere DEF Revoke, Cancelled
<1>15. Execute(w) => Elsewhere(w)
  BY GoneElsewhere DEF Execute, Cancelled
<1>16. Perform(w) => Elsewhere(w)
  BY GoneElsewhere DEF Perform, Cancelled
<1>17. Intervene(w) => Elsewhere(w)
  BY GoneElsewhere DEF Intervene
<1>18. CompleteEffect(w) => Elsewhere(w)
  BY GoneElsewhere DEF CompleteEffect
<1>19. FailToBegin(w) => Elsewhere(w)
  BY GoneElsewhere DEF FailToBegin
<1>20. HandleException(w) => Elsewhere(w)
  BY GoneElsewhere DEF HandleException
<1>. QED
  BY <1>1, <1>2, <1>3, <1>4, <1>5, <1>6, <1>7, <1>8, <1>9, <1>10, <1>11, <1>12,
     <1>13, <1>14, <1>15, <1>16, <1>17, <1>18, <1>19, <1>20 DEF WorkerStep

(* The invocation's own step to executing(), from the claim that arms it. *)
LEMMA ArmStep ==
    ASSUME Evidence, NEW w \in Worker, WorkerStep(w), Arm(w)
    PROVE  Arm(w)'
<1> USE DEF Mine, Owns, Arm
<1>. Typed /\ Attempted /\ Walks(w) /\ RowWalks(w)
  BY WorkerWalks, RowsWalk DEF Evidence, Typed, TypeOK
<1>. worker \in [Worker -> Invocation] /\ Reliable(worker[w]) /\ worker[w] \in Invocation
  BY DEF Typed, TypeOK, Locals
<1>. worker[w].attempt \in Attempt /\ worker'[w].attempt = worker[w].attempt
  BY DEF Attempted, Walks
<1>. row'.owner = worker[w].attempt => row.owner = worker[w].attempt
  BY Fields DEF RowWalks
<1>1. CASE BeginEffect(w)
  <2>1. receipt' = [receipt EXCEPT ![worker[w].attempt] = AfterClaim(@, w, FALSE, FALSE)]
    BY <1>1 DEF BeginEffect
  <2>2. worker'[w].pc = "link" /\ (worker'[w].effect = "own" =>
                                       Executes(receipt[worker[w].attempt], FALSE, FALSE))
    BY <1>1 DEF BeginEffect, Invocation
  <2>3. Executes(receipt[worker[w].attempt], FALSE, FALSE) => OwnedClaim(receipt'[worker[w].attempt], w)
    BY <2>1 DEF AfterClaim, Held, OwnedClaim, Typed, TypeOK
  <2>. QED
    BY <2>2, <2>3
<1>2. CASE LinkReceipt(w)
  BY <1>2, LinkArrives
<1>3. CASE CheckDefinition(w)
  BY <1>3, CheckArrives DEF CheckDefinition, rows
<1>4. CASE Begin(w)
  BY <1>4, BeginArrives
<1>5. CASE ConsumeSignal(w)
  BY <1>5, GotoArrives, EndArrives DEF ConsumeSignal
<1>6. CASE ~(Begin(w) \/ ConsumeSignal(w) \/ BeginEffect(w) \/ LinkReceipt(w) \/ CheckDefinition(w))
  <2>1. worker'[w].pc \notin {"link", "check", "execute"}
    BY <1>6, ElsewhereSteps DEF Elsewhere
  <2>. QED
    BY <2>1
<1>. QED
  BY <1>1, <1>2, <1>3, <1>4, <1>5, <1>6

(* What nobody else takes away: the claim of an attempt, while one invocation holds its token. *)
LEMMA ClaimKept ==
    ASSUME Guarded, NEW w \in Worker, Token(w), NEW v \in Worker, v # w, WorkerStep(v)
    PROVE  /\ Owns(w) => Owns(w)'
           /\ Proven(Mine(w)) => Proven(Mine(w))'
           /\ worker'[w] = worker[w]
<1> USE DEF Mine
<1>. Typed /\ Attempted /\ Once
  BY DEF Guarded, Evidence
<1>1. ReceiptWalks(v) /\ worker'[w] = worker[w]
  BY ReceiptsWalk, WorkerWalks DEF Walks
<1>2. worker[w].attempt \in Attempt
  <2>1. worker[w].pc # "idle"
    BY DEF Token, Once, BeganForGood, Entering
  <2>. QED
    BY <2>1 DEF Attempted
<1>3. ~(worker[w].attempt = worker[v].attempt /\ worker[v].pc = "claim")
  BY DEF Once, OneToken, Token, Entering
<1>. QED
  BY <1>1, <1>2, <1>3 DEF ReceiptWalks, Owns, Proven, OwnedClaim

LEMMA WorkerArmed ==
    ASSUME Guarded, Armed, NEW v \in Worker, WorkerStep(v)
    PROVE  Armed'
<1> SUFFICES ASSUME NEW w \in Worker PROVE Arm(w)'
  BY DEF Armed
<1>1. CASE w = v
  BY <1>1, ArmStep DEF Armed, Guarded
<1>2. CASE w # v
  <2>1. worker'[w] = worker[w] /\ RowWalks(v)
    BY <1>2, WorkerWalks, RowsWalk DEF Walks, Guarded, Evidence, Typed, TypeOK
  <2>2. worker[w].pc \in {"link", "check", "execute"} => Token(w)
    BY DEF Token, Entering
  <2>3. worker[w].pc \in {"link", "check", "execute"} => (Owns(w) => Owns(w)')
    BY <1>2, <2>2, ClaimKept
  <2>4. worker[w].pc \in {"link", "check", "execute"} => worker[w].attempt # 0
    BY Fields DEF Guarded, Evidence, Attempted, Mine
  <2>5. Arm(w)
    BY DEF Armed
  <2>. QED
    BY <2>1, <2>3, <2>4, <2>5 DEF Arm, RowWalks, Mine
<1>. QED
  BY <1>1, <1>2

LEMMA OthersArmed ==
    ASSUME Guarded, Armed, Next, \A w \in Worker : ~WorkerStep(w)
    PROVE  Armed'
<1> USE DEF Mine
<1>. Typed /\ Attempted /\ Once
  BY DEF Guarded, Evidence
<1>. SUFFICES ASSUME NEW w \in Worker, worker'[w].pc \in {"link", "check", "execute"}
              PROVE  Arm(w)'
  BY DEF Armed, Arm
<1>1. worker'[w] = worker[w]
  BY OthersEnter DEF WorkersRest, Enters
<1>2. Arm(w) /\ worker[w].attempt \in Attempt /\ worker[w].attempt <= row.attempt
  BY <1>1 DEF Armed, Attempted, Once, Numbered
<1>3. row'.owner = worker[w].attempt => row.owner = worker[w].attempt /\ row'.owner # 0
  <2>1. CASE Claims
    <3>1. row'.owner = row.attempt + 1 /\ row.attempt \in Nat /\ worker[w].attempt \in Nat
      BY <2>1, Fields DEF Claims, Claimed, Typed, TypeOK, Invocation
    <3>. QED
      BY <1>2, <3>1
  <2>2. CASE RowRests
    BY <1>2, <2>2, Fields DEF RowRests
  <2>. QED
    BY <2>1, <2>2, RowsRest
<1>4. row'.owner = worker[w].attempt => (Owns(w) => Owns(w)')
  BY <1>1, <1>2, <1>3, ReceiptsRest DEF ReceiptRests, Owns, OwnedClaim
<1>. QED
  BY <1>1, <1>2, <1>3, <1>4 DEF Arm

(* What an invocation that began the action may still do, where no approval is asked half way. *)
LEMMA ReportingSteps ==
    ASSUME NEW w \in Worker, WorkerStep(w), worker[w].pc \in Reporting, ~Intervenes
    PROVE  \/ Perform(w) \/ CompleteEffect(w) \/ Raise(w) \/ HandleException(w) \/ ConsumeSignal(w)
           \/ ApplySignal(w) \/ PassControl(w) \/ Settle(w) \/ MarkLate(w) \/ Finish(w)
  BY DEF Reporting, Acting, WorkerStep, Begin, Overlap, CancelStale, Admit, RejectLane, Allow, AskReview,
         Deny, AwaitApproval, StartRunning, BeginEffect, LinkReceipt, CheckDefinition, Revoke, Execute,
         Intervene, FailToBegin, FinishForeign

(* The invocation that began the action settles the receipt before it reports anything. *)
LEMMA BackStep ==
    ASSUME Guarded, Undisturbed, NEW w \in started, Back(w), WorkerStep(w)
    PROVE  Back(w)'
<1> USE DEF Mine
<1>. Typed /\ Attempted /\ Once /\ w \in Worker
  BY DEF Guarded, Evidence, Typed, TypeOK
<1>. worker \in [Worker -> Invocation] /\ worker[w] \in Invocation
  BY DEF Typed, TypeOK
<1>. RowWalks(w) /\ ReceiptWalks(w) /\ RowEnds(w) /\ worker'[w].attempt = worker[w].attempt
  BY RowsWalk, ReceiptsWalk, RowsEnd, WorkerWalks DEF Walks, Typed, TypeOK
<1>. worker[w].attempt = row.attempt /\ row'.attempt = row.attempt /\ row.attempt \in Attempt
  BY DEF Once, BeganForGood, Attempted, RowWalks, Entering
<1>. receipt \in [Attempt -> Receipt]
  BY DEF Typed, TypeOK
<1>1. worker[w].pc \in Reporting /\ (worker[w].pc \in Acting \union {"after"} => worker[w].effect = "own")
  BY DEF Back
<1>2. Proven(row.attempt) => Proven(row.attempt)'
  BY <1>1 DEF ReceiptWalks, Proven, OwnedClaim, Reporting, Acting
<1>3. row'.owner # 0 => row.owner # 0
  BY DEF RowWalks
<1>4. row'.phase = "failed" /\ ~row'.reconciled => Proven(row.attempt)'
  <2> SUFFICES ASSUME row'.phase = "failed", ~row'.reconciled PROVE Proven(row.attempt)
    BY <1>2
  <2>1. ~row.reconciled
    BY DEF RowWalks
  <2>2. CASE row.phase = "failed"
    BY <2>1, <2>2 DEF Back
  <2>3. CASE row.owner = worker[w].attempt /\ worker[w].pc = "finish"
    BY <2>3, Fields DEF Back, Acting
  <2>4. worker[w].pc \notin {"begin", "foreign"}
    BY <1>1 DEF Reporting, Acting
  <2>. QED
    BY <2>2, <2>3, <2>4 DEF RowEnds
<1> DEFINE Goes == /\ worker'[w].pc \in Reporting
                   /\ worker'[w].pc \in Acting \union {"after"} => worker'[w].effect = "own"
<1> DEFINE Keeps == row'.owner # 0 =>
          Proven(row.attempt)' \/ (OwnedClaim(receipt'[row.attempt], w) /\ worker'[w].pc \in Acting \union {"gone"})
<1>5. row.owner # 0 => \/ Proven(row.attempt)
                       \/ OwnedClaim(receipt[row.attempt], w) /\ worker[w].pc \in Acting \union {"gone"}
  BY DEF Back, Owns
<1>6. ~Agent /\ ~Intervenes
  BY ConfigAssumption DEF Undisturbed
<1> USE DEF Reporting, Acting
<1>7. ASSUME NEW step, NEW result, Goto(w, step) \/ End(w, result, step)
      PROVE  worker'[w].pc = step /\ worker'[w].effect = worker[w].effect
  BY <1>7, GotoArrives, EndArrives
<1>8. Perform(w) => Goes /\ Keeps
  <2> SUFFICES ASSUME Perform(w) PROVE Goes /\ Keeps
    OBVIOUS
  <2>1. worker[w].pc = "perform" /\ receipt' = receipt /\ (Goto(w, "complete") \/ Goto(w, "except"))
    BY <1>6 DEF Perform, rows
  <2>2. worker'[w].pc \in {"complete", "except"} /\ worker'[w].effect = worker[w].effect
    BY <1>7, <2>1
  <2>. QED
    BY <1>1, <1>2, <1>3, <1>5, <2>1, <2>2
<1>9. CompleteEffect(w) => Goes /\ Keeps
  <2> SUFFICES ASSUME CompleteEffect(w) PROVE Goes /\ Keeps
    OBVIOUS
  <2>1. worker[w].pc = "complete" /\ receipt' = [receipt EXCEPT ![row.attempt] = AfterReport(@, w, "completed")]
    BY DEF CompleteEffect
  <2>2. Goto(w, IF OwnedClaim(receipt[row.attempt], w) THEN "after" ELSE "except")
    BY DEF CompleteEffect
  <2>3. worker'[w].pc \in {"after", "except"} /\ worker'[w].effect = worker[w].effect
    BY <1>7, <2>2
  <2>4. OwnedClaim(receipt[row.attempt], w) => Proven(row.attempt)'
    BY <2>1 DEF AfterReport, Settled, Proven
  <2>. QED
    BY <1>1, <1>2, <1>3, <1>5, <2>1, <2>3, <2>4
<1>10. Raise(w) => Goes /\ Keeps
  <2> SUFFICES ASSUME Raise(w) PROVE Goes /\ Keeps
    OBVIOUS
  <2>1. worker[w].pc \in {"complete", "after"} /\ receipt' = receipt
    BY <1>1 DEF Raise, rows
  <2>2. worker'[w].pc = "except" /\ worker'[w].effect = worker[w].effect
    BY <2>1, RaiseArrives
  <2>. QED
    BY <1>1, <1>2, <1>3, <1>5, <2>1, <2>2
<1>11. HandleException(w) => Goes /\ Keeps
  <2> SUFFICES ASSUME HandleException(w) PROVE Goes /\ Keeps
    OBVIOUS
  <2>1. worker[w].pc = "except" /\ End(w, "failed", "settle")
    BY DEF HandleException
  <2>2. worker'[w].pc = "settle"
    BY <1>7, <2>1
  <2>3. OwnedClaim(receipt[row.attempt], w) =>
            receipt' = [receipt EXCEPT ![row.attempt] = AfterReport(@, w, "failed")]
    BY <1>1, <2>1 DEF HandleException
  <2>4. OwnedClaim(receipt[row.attempt], w) => Proven(row.attempt)'
    BY <2>3 DEF AfterReport, Settled, Proven
  <2>. QED
    BY <1>2, <1>3, <1>5, <2>2, <2>4
<1>12. ASSUME worker[w].pc \notin Acting \union {"gone"} PROVE Keeps
  BY <1>2, <1>3, <1>5, <1>12
<1>13. ConsumeSignal(w) \/ ApplySignal(w) \/ PassControl(w) => Goes /\ Keeps
  <2> SUFFICES ASSUME ConsumeSignal(w) \/ ApplySignal(w) \/ PassControl(w) PROVE Goes /\ Keeps
    OBVIOUS
  <2>1. worker[w].pc \in {"after", "controlled"}
    BY <1>1 DEF ConsumeSignal, ApplySignal, PassControl
  <2>2. PICK step \in {"controlled", "finish", "settle"} :
           Goto(w, step) \/ \E result : End(w, result, step)
    BY <2>1 DEF ConsumeSignal, ApplySignal, PassControl
  <2>3. worker'[w].pc = step
    BY <1>7, <2>2
  <2>. QED
    BY <1>12, <2>1, <2>2, <2>3
<1>14. Settle(w) \/ MarkLate(w) \/ Finish(w) => Goes /\ Keeps
  <2> SUFFICES ASSUME Settle(w) \/ MarkLate(w) \/ Finish(w) PROVE Goes /\ Keeps
    OBVIOUS
  <2>1. worker[w].pc \in {"settle", "mark", "finish"}
    BY DEF Settle, MarkLate, Finish
  <2>2. worker'[w].pc \in {"mark", "finish", "gone"}
    BY DEF Settle, MarkLate, Finish, Conclude, Ended, At, Invocation
  <2>. QED
    BY <1>12, <2>1, <2>2
<1>15. \/ Perform(w) \/ CompleteEffect(w) \/ Raise(w) \/ HandleException(w) \/ ConsumeSignal(w)
       \/ ApplySignal(w) \/ PassControl(w) \/ Settle(w) \/ MarkLate(w) \/ Finish(w)
  BY <1>1, <1>6, ReportingSteps
<1>16. Goes /\ Keeps
  BY <1>8, <1>9, <1>10, <1>11, <1>13, <1>14, <1>15
<1>. QED
  BY <1>4, <1>16 DEF Back, Owns, Proven

(* A later step of another invocation, which stands aside, reports nothing about the action. *)
LEMMA BystanderEnds ==
    ASSUME Guarded, Alone, NEW w \in started, NEW v \in Worker, v # w, WorkerStep(v),
           row.owner = Mine(v)
    PROVE  worker[v].pc \notin {"begin", "foreign"} /\ (worker[v].pc = "finish" => worker[v].result = "held")
<1> USE DEF Mine
<1>. Typed /\ Attempted /\ Once /\ w \in Worker
  BY DEF Guarded, Evidence, Typed, TypeOK
<1>1. worker[w].attempt = row.attempt
  BY DEF Once, BeganForGood
<1>2. worker[v].attempt \in Attempt
  BY WorkerWalks DEF Walks, Attempted
<1>3. worker[v].attempt = row.attempt
  BY <1>2, Fields DEF Once, Numbered
<1>4. Stands(v)
  BY <1>1, <1>3 DEF Alone, Token
<1>. QED
  BY <1>4 DEF Stands

LEMMA WorkerBacked ==
    ASSUME Guarded, Alone, Armed, Backed, Undisturbed, NEW v \in Worker, WorkerStep(v)
    PROVE  Backed'
<1> USE DEF Mine
<1>. Typed /\ Attempted /\ Once /\ started \subseteq Worker
  BY DEF Guarded, Evidence, Typed, TypeOK
<1>. worker \in [Worker -> Invocation]
  BY DEF Typed, TypeOK
<1>. StartWalks(v) /\ RowWalks(v) /\ Walks(v) /\ RowEnds(v)
  BY StartsWalk, RowsWalk, WorkerWalks, RowsEnd DEF Typed, TypeOK
<1> SUFFICES ASSUME NEW w \in started' PROVE Back(w)'
  BY DEF Backed
<1>1. CASE w \in started /\ w = v
  BY <1>1, BackStep DEF Backed
<1>2. CASE w \in started /\ w # v
  <2>1. Token(w) /\ Back(w)
    BY <1>2 DEF Token, Backed
  <2>2. /\ Owns(w) => Owns(w)'
        /\ Proven(worker[w].attempt) => Proven(worker[w].attempt)'
        /\ worker'[w] = worker[w]
    BY <1>2, <2>1, ClaimKept
  <2>3. worker[w].attempt = row.attempt
    BY <1>2 DEF Once, BeganForGood
  <2>4. row'.owner # 0 => row.owner # 0
    BY DEF RowWalks
  <2>5. row'.phase = "failed" /\ ~row'.reconciled => Proven(worker[w].attempt)
    <3> SUFFICES ASSUME row'.phase = "failed", ~row'.reconciled PROVE Proven(worker[w].attempt)
      OBVIOUS
    <3>1. CASE row.phase = "failed"
      BY <2>1, <3>1 DEF Back, RowWalks
    <3>2. CASE row.phase # "failed"
      BY <1>2, <2>3, <3>2, BystanderEnds DEF RowEnds
    <3>. QED
      BY <3>1, <3>2
  <2>. QED
    BY <2>1, <2>2, <2>4, <2>5 DEF Back
<1>3. CASE w \notin started
  <2>1. /\ w = v /\ worker[w].pc = "execute" /\ worker'[w].pc = "perform"
        /\ row.owner = worker[w].attempt /\ row'.phase = "executing"
    BY <1>3 DEF StartWalks
  <2>2. worker[w].effect = "own" /\ Owns(w)
    BY <2>1 DEF Armed, Arm
  <2>3. Execute(w)
    BY <2>1 DEF WorkerStep, Begin, Overlap, CancelStale, Admit, RejectLane, Allow, AskReview, Deny,
         AwaitApproval, ConsumeSignal, ApplySignal, PassControl, StartRunning, BeginEffect, LinkReceipt,
         CheckDefinition, Revoke, Perform, Intervene, CompleteEffect, Raise, FailToBegin,
         HandleException, Settle, MarkLate, Finish, FinishForeign
  <2>4. receipt' = receipt /\ worker'[w].effect = worker[w].effect /\ worker'[w].attempt = worker[w].attempt
    BY <2>3 DEF Execute, Goto, Cancelled, End, Invocation
  <2>. QED
    BY <2>1, <2>2, <2>4 DEF Back, Owns, Acting, Reporting
<1>. QED
  BY <1>1, <1>2, <1>3

LEMMA OthersBacked ==
    ASSUME Guarded, Backed, Next, \A w \in Worker : ~WorkerStep(w)
    PROVE  Backed'
<1> USE DEF Mine
<1>. Typed /\ Attempted /\ Once /\ started \subseteq Worker
  BY DEF Guarded, Evidence, Typed, TypeOK
<1>. RunsRest /\ ReceiptRests /\ RowEndsElsewhere
  BY OthersRest, ReceiptsRest, RowsEndElsewhere
<1> SUFFICES ASSUME NEW w \in started PROVE Back(w)'
  BY DEF Backed, RunsRest
<1>1. /\ worker[w].attempt = row.attempt /\ row.phase \notin Early /\ worker[w].pc # "idle"
      /\ row.attempt \in Attempt /\ Back(w)
  BY DEF Once, BeganForGood, Backed, Attempted
<1>2. RowRests
  BY <1>1, RowsRest DEF Claims, Early
<1>3. /\ worker'[w].attempt = worker[w].attempt
      /\ worker'[w] = worker[w] \/ worker'[w].pc = "gone"
  BY <1>1, OthersEnter DEF WorkersRest, Enters
<1>4. row'.attempt = row.attempt /\ (Proven(row.attempt) => Proven(row.attempt)')
  BY <1>1, <1>2 DEF RowRests, ReceiptRests, Proven
<1>5. row'.owner # 0 => row.owner # 0
  BY <1>2 DEF RowRests
<1>6. row'.owner # 0 => (Owns(w) => Owns(w)')
  BY <1>1, <1>3 DEF ReceiptRests, Owns, OwnedClaim
<1>7. row'.phase = "failed" /\ ~row'.reconciled => Proven(row.attempt)
  BY <1>1 DEF RowEndsElsewhere, Back
<1>8. /\ worker'[w].pc \in Reporting
      /\ worker'[w].pc \in Acting \union {"after"} => worker'[w].effect = "own"
      /\ worker[w].pc \in Acting \union {"gone"} => worker'[w].pc \in Acting \union {"gone"}
  BY <1>1, <1>3 DEF Back, Acting, Reporting
<1>. QED
  BY <1>1, <1>3, <1>4, <1>5, <1>6, <1>7, <1>8 DEF Back

(* The invariant behind OutcomeIsProven, but for its end "cancelled". *)
Settling == Guarded /\ Alone /\ Armed /\ Backed

LEMMA InitSettling == Init => Settling
<1> SUFFICES ASSUME Init PROVE Settling
  OBVIOUS
<1>1. \A w \in Worker : worker[w].pc = "idle"
  BY DEF Init, Idle, At
<1>2. Alone /\ Armed /\ Backed
  BY <1>1 DEF Init, Alone, Armed, Backed, Arm, Stands
<1>. QED
  BY <1>2, InitGuarded DEF Settling

LEMMA StepSettling == Undisturbed /\ Settling /\ [Next]_vars => Settling'
<1> SUFFICES ASSUME Undisturbed, Settling, [Next]_vars PROVE Settling'
  OBVIOUS
<1>1. Guarded'
  BY UndisturbedEnters, StepGuarded DEF Settling
<1>2. CASE UNCHANGED vars
  <2>1. Alone' /\ Armed' /\ Backed'
    BY <1>2 DEF Settling, vars, Alone, Armed, Backed, Arm, Back, Owns, Proven, Stands, Token, Mine
  <2>. QED
    BY <1>1, <2>1 DEF Settling
<1>3. CASE Next
  <2>1. Alone' /\ Armed' /\ Backed'
    BY <1>3, WorkerAlone, OthersAlone, WorkerArmed, OthersArmed, WorkerBacked, OthersBacked,
       UndisturbedEnters DEF Settling
  <2>. QED
    BY <1>1, <2>1 DEF Settling
<1>. QED
  BY <1>2, <1>3

(* What OutcomeIsProven says of the two outcomes that a delivery may report. *)
ReportIsProven ==
    row.phase \in {"completed", "failed"} /\ ~row.reconciled =>
        \A w \in started : receipt[Mine(w)].state \notin {"claimed", "indeterminate"}

(***************************************************************************)
(* A delivery whose action was begun is reported neither as completed nor  *)
(* as failed while its receipt still says that the action may have         *)
(* happened, cancels or none.  It holds for actions that run to their end  *)
(* once begun (no agent, which can be cancelled half way) and whose runs   *)
(* nobody retries by hand: a retry's run carries the delivery's owner id   *)
(* and finishes a row that is not its own.                                 *)
(***************************************************************************)
THEOREM ReportProven == Undisturbed => (Spec => []ReportIsProven)
<1> SUFFICES ASSUME Undisturbed PROVE Spec => []ReportIsProven
  OBVIOUS
<1>1. Settling /\ [Next]_vars => Settling'
  BY StepSettling
<1>2. Settling => ReportIsProven
  <2> SUFFICES ASSUME Settling, row.phase \in {"completed", "failed"}, ~row.reconciled, NEW w \in started
               PROVE  Proven(Mine(w))
    BY DEF ReportIsProven, Proven
  <2>1. row.phase = "failed" => Proven(Mine(w))
    BY DEF Settling, Backed, Back
  <2>2. row.phase = "completed" => Proven(Mine(w))
    BY DEF Settling, Guarded, Evidence, CompletedHasEvidence, Once, BeganForGood, Proven
  <2>. QED
    BY <2>1, <2>2
<1>. QED
  BY <1>1, <1>2, InitSettling, PTL DEF Spec

-----------------------------------------------------------------------------
(***************************************************************************)
(* OutcomeIsProven adds the end "cancelled", which is never proven by a    *)
(* receipt: where nobody cancels a run, a delivery whose action was begun  *)
(* does not get there at all, because nothing that could send it there is  *)
(* left: no cancelled run, result or signal, and no stale invocation.      *)
(***************************************************************************)
Uncancelled ==
    /\ \A a \in Attempt : run[a].signal # "cancel"
    /\ \A w \in Worker : worker[w].pc = "controlled" => worker[w].result # "cancelled"
    /\ \A w \in started : /\ row.phase # "cancelled" /\ run[Mine(w)].status # "cancelled"
                          /\ worker[w].result # "cancelled"

(* The definition's revision never comes back, so no later attempt overtakes a stale one. *)
StaleLast == \A w \in Worker : worker[w].pc = "stale" => ~current /\ Mine(w) = row.attempt

Unstopped == Undisturbed /\ "cancel" \notin Commands

(* Only an invocation that was itself cancelled, or met the signal, cancels a run. *)
RunEnds(w) == \A a \in Attempt :
    /\ run'[a].signal = "cancel" => run[a].signal = "cancel"
    /\ run'[a].status = "cancelled" =>
          \/ run[a].status = "cancelled"
          \/ /\ a = worker[w].attempt /\ worker[w].result = "cancelled"
             /\ worker[w].pc \in {"controlled", "settle"}

(* A write of another status, or of nothing but a signal or an approval, cancels no run. *)
LEMMA WriteEnds ==
    ASSUME run \in [Attempt -> Run], NEW w \in Worker, NEW b, b = worker[w].attempt, NEW status \in Statuses,
           \/ run' = [run EXCEPT ![b].status = status]
           \/ run' = [run EXCEPT ![b].signal = "none"]
           \/ run' = [run EXCEPT ![b].approval = TRUE]
           \/ run' = [run EXCEPT ![b] = SetStatus(@, status)]
           \/ run' = [run EXCEPT ![b] = Waiting(@)]
           \/ run' = run,
           status = "cancelled" => worker[w].result = "cancelled" /\ worker[w].pc \in {"controlled", "settle"}
    PROVE  RunEnds(w)
<1> SUFFICES ASSUME NEW a \in Attempt, run'[a] # run[a]
             PROVE  /\ run'[a].signal = run[a].signal \/ run'[a].signal = "none"
                    /\ run'[a].status \in {run[a].status, status, "waiting_external_tool"} /\ a = b
  BY DEF RunEnds
<1>1. run[a] \in [status : Statuses, signal : Signals, approval : BOOLEAN, marked : BOOLEAN] /\ a = b
  BY Fields
<1>2. \/ run'[a] = [run[a] EXCEPT !.status = status] \/ run'[a] = [run[a] EXCEPT !.signal = "none"]
      \/ run'[a] = [run[a] EXCEPT !.approval = TRUE]
      \/ run'[a] = SetStatus(run[a], status) \/ run'[a] = Waiting(run[a])
  BY <1>1
<1>. QED
  BY <1>1, <1>2 DEF SetStatus, Waiting

LEMMA RunsEnd ==
    ASSUME Typed, NEW w \in Worker, WorkerStep(w)
    PROVE  RunEnds(w)
<1> USE DEF rows, Mine
<1>. worker \in [Worker -> Invocation] /\ run \in [Attempt -> Run] /\ Reliable(worker[w])
  BY DEF Typed, TypeOK, Locals
<1>. /\ "queued" \in Statuses /\ "failed" \in Statuses /\ "waiting_approval" \in Statuses
     /\ "running" \in Statuses /\ "cancelled" \in Statuses /\ "interrupted" \in Statuses
     /\ "paused" \in Statuses /\ "completed" \in Statuses
  BY Names
<1>1. Begin(w) => RunEnds(w)
  <2> SUFFICES ASSUME Begin(w), worker[w].attempt \in Attempt PROVE RunEnds(w)
    BY WriteEnds DEF Begin
  <2>1. run[worker[w].attempt].status \in Statuses
    BY Fields
  <2>2. run' = [run EXCEPT ![worker[w].attempt].status = "queued"] \/ run' = run
    BY Fields DEF Begin
  <2>. QED
    BY <2>2, WriteEnds
<1>2. RejectLane(w) \/ Deny(w) \/ AwaitApproval(w) \/ AskReview(w) \/ Intervene(w) => RunEnds(w)
  BY WriteEnds DEF RejectLane, Deny, AwaitApproval, AskReview, Intervene
<1>3. ConsumeSignal(w) \/ PassControl(w) \/ StartRunning(w) \/ MarkLate(w) => RunEnds(w)
  BY WriteEnds DEF ConsumeSignal, PassControl, StartRunning, MarkLate
<1>4. ApplySignal(w) => RunEnds(w)
  <2> SUFFICES ASSUME ApplySignal(w) PROVE RunEnds(w)
    OBVIOUS
  <2>1. worker[w].pc = "controlled" /\ worker[w].result \in {"cancelled", "other", "held"}
    BY DEF ApplySignal, Reliable
  <2>2. PICK status \in {"cancelled", "interrupted", "paused"} :
          /\ run' = [run EXCEPT ![worker[w].attempt] = SetStatus(@, status)]
          /\ status = "cancelled" => worker[w].result = "cancelled"
    BY <2>1 DEF ApplySignal
  <2>. QED
    BY <2>1, <2>2, WriteEnds
<1>5. Settle(w) => RunEnds(w)
  <2> SUFFICES ASSUME Settle(w) PROVE RunEnds(w)
    OBVIOUS
  <2>1. worker[w].pc = "settle" /\ worker[w].result \in {"success", "cancelled", "failed"}
    BY DEF Settle, Reliable
  <2> DEFINE desired == IF worker[w].result = "success" THEN "completed" ELSE worker[w].result
  <2>2. \/ run' = run \/ run' = [run EXCEPT ![worker[w].attempt] = Waiting(@)]
        \/ run' = [run EXCEPT ![worker[w].attempt] = SetStatus(@, desired)]
    BY DEF Settle
  <2>3. desired \in Statuses /\ (desired = "cancelled" => worker[w].result = "cancelled")
    BY <2>1
  <2>. QED
    BY <2>1, <2>2, <2>3, WriteEnds
<1>6. UNCHANGED run => RunEnds(w)
  BY WriteEnds
<1>7. \/ Begin(w) \/ RejectLane(w) \/ Deny(w) \/ AwaitApproval(w) \/ AskReview(w) \/ Intervene(w)
      \/ ConsumeSignal(w) \/ PassControl(w) \/ StartRunning(w) \/ MarkLate(w) \/ ApplySignal(w)
      \/ Settle(w) \/ UNCHANGED run
  BY DEF WorkerStep, Overlap, CancelStale, Admit, Allow, BeginEffect, LinkReceipt, CheckDefinition, Revoke,
         Execute, Perform, CompleteEffect, Raise, FailToBegin, HandleException, Finish, FinishForeign
<1>. QED
  BY <1>1, <1>2, <1>3, <1>4, <1>5, <1>6, <1>7

(* Outside the executor only the command cancels a run. *)
RunEndsElsewhere == \A a \in Attempt :
    /\ run'[a].signal = "cancel" => run[a].signal = "cancel"
    /\ run'[a].status = "cancelled" => run[a].status = "cancelled"

LEMMA RunsEndElsewhere ==
    ASSUME Typed, Unstopped, Next, \A w \in Worker : ~WorkerStep(w)
    PROVE  RunEndsElsewhere
<1> USE DEF rows, history, RunEndsElsewhere
<1>. run \in [Attempt -> Run]
  BY DEF Typed, TypeOK
<1>. \A a \in Attempt : run[a] \in [status : Statuses, signal : Signals, approval : BOOLEAN, marked : BOOLEAN]
  BY Fields
<1>1. UNCHANGED run => RunEndsElsewhere
  OBVIOUS
<1>2. MarkRun \/ OperatorMarks => RunEndsElsewhere
  <2> SUFFICES ASSUME MarkRun \/ OperatorMarks, NEW a \in Attempt
               PROVE  run'[a] = run[a] \/ (run'[a].signal = run[a].signal /\ run'[a].status # "cancelled")
    OBVIOUS
  <2>1. run' = run \/ run' = [run EXCEPT ![row.attempt] = Waiting(@)]
    BY DEF MarkRun, OperatorMarks
  <2>2. run'[a] = run[a] \/ run'[a] = Waiting(run[a])
    BY <2>1
  <2>3. Waiting(run[a]).signal = run[a].signal /\ Waiting(run[a]).status = "waiting_external_tool"
    BY DEF Waiting
  <2>. QED
    BY <2>2, <2>3
<1>3. Restart => RunEndsElsewhere
  <2> SUFFICES ASSUME Restart, NEW a \in Attempt
               PROVE  run'[a] = run[a] \/ (run'[a].signal = run[a].signal /\ run'[a].status # "cancelled")
    OBVIOUS
  <2>1. run'[a] = run[a] \/ run'[a] = SetStatus(run[a], "interrupted")
    BY DEF Restart
  <2>. QED
    BY <2>1 DEF SetStatus
<1>4. ASSUME NEW a \in Attempt, Pause(a) \/ Interrupt(a) PROVE RunEndsElsewhere
  <2>1. PICK status \in {"paused", "interrupted"}, signal \in {"pause", "interrupt"} :
           run' = [run EXCEPT ![a] = [SetStatus(run[a], status) EXCEPT !.signal = signal]]
    BY <1>4 DEF Pause, Interrupt
  <2>2. /\ [SetStatus(run[a], status) EXCEPT !.signal = signal].status = status
        /\ [SetStatus(run[a], status) EXCEPT !.signal = signal].signal = signal
    BY DEF SetStatus
  <2>3. /\ run'[a] = [SetStatus(run[a], status) EXCEPT !.signal = signal]
        /\ \A b \in Attempt \ {a} : run'[b] = run[b]
    BY <2>1
  <2>. QED
    BY <2>2, <2>3
<1>5. ASSUME NEW a \in Attempt, Approve(a) \/ RejectApproval(a) PROVE RunEndsElsewhere
  BY <1>5 DEF Approve, RejectApproval
<1>6. \A a \in Attempt : ~Cancel(a) /\ ~Resume(a) /\ ~Retry(a)
  BY DEF Unstopped, Undisturbed, Cancel, Resume, Retry
<1>7. \/ UNCHANGED run \/ MarkRun \/ OperatorMarks \/ Restart
      \/ \E a \in Attempt : \/ Cancel(a) \/ Pause(a) \/ Interrupt(a) \/ Resume(a)
                             \/ Retry(a) \/ RejectApproval(a) \/ Approve(a)
  BY DEF Next, Tick, Kick, DropStale, Renew, Reconcile, LapseDelivery, LapseReceipt, ChangeDefinition,
         OperatorReads, OperatorSettlesReceipt, OperatorSettlesRow
<1>. QED
  BY <1>1, <1>2, <1>3, <1>4, <1>5, <1>6, <1>7

(* A definition that changed stays changed, and its deliveries are not claimed any more. *)
LEMMA NotCurrentAgain ==
    ASSUME Typed, Next, ~current
    PROVE  ~current' /\ row'.attempt = row.attempt
<1>1. current' = current \/ ChangeDefinition
  <2>1. ASSUME NEW w \in Worker, WorkerStep(w) PROVE current' = current
    BY <2>1 DEF WorkerStep, Begin, Overlap, CancelStale, Admit, RejectLane, Allow, AskReview, Deny,
         AwaitApproval, ConsumeSignal, ApplySignal, PassControl, StartRunning, BeginEffect, LinkReceipt,
         CheckDefinition, Revoke, Execute, Perform, Intervene, CompleteEffect, Raise, FailToBegin,
         HandleException, Settle, MarkLate, Finish, FinishForeign
  <2>2. ASSUME NEW a \in Attempt, \/ LapseReceipt(a) \/ Cancel(a) \/ Pause(a) \/ Interrupt(a) \/ Resume(a)
                                  \/ Retry(a) \/ Approve(a) \/ RejectApproval(a)
        PROVE  current' = current
    BY <2>2 DEF LapseReceipt, Cancel, Pause, Interrupt, Resume, Retry, Approve, RejectApproval
  <2>3. Tick \/ LapseDelivery \/ Restart => current' = current
    BY DEF Tick, Kick, DropStale, Renew, Reconcile, MarkRun, LapseDelivery, Restart
  <2>4. OperatorReads \/ OperatorMarks \/ OperatorSettlesReceipt \/ OperatorSettlesRow => current' = current
    BY DEF OperatorReads, OperatorMarks, OperatorSettlesReceipt, OperatorSettlesRow
  <2>. QED
    BY <2>1, <2>2, <2>3, <2>4 DEF Next
<1>2. ~ChangeDefinition /\ ~Kick
  BY DEF ChangeDefinition, Kick
<1>3. ASSUME NEW w \in Worker, WorkerStep(w) PROVE row'.attempt = row.attempt
  BY <1>3, RowsWalk DEF RowWalks, Typed, TypeOK
<1>4. ASSUME \A w \in Worker : ~WorkerStep(w) PROVE row'.attempt = row.attempt
  <2>. row \in Delivery
    BY DEF Typed, TypeOK
  <2>1. \/ UNCHANGED row \/ DropStale \/ Renew \/ Reconcile \/ LapseDelivery \/ OperatorSettlesRow
    BY <1>2, <1>4 DEF Next, Tick, MarkRun, ChangeDefinition, Restart, LapseReceipt, Cancel, Pause, Interrupt,
         Resume, Retry, Approve, RejectApproval, OperatorReads, OperatorMarks, OperatorSettlesReceipt, rows
  <2>. QED
    BY <2>1, Fields DEF DropStale, Revoked, Renew, Reconcile, Released, LapseDelivery, OperatorSettlesRow
<1>. QED
  BY <1>1, <1>2, <1>3, <1>4

LEMMA StepStaleLast ==
    ASSUME Typed, StaleLast, Next
    PROVE  StaleLast'
<1> USE DEF Mine
<1>. worker \in [Worker -> Invocation]
  BY DEF Typed, TypeOK
<1> SUFFICES ASSUME NEW w \in Worker, worker'[w].pc = "stale"
             PROVE  ~current' /\ worker'[w].attempt = row'.attempt
  BY DEF StaleLast
<1>1. CASE worker[w].pc = "stale" /\ worker'[w].attempt = worker[w].attempt
  BY <1>1, NotCurrentAgain DEF StaleLast
<1>2. CASE WorkerStep(w)
  <2>1. Begin(w)
    <3>1. Begin(w) \/ ConsumeSignal(w) \/ BeginEffect(w) \/ LinkReceipt(w) \/ CheckDefinition(w)
      BY <1>2, ElsewhereSteps DEF Elsewhere
    <3>2. ~BeginEffect(w)
      BY ClaimArrives
    <3>3. ~CheckDefinition(w) /\ ~ConsumeSignal(w)
      BY CheckArrives, EndArrives DEF ConsumeSignal
    <3>. QED
      BY <3>1, <3>2, <3>3, LinkArrives
  <2>2. \/ Cancelled(w)
        \/ ~current /\ row.attempt = worker[w].attempt /\ current' = current /\ row' = row
        \/ worker' = [worker EXCEPT ![w].pc = "except", ![w].retryable = FALSE]
        \/ worker' = [worker EXCEPT ![w].pc = "lane", ![w].bound = IF row.linked THEN "linked" ELSE "plain"]
    BY <2>1 DEF Begin
  <2>3. ~current /\ row.attempt = worker[w].attempt /\ current' = current /\ row' = row
    BY <2>2 DEF Cancelled, End, Invocation
  <2>. QED
    BY <1>2, <2>3, WorkerWalks DEF Walks
<1>3. CASE ~WorkerStep(w)
  <2>1. worker'[w] = worker[w] \/ worker'[w].pc \in {"begin", "foreign", "gone"}
    <3>1. CASE \E v \in Worker : WorkerStep(v)
      BY <1>3, <3>1, WorkerWalks DEF Walks
    <3>2. CASE \A v \in Worker : ~WorkerStep(v)
      BY <3>2, OthersEnter DEF WorkersRest, Enters
    <3>. QED
      BY <3>1, <3>2
  <2>. QED
    BY <1>1, <2>1
<1>. QED
  BY <1>2, <1>3

(* No invocation is stopped by a cancel that nobody sent. *)
LEMMA ControlledStep ==
    ASSUME Typed, NEW w \in Worker, WorkerStep(w), worker'[w].pc = "controlled",
           \A a \in Attempt : run[a].signal # "cancel", worker[w].attempt \in Attempt
    PROVE  worker'[w].result # "cancelled"
<1> USE DEF Mine
<1>. worker \in [Worker -> Invocation] /\ worker[w] \in Invocation /\ Reliable(worker[w])
  BY DEF Typed, TypeOK, Locals
<1>1. ConsumeSignal(w)
  <2>1. Begin(w) \/ ConsumeSignal(w) \/ BeginEffect(w) \/ LinkReceipt(w) \/ CheckDefinition(w)
    BY ElsewhereSteps DEF Elsewhere
  <2>2. ~BeginEffect(w)
    BY ClaimArrives
  <2>3. ~CheckDefinition(w)
    BY CheckArrives
  <2>. QED
    BY <2>1, <2>2, <2>3, LinkArrives, BeginArrives
<1>2. run[worker[w].attempt].signal # "cancel"
  OBVIOUS
<1>. QED
  BY <1>1, <1>2 DEF ConsumeSignal, End, Invocation

(* Nor does one that began the action report a cancel. *)
LEMMA ResultStep ==
    ASSUME Typed, Unstopped, Uncancelled, NEW w \in started, w \in Worker, Back(w), WorkerStep(w),
           worker[w].attempt \in Attempt
    PROVE  worker'[w].result # "cancelled"
<1> USE DEF Mine
<1>. worker \in [Worker -> Invocation] /\ worker[w] \in Invocation
  BY DEF Typed, TypeOK
<1>. ~Agent /\ ~Intervenes
  BY ConfigAssumption DEF Unstopped, Undisturbed
<1>. worker[w].result # "cancelled" /\ run[worker[w].attempt].status # "cancelled"
  BY DEF Uncancelled
<1>. run \in [Attempt -> Run] /\ (\A a \in Attempt : run[a] \in
        [status : Statuses, signal : Signals, approval : BOOLEAN, marked : BOOLEAN])
  BY Fields DEF Typed, TypeOK
<1>1. ASSUME NEW step, NEW result, Goto(w, step) \/ (End(w, result, step) /\ result # "cancelled")
      PROVE  worker'[w].result # "cancelled"
  BY <1>1, GotoArrives, EndArrives
<1>2. ASSUME NEW step, NEW result, Conclude(w, result, step), result # "cancelled"
      PROVE  worker'[w].result # "cancelled"
  BY <1>2 DEF Conclude, Invocation
<1>3. ASSUME NEW status, status # "cancelled" PROVE ResultOf(status) # "cancelled"
  BY <1>3 DEF ResultOf
<1>4. Perform(w) \/ CompleteEffect(w) \/ HandleException(w) => worker'[w].result # "cancelled"
  BY <1>1 DEF Perform, CompleteEffect, HandleException
<1>5. Raise(w) \/ Finish(w) => worker'[w].result # "cancelled"
  BY RaiseArrives DEF Finish, Ended, At
<1>6. ConsumeSignal(w) => worker'[w].result # "cancelled"
  <2>1. run[worker[w].attempt].signal # "cancel"
    BY DEF Uncancelled
  <2>. QED
    BY <2>1 DEF ConsumeSignal, End, Invocation
<1>7. ApplySignal(w) \/ PassControl(w) => worker'[w].result # "cancelled"
  BY <1>1 DEF ApplySignal, PassControl
<1>8. Settle(w) => worker'[w].result # "cancelled"
  <2> SUFFICES ASSUME Settle(w) PROVE worker'[w].result # "cancelled"
    OBVIOUS
  <2>1. \/ \E result \in {ResultOf(run[worker[w].attempt].status), "other", worker[w].result} :
              Conclude(w, result, "finish")
        \/ worker' = [worker EXCEPT ![w].pc = "mark",
                                    ![w].refused = worker[w].bound # "none" /\ BindingConflict(w)]
    BY DEF Settle
  <2>2. ASSUME worker' = [worker EXCEPT ![w].pc = "mark",
                                        ![w].refused = worker[w].bound # "none" /\ BindingConflict(w)]
        PROVE  worker'[w].result # "cancelled"
    BY <2>2 DEF Invocation
  <2>. QED
    BY <1>2, <1>3, <2>1, <2>2
<1>9. MarkLate(w) => worker'[w].result # "cancelled"
  <2> SUFFICES ASSUME MarkLate(w) PROVE worker'[w].result # "cancelled"
    OBVIOUS
  <2>1. run' = [run EXCEPT ![worker[w].attempt] = Waiting(@)] \/ run' = run
    BY DEF MarkLate
  <2>2. run'[worker[w].attempt].status # "cancelled"
    <3>1. \/ run'[worker[w].attempt] = run[worker[w].attempt]
          \/ run'[worker[w].attempt] = Waiting(run[worker[w].attempt])
      BY <2>1
    <3>2. Waiting(run[worker[w].attempt]).status = "waiting_external_tool"
      BY DEF Waiting
    <3>. QED
      BY <3>1, <3>2
  <2>3. Conclude(w, ResultOf(run'[worker[w].attempt].status), "finish")
    BY DEF MarkLate
  <2>. QED
    BY <1>2, <1>3, <2>2, <2>3
<1>. QED
  BY <1>4, <1>5, <1>6, <1>7, <1>8, <1>9, ReportingSteps DEF Back

LEMMA WorkerUncancelled ==
    ASSUME Settling, Uncancelled, StaleLast, Unstopped, NEW v \in Worker, WorkerStep(v)
    PROVE  Uncancelled'
<1> USE DEF Mine
<1>. /\ Guarded /\ Alone /\ Backed /\ Undisturbed /\ Typed /\ Attempted /\ Once /\ started \subseteq Worker
     /\ worker \in [Worker -> Invocation]
  BY DEF Settling, Unstopped, Guarded, Evidence, Typed, TypeOK
<1>. StartWalks(v) /\ RowWalks(v) /\ Walks(v) /\ RowEnds(v) /\ RunEnds(v)
  BY StartsWalk, RowsWalk, WorkerWalks, RowsEnd, RunsEnd DEF Typed, TypeOK
<1>0. worker[v].attempt \in Attempt
  BY DEF Walks, Attempted
<1>1. \A a \in Attempt : run'[a].signal # "cancel"
  BY DEF RunEnds, Uncancelled
<1>2. ASSUME NEW w \in Worker, worker'[w].pc = "controlled" PROVE worker'[w].result # "cancelled"
  <2>1. CASE w = v
    BY <1>0, <1>2, <2>1, ControlledStep DEF Uncancelled
  <2>2. CASE w # v
    BY <1>2, <2>2 DEF Walks, Uncancelled
  <2>. QED
    BY <2>1, <2>2
<1>3. ASSUME NEW w \in started
      PROVE  row'.phase # "cancelled" /\ run'[worker[w].attempt].status # "cancelled" /\ worker'[w].result # "cancelled"
  <2>1. /\ worker[w].attempt = row.attempt /\ row.phase \notin Early /\ worker[w].pc # "idle"
        /\ row.attempt \in Attempt /\ Token(w) /\ Back(w) /\ w \in Worker
    BY <1>3 DEF Once, BeganForGood, Backed, Attempted, Token
  <2>2. /\ row.phase # "cancelled" /\ run[row.attempt].status # "cancelled" /\ worker[w].result # "cancelled"
    BY <1>3, <2>1 DEF Uncancelled
  <2>3. v # w /\ worker[v].attempt = row.attempt => Stands(v)
    BY <2>1 DEF Alone
  <2>4. worker'[w].result # "cancelled"
    BY <1>3, <2>1, <2>2, ResultStep DEF Walks
  <2>5. run'[row.attempt].status # "cancelled"
    <3> SUFFICES ASSUME row.attempt = worker[v].attempt, worker[v].result = "cancelled",
                        worker[v].pc \in {"controlled", "settle"}
                 PROVE  FALSE
      BY <2>1, <2>2 DEF RunEnds
    <3>1. v # w
      BY <2>2
    <3>. QED
      BY <2>3, <3>1 DEF Stands
  <2>6. worker[v].pc # "stale"
    <3> SUFFICES ASSUME worker[v].pc = "stale" PROVE FALSE
      OBVIOUS
    <3>1. worker[v].attempt = row.attempt
      BY DEF StaleLast
    <3>2. v # w
      BY <2>1 DEF Back, Reporting, Acting
    <3>. QED
      BY <2>3, <3>1, <3>2 DEF Stands
  <2>7. row.owner = worker[v].attempt /\ v # w =>
            worker[v].pc \notin {"begin", "foreign"} /\ (worker[v].pc = "finish" => worker[v].result = "held")
    BY <1>3, BystanderEnds
  <2>8. worker[w].pc \notin {"begin", "foreign"}
    BY <2>1 DEF Back, Reporting, Acting
  <2>9. row'.phase # "cancelled"
    BY <2>1, <2>2, <2>6, <2>7, <2>8 DEF RowEnds, Early
  <2>. QED
    BY <2>1, <2>4, <2>5, <2>9
<1>4. ASSUME NEW w \in started', w \notin started
      PROVE  row'.phase # "cancelled" /\ run'[worker[w].attempt].status # "cancelled" /\ worker'[w].result # "cancelled"
  <2>1. /\ w = v /\ worker[w].pc = "execute" /\ worker'[w].pc = "perform"
        /\ row.owner = worker[w].attempt /\ row'.phase = "executing"
    BY <1>4 DEF StartWalks
  <2>2. Execute(w)
    BY <2>1 DEF WorkerStep, Begin, Overlap, CancelStale, Admit, RejectLane, Allow, AskReview, Deny,
         AwaitApproval, ConsumeSignal, ApplySignal, PassControl, StartRunning, BeginEffect, LinkReceipt,
         CheckDefinition, Revoke, Perform, Intervene, CompleteEffect, Raise, FailToBegin,
         HandleException, Settle, MarkLate, Finish, FinishForeign
  <2>3. MayMove(row, run[row.attempt], worker[w].attempt, {"admitted"}, "executing")
    BY <2>2, <1>4 DEF Execute
  <2>4. run' = run /\ Goto(w, "perform")
    BY <2>2, <2>3 DEF Execute
  <2>5. row.attempt = worker[w].attempt
    BY <1>0, <2>1, Fields DEF Once, Numbered
  <2>6. run'[worker[w].attempt].status # "cancelled"
    BY <2>3, <2>4, <2>5 DEF MayMove
  <2>7. worker[w].result = "success"
    BY <2>1, StepNames DEF Typed, Locals, Reliable
  <2>. QED
    BY <2>1, <2>4, <2>6, <2>7 DEF Goto, Invocation
<1>. QED
  BY <1>1, <1>2, <1>3, <1>4 DEF Uncancelled, Walks, StartWalks

LEMMA OthersUncancelled ==
    ASSUME Settling, Uncancelled, Unstopped, Next, \A w \in Worker : ~WorkerStep(w)
    PROVE  Uncancelled'
<1> USE DEF Mine
<1>. /\ Guarded /\ Backed /\ Typed /\ Attempted /\ Once /\ started \subseteq Worker
     /\ worker \in [Worker -> Invocation]
  BY DEF Settling, Guarded, Evidence, Typed, TypeOK
<1>. RunsRest /\ RunEndsElsewhere /\ RowEndsElsewhere
  BY OthersRest, RunsEndElsewhere, RowsEndElsewhere
<1>1. \A a \in Attempt : run'[a].signal # "cancel"
  BY DEF RunEndsElsewhere, Uncancelled
<1>2. \A w \in Worker : worker'[w].pc = "controlled" => worker'[w] = worker[w]
  BY OthersEnter DEF WorkersRest, Enters
<1>3. ASSUME NEW w \in started
      PROVE  row'.phase # "cancelled" /\ run'[worker'[w].attempt].status # "cancelled" /\ worker'[w].result # "cancelled"
  <2>1. /\ worker[w].attempt = row.attempt /\ row.phase \notin Early /\ worker[w].pc # "idle"
        /\ row.attempt \in Attempt
    BY DEF Once, BeganForGood, Attempted
  <2>2. /\ row.phase # "cancelled" /\ run[row.attempt].status # "cancelled" /\ worker[w].result # "cancelled"
    BY <2>1 DEF Uncancelled
  <2>3. worker'[w].attempt = worker[w].attempt
    BY <2>1, OthersEnter DEF WorkersRest, Enters
  <2>4. worker'[w].result # "cancelled"
    <3>1. ASSUME Idlers # {}, NEW i, worker' = Spawned(i) PROVE worker'[w] = worker[w]
      BY <2>1, <3>1 DEF Spawned, Idlers
    <3>2. Kick \/ (\E a \in Attempt : Approve(a)) => worker'[w] = worker[w]
      BY <3>1 DEF Kick, Approve
    <3>3. Restart => worker'[w] = worker[w] \/ worker'[w].result = "success"
      BY DEF Restart, At
    <3>4. \A a \in Attempt : ~Resume(a) /\ ~Retry(a)
      BY DEF Unstopped, Undisturbed, Resume, Retry
    <3>5. UNCHANGED worker \/ Kick \/ Restart \/ \E a \in Attempt : Approve(a)
      BY <3>4 DEF Next, Tick, DropStale, Renew, Reconcile, MarkRun, LapseDelivery, LapseReceipt,
           ChangeDefinition, Cancel, Pause, Interrupt, RejectApproval, OperatorReads, OperatorMarks,
           OperatorSettlesReceipt, OperatorSettlesRow, rows, history
    <3>. QED
      BY <2>2, <3>2, <3>3, <3>5
  <2>5. row'.phase # "cancelled"
    BY <2>1, <2>2 DEF RowEndsElsewhere, Early
  <2>. QED
    BY <2>1, <2>2, <2>3, <2>4, <2>5 DEF RunEndsElsewhere
<1>. QED
  BY <1>1, <1>2, <1>3 DEF Uncancelled, RunsRest

(***************************************************************************)
(* Where moreover nobody cancels a run, no final phase of a delivery, not  *)
(* "cancelled" either, writes off an action that was begun and whose       *)
(* receipt does not say what came of it.                                   *)
(***************************************************************************)
THEOREM OutcomeProven == Unstopped => (Spec => []OutcomeIsProven)
<1> SUFFICES ASSUME Unstopped PROVE Spec => []OutcomeIsProven
  OBVIOUS
<1> DEFINE Ending == Settling /\ Uncancelled /\ StaleLast
<1>1. Init => Ending
  <2> SUFFICES ASSUME Init PROVE Uncancelled /\ StaleLast
    BY InitSettling
  <2>. QED
    BY DEF Init, Uncancelled, StaleLast, NoRun, Idle, At
<1>2. Ending /\ [Next]_vars => Ending'
  <2> SUFFICES ASSUME Ending, [Next]_vars PROVE Ending'
    OBVIOUS
  <2>1. Settling' /\ Typed
    BY StepSettling DEF Unstopped, Settling, Guarded, Evidence
  <2>2. CASE UNCHANGED vars
    BY <2>1, <2>2 DEF vars, Uncancelled, StaleLast, Mine
  <2>3. CASE Next
    BY <2>1, <2>3, StepStaleLast, WorkerUncancelled, OthersUncancelled
  <2>. QED
    BY <2>2, <2>3
<1>3. Ending => OutcomeIsProven
  <2> SUFFICES ASSUME Ending, row.phase \in FinalPhases, ~row.reconciled, NEW w \in started
               PROVE  Proven(Mine(w))
    BY DEF OutcomeIsProven, Proven
  <2>1. row.phase # "cancelled"
    BY DEF Uncancelled
  <2>2. row.phase = "failed" => Proven(Mine(w))
    BY DEF Settling, Backed, Back
  <2>3. row.phase = "completed" => Proven(Mine(w))
    BY DEF Settling, Guarded, Evidence, CompletedHasEvidence, Once, BeganForGood, Proven
  <2>. QED
    BY <2>1, <2>2, <2>3 DEF FinalPhases
<1>. QED
  BY <1>1, <1>2, <1>3, PTL DEF Spec
-----------------------------------------------------------------------------
(* What holds a cancelled attempt back.  The signal waits for an invocation *)
(* before its check of the controls, and for one whose action may yet ask   *)
(* for an approval; past the check the status stops it.  Nobody else is     *)
(* inside who could write either of them.                                   *)
Signalled == {"begin", "lane", "guard", "control", "perform"}

Past == {"start", "claim", "link", "check", "execute"}

Asking == {"review", "confirm", "finish"}

Hushed(pc, r) ==
    /\ pc \in Signalled => r.signal = "cancel"
    /\ pc \in Past => r.status = "cancelled"
    /\ r.approval => r.signal = "cancel" /\ pc \in Asking

Quelled(a) ==
    /\ a <= row.attempt
    /\ Lone(a)
    /\ \A w \in Inside(a) : Hushed(worker[w].pc, run[a])
    /\ run[a].approval => run[a].signal = "cancel"

Stilled == \A a \in stopped : Quelled(a)

OwnerCurrent == row.owner \in {0, row.attempt}

(* A step that asks for nothing new and goes no nearer to the action. *)
LEMMA HushedOn ==
    ASSUME NEW pc, NEW r, Hushed(pc, r), NEW step, NEW s,
           \/ step \in Signalled /\ pc \in Signalled /\ s.signal = r.signal /\ (s.approval => r.approval)
           \/ step \in Past /\ pc \in Past /\ s.status = r.status /\ (s.approval => r.approval)
           \/ /\ step \notin Signalled \union Past /\ pc \notin Asking
              /\ s.approval => r.approval
           \/ step \in Asking /\ s.signal = r.signal /\ (s.approval => r.approval)
    PROVE  Hushed(step, s)
  BY DEF Hushed, Signalled, Past, Asking

(* What a write of a run does to the facts that hold an attempt back. *)
LEMMA WritesHush ==
    ASSUME NEW r \in Run, NEW status
    PROVE  /\ SetStatus(r, status).signal = r.signal /\ (SetStatus(r, status).approval => r.approval)
           /\ Waiting(r).signal = r.signal /\ Waiting(r).approval = r.approval
           /\ LET s == [r EXCEPT !.status = status] IN s.signal = r.signal /\ s.approval = r.approval
           /\ LET s == [r EXCEPT !.signal = "none"] IN s.status = r.status /\ s.approval = r.approval
           /\ LET s == [r EXCEPT !.approval = TRUE] IN s.signal = r.signal
  BY Fields DEF SetStatus, Waiting

Dest(w) == worker'[w].pc

LEMMA GotoDest ==
    ASSUME Typed, NEW w \in Worker, NEW step, NEW result, Goto(w, step) \/ End(w, result, step)
    PROVE  Dest(w) = step
  BY GotoArrives, EndArrives DEF Typed, TypeOK, Dest

(* The steps that leave the runs alone. *)
LEMMA QuietMoves ==
    ASSUME Typed, NEW w \in Worker,
           \/ CancelStale(w) \/ Admit(w) \/ Allow(w) \/ BeginEffect(w) \/ LinkReceipt(w)
           \/ CheckDefinition(w) \/ Revoke(w) \/ Perform(w) \/ CompleteEffect(w) \/ Raise(w)
           \/ HandleException(w) \/ FailToBegin(w)
    PROVE  /\ run' = run /\ worker[w].pc \notin Asking
           /\ \/ Dest(w) \in Signalled /\ worker[w].pc \in Signalled
              \/ Dest(w) \in Past /\ worker[w].pc \in Past
              \/ Dest(w) \notin Signalled \union Past
<1> USE DEF rows, Signalled, Past, Asking
<1>. worker \in [Worker -> Invocation]
  BY DEF Typed, TypeOK
<1>1. CASE CancelStale(w)
  BY <1>1, GotoDest DEF CancelStale, Cancelled
<1>2. CASE Admit(w)
  <2>1. Goto(w, "guard") \/ Cancelled(w)
    BY <1>2 DEF Admit
  <2>. QED
    BY <1>2, <2>1, GotoDest DEF Admit, Cancelled
<1>3. CASE Allow(w)
  BY <1>3, GotoDest DEF Allow
<1>4. CASE BeginEffect(w)
  BY <1>4, ClaimArrives DEF BeginEffect, Dest
<1>5. CASE LinkReceipt(w)
  BY <1>5, LinkArrives DEF LinkReceipt, Dest
<1>6. CASE CheckDefinition(w)
  BY <1>6, CheckArrives DEF CheckDefinition, Dest
<1>7. CASE Revoke(w)
  BY <1>7, GotoDest DEF Revoke, Cancelled
<1>8. CASE Perform(w)
  BY <1>8, GotoDest DEF Perform, Cancelled
<1>9. CASE CompleteEffect(w)
  BY <1>9, GotoDest DEF CompleteEffect
<1>10. CASE Raise(w)
  BY <1>10, RaiseArrives DEF Raise, Dest
<1>11. CASE HandleException(w)
  BY <1>11, GotoDest DEF HandleException
<1>12. CASE FailToBegin(w)
  BY <1>12, GotoDest DEF FailToBegin
<1>. QED
  BY <1>1, <1>2, <1>3, <1>4, <1>5, <1>6, <1>7, <1>8, <1>9, <1>10, <1>11, <1>12

(* The compare-and-set to executing looks at the run of the row's own attempt. *)
LEMMA HushedDoesNotBegin ==
    ASSUME OwnerCurrent, NEW w \in Worker, Execute(w), Mine(w) \in Attempt,
           Hushed(worker[w].pc, run[Mine(w)])
    PROVE  run' = run /\ started' = started /\ Cancelled(w)
<1>1. run[Mine(w)].status = "cancelled"
  BY DEF Execute, Hushed, Past
<1>2. row.owner = Mine(w) => row.attempt = Mine(w)
  BY DEF OwnerCurrent, Attempt
<1>3. ~MayMove(row, run[row.attempt], Mine(w), {"admitted"}, "executing")
  BY <1>1, <1>2 DEF MayMove
<1>. QED
  BY <1>3 DEF Execute

(* The steps that write a run, or send an invocation off. *)
Fares(w) ==
    LET a == worker[w].attempt IN
    /\ run'[a].approval => run'[a].signal = "cancel"
    /\ Dest(w) # "gone" => Hushed(Dest(w), run'[a])

LEMMA WorkerFares ==
    ASSUME Typed, OwnerCurrent, NEW w \in Worker, WorkerStep(w), worker[w].attempt \in Attempt,
           Hushed(worker[w].pc, run[worker[w].attempt])
    PROVE  Fares(w)
<1> DEFINE a == worker[w].attempt
<1> USE DEF Mine, rows
<1>. /\ worker \in [Worker -> Invocation] /\ run \in [Attempt -> Run] /\ run[a] \in Run
     /\ a \in Attempt /\ Hushed(worker[w].pc, run[a])
  BY DEF Typed, TypeOK
<1>0. ASSUME Hushed(Dest(w), run'[a]) PROVE Fares(w)
  BY <1>0 DEF Fares, Hushed
<1>1. CASE \/ CancelStale(w) \/ Admit(w) \/ Allow(w) \/ BeginEffect(w) \/ LinkReceipt(w)
           \/ CheckDefinition(w) \/ Revoke(w) \/ Perform(w) \/ CompleteEffect(w) \/ Raise(w)
           \/ HandleException(w) \/ FailToBegin(w)
  BY <1>0, <1>1, QuietMoves, HushedOn DEF Asking
<1>2. CASE Finish(w) \/ FinishForeign(w) \/ Overlap(w)
  <2>1. run' = run /\ Dest(w) = "gone"
    BY <1>2 DEF Finish, FinishForeign, Overlap, Ended, At, Dest
  <2>. QED
    BY <2>1 DEF Fares, Hushed
<1>3. CASE Begin(w)
  <2>1. Dest(w) \in {"settle", "stale", "except", "lane"} /\ worker[w].pc = "begin"
    BY <1>3, BeginArrives DEF Begin, Dest
  <2>2. run'[a].signal = run[a].signal /\ run'[a].approval = run[a].approval
    BY <1>3, Fields DEF Begin
  <2>. QED
    BY <1>0, <2>1, <2>2, HushedOn DEF Signalled, Past, Asking
<1>4. CASE RejectLane(w) \/ Deny(w) \/ ApplySignal(w)
  <2>1. PICK status : run'[a] = SetStatus(run[a], status)
    BY <1>4 DEF RejectLane, Deny, ApplySignal
  <2>2. Dest(w) = "finish"
    BY <1>4, GotoDest DEF RejectLane, Deny, ApplySignal
  <2>. QED
    BY <1>0, <2>1, <2>2, WritesHush, HushedOn DEF Asking
<1>5. CASE AskReview(w) \/ Intervene(w)
  <2>1. worker[w].pc \in Signalled /\ Dest(w) = "review"
    BY <1>5, GotoDest DEF AskReview, Intervene, Signalled
  <2>2. run'[a].signal = run[a].signal
    BY <1>5, WritesHush DEF AskReview, Intervene
  <2>. QED
    BY <1>0, <2>1, <2>2 DEF Hushed, Signalled, Past, Asking
<1>6. CASE AwaitApproval(w)
  <2>1. Dest(w) \in {"confirm", "finish"}
    BY <1>6, GotoDest DEF AwaitApproval
  <2>2. run'[a].signal = run[a].signal /\ run'[a].approval = run[a].approval
    BY <1>6, WritesHush DEF AwaitApproval
  <2>. QED
    BY <1>0, <2>1, <2>2, HushedOn DEF Asking
<1>7. CASE ConsumeSignal(w) \/ PassControl(w)
  <2>0. worker[w].pc \in {"control", "after"}
    BY <1>7 DEF ConsumeSignal, PassControl
  <2>a. run'[a].approval = run[a].approval
    <3>1. run' = [run EXCEPT ![a].signal = "none"]
      BY <1>7 DEF ConsumeSignal, PassControl
    <3>. QED
      BY <3>1, WritesHush
  <2>1. worker[w].pc \in {"control", "after"} /\ run'[a].approval = run[a].approval
    BY <2>0, <2>a
  <2>2. ~run[a].approval
    BY <2>1 DEF Hushed, Asking
  <2>3. Dest(w) \in {"controlled", "settle"}
    <3>1. CASE ConsumeSignal(w)
      BY <3>1, GotoDest DEF ConsumeSignal
    <3>2. CASE PassControl(w)
      <4>1. worker[w].pc = "after"
        BY <2>1, <3>2 DEF PassControl, StopSignals, Signals, Hushed, Signalled
      <4>. QED
        BY <3>2, <4>1, GotoDest DEF PassControl
    <3>. QED
      BY <1>7, <3>1, <3>2
  <2>. QED
    BY <1>0, <2>1, <2>2, <2>3 DEF Hushed, Signalled, Past
<1>8. CASE StartRunning(w)
  <2>1. worker[w].pc = "start" /\ run[a].status = "cancelled"
    BY <1>8 DEF StartRunning, Hushed, Past
  <2>2. run' = run /\ Cancelled(w)
    BY <1>8, <2>1 DEF StartRunning, OpenRuns
  <2>. QED
    BY <1>0, <2>1, <2>2, GotoDest, HushedOn DEF Cancelled, Signalled, Past, Asking
<1>9. CASE Execute(w)
  <2>1. run' = run /\ Cancelled(w) /\ worker[w].pc = "execute"
    BY <1>9, HushedDoesNotBegin DEF Execute
  <2>. QED
    BY <1>0, <2>1, GotoDest, HushedOn DEF Cancelled, Signalled, Past, Asking
<1>10. CASE Settle(w) \/ MarkLate(w)
  <2>1. worker[w].pc \in {"settle", "mark"} /\ Dest(w) \in {"mark", "finish"}
    BY <1>10 DEF Settle, MarkLate, Conclude, Dest, Invocation
  <2>2. \/ run'[a] = run[a] \/ run'[a] = Waiting(run[a]) \/ \E status : run'[a] = SetStatus(run[a], status)
    BY <1>10 DEF Settle, MarkLate
  <2>3. run'[a].approval => run[a].approval
    BY <2>2, WritesHush
  <2>. QED
    BY <1>0, <2>1, <2>3, HushedOn DEF Signalled, Past, Asking
<1>. QED
  BY <1>1, <1>2, <1>3, <1>4, <1>5, <1>6, <1>7, <1>8, <1>9, <1>10 DEF WorkerStep

(* An invocation writes to no run but its own. *)
LEMMA OwnRunOnly ==
    ASSUME Typed, NEW w \in Worker, WorkerStep(w), NEW a \in Attempt, a # Mine(w)
    PROVE  run'[a] = run[a]
<1> USE DEF rows
<1>. run \in [Attempt -> Run]
  BY DEF Typed, TypeOK
<1>1. CASE \/ AskReview(w) \/ RejectLane(w) \/ Deny(w) \/ AwaitApproval(w) \/ ConsumeSignal(w) \/ ApplySignal(w)
           \/ PassControl(w) \/ StartRunning(w) \/ Intervene(w)
  BY <1>1 DEF AskReview, RejectLane, Deny, AwaitApproval, ConsumeSignal, ApplySignal, PassControl,
              StartRunning, Intervene
<1>2. CASE Begin(w)
  BY <1>2 DEF Begin
<1>3. CASE Settle(w) \/ MarkLate(w)
  BY <1>3 DEF Settle, MarkLate
<1>4. CASE \/ Overlap(w) \/ CancelStale(w) \/ Admit(w) \/ Allow(w) \/ BeginEffect(w) \/ LinkReceipt(w)
           \/ CheckDefinition(w) \/ Revoke(w) \/ Execute(w) \/ Perform(w) \/ CompleteEffect(w)
           \/ Raise(w) \/ FailToBegin(w) \/ HandleException(w) \/ Finish(w) \/ FinishForeign(w)
  BY <1>4 DEF Overlap, CancelStale, Admit, Allow, BeginEffect, LinkReceipt, CheckDefinition, Revoke,
              Execute, Perform, CompleteEffect, Raise, FailToBegin, HandleException, Finish, FinishForeign
<1>. QED
  BY <1>1, <1>2, <1>3, <1>4 DEF WorkerStep

LEMMA StoppedRests ==
    ASSUME NEW w \in Worker, WorkerStep(w)
    PROVE  stopped' = stopped
  BY DEF WorkerStep, Begin, Overlap, CancelStale, Admit, RejectLane, Allow, AskReview, Deny,
         AwaitApproval, ConsumeSignal, ApplySignal, PassControl, StartRunning, BeginEffect, LinkReceipt,
         CheckDefinition, Revoke, Execute, Perform, Intervene, CompleteEffect, Raise, FailToBegin,
         HandleException, Settle, MarkLate, Finish, FinishForeign, history

(* Who takes a step was inside its attempt, but for a retry's invocation, which ends with it. *)
LEMMA StepsInside ==
    ASSUME Typed, NEW w \in Worker, WorkerStep(w)
    PROVE  worker[w].pc \notin {"idle", "foreign", "gone"} \/ (run' = run /\ Dest(w) = "gone")
<1>1. CASE FinishForeign(w)
  BY <1>1 DEF FinishForeign, Ended, At, Dest, Typed, TypeOK
<1>2. CASE ~FinishForeign(w)
  BY <1>2
     DEF WorkerStep, Begin, Overlap, CancelStale, Admit, RejectLane, Allow, AskReview, Deny,
         AwaitApproval, ConsumeSignal, ApplySignal, PassControl, StartRunning, BeginEffect, LinkReceipt,
         CheckDefinition, Revoke, Execute, Perform, Intervene, CompleteEffect, Raise, FailToBegin,
         HandleException, Settle, MarkLate, Finish
<1>. QED
  BY <1>1, <1>2

LEMMA WorkerStilled ==
    ASSUME Typed, OwnerCurrent, Stilled, NEW w \in Worker, WorkerStep(w)
    PROVE  Stilled'
<1> USE DEF Mine
<1>. /\ stopped' = stopped /\ stopped \subseteq Attempt /\ row'.attempt = row.attempt
     /\ Walks(w)
  BY StoppedRests, RowsWalk, WorkerWalks DEF Typed, TypeOK, RowWalks
<1> SUFFICES ASSUME NEW a \in stopped, Quelled(a) PROVE Quelled(a)'
  BY DEF Stilled
<1>1. \A v \in Worker \ {w} : worker'[v] = worker[v]
  BY DEF Walks
<1>2. w \in Inside(a)' => w \in Inside(a)
  BY StepsInside DEF Inside, Walks, Dest
<1>3. Lone(a)'
  BY <1>1, <1>2 DEF Lone, Inside, Quelled
<1>4. CASE w \in Inside(a)
  <2>1. /\ worker[w].attempt = a /\ Hushed(worker[w].pc, run[a])
        /\ \A v \in Inside(a)' : v = w
    BY <1>1, <1>2, <1>4 DEF Quelled, Inside, Lone
  <2>2. Fares(w)
    BY <2>1, WorkerFares
  <2>3. /\ run'[a].approval => run'[a].signal = "cancel"
        /\ worker'[w].pc # "gone" => Hushed(worker'[w].pc, run'[a])
    BY <2>1, <2>2 DEF Fares, Dest
  <2>. QED
    BY <1>3, <2>1, <2>3 DEF Quelled, Inside
<1>5. CASE w \notin Inside(a)
  <2>1. run'[a] = run[a]
    BY <1>5, OwnRunOnly, StepsInside DEF Inside
  <2>2. \A v \in Inside(a)' : v \in Inside(a) /\ worker'[v] = worker[v]
    BY <1>1, <1>2, <1>5 DEF Inside
  <2>. QED
    BY <1>3, <2>1, <2>2 DEF Quelled
<1>. QED
  BY <1>4, <1>5

(* Outside the executor only a command touches what holds the attempt back. *)
Frozen(a) ==
    /\ a \in stopped
    /\ run'[a].signal = run[a].signal /\ (run'[a].approval => run[a].approval)
    /\ run[a].status = "cancelled" => run'[a].status = "cancelled"

LEMMA OthersHold ==
    ASSUME Typed, Stilled, Next, \A w \in Worker : ~WorkerStep(w), NEW a \in stopped'
    PROVE  Cancel(a) \/ Frozen(a)
<1> USE DEF rows, history, Frozen
<1>. run \in [Attempt -> Run] /\ stopped \subseteq Attempt
  BY DEF Typed, TypeOK
<1>1. ASSUME UNCHANGED <<run, stopped>> PROVE Frozen(a)
  BY <1>1
<1>2. CASE MarkRun \/ OperatorMarks
  <2>1. a \in stopped /\ stopped' = stopped
    BY <1>2 DEF MarkRun, OperatorMarks
  <2>2. CASE run' = run
    BY <2>1, <2>2
  <2>3. CASE MayWait(row, run[row.attempt]) /\ run' = [run EXCEPT ![row.attempt] = Waiting(@)]
    BY <2>1, <2>3, WritesHush DEF MayWait, OpenRuns
  <2>. QED
    BY <1>2, <2>2, <2>3 DEF MarkRun, OperatorMarks
<1>3. CASE Restart
  <2>1. a \in stopped /\ run[a] \in Run
    BY <1>3 DEF Restart
  <2>2. run'[a] = run[a] \/ (run[a].status \in OpenRuns /\ run'[a] = SetStatus(run[a], "interrupted"))
    BY <1>3, <2>1 DEF Restart
  <2>. QED
    BY <2>1, <2>2, WritesHush DEF OpenRuns
<1>4. ASSUME NEW b \in Attempt, Cancel(b) PROVE Cancel(a) \/ Frozen(a)
  BY <1>4 DEF Cancel
<1>5. ASSUME NEW b \in Attempt, Pause(b) \/ Interrupt(b) \/ Resume(b) \/ Retry(b) PROVE Frozen(a)
  BY <1>5 DEF Pause, Interrupt, Resume, Retry
<1>6. ASSUME NEW b \in Attempt, Approve(b) \/ RejectApproval(b) PROVE Frozen(a)
  <2>1. stopped' = stopped /\ \A c \in Attempt \ {b} : run'[c] = run[c]
    BY <1>6 DEF Approve, RejectApproval
  <2>2. a # b
    BY <1>6, <2>1 DEF Approve, RejectApproval, Decidable, Stilled, Quelled
  <2>. QED
    BY <2>1, <2>2
<1>. QED
  BY <1>1, <1>2, <1>3, <1>4, <1>5, <1>6
     DEF Next, Tick, Kick, DropStale, Renew, Reconcile, LapseDelivery, LapseReceipt, ChangeDefinition,
         OperatorReads, OperatorSettlesReceipt, OperatorSettlesRow

LEMMA CancelQuells ==
    ASSUME Typed, Stilled, NEW a \in Attempt, Cancel(a), a \in stopped'
    PROVE  Quelled(a)'
<1>1. /\ row' = row /\ worker' = worker /\ run[a] \in Run
      /\ a \in stopped \/ (a = row.attempt /\ Lone(a))
  BY DEF Cancel, Typed, TypeOK
<1>2. run'[a].status = "cancelled" /\ run'[a].signal = "cancel" /\ ~run'[a].approval
  BY <1>1, Fields DEF Cancel, SetStatus, Typed, TypeOK
<1>3. a <= row.attempt /\ Lone(a)
  BY <1>1, Fields DEF Stilled, Quelled, Typed, TypeOK
<1>. QED
  BY <1>1, <1>2, <1>3 DEF Quelled, Hushed, Lone, Inside, Mine

LEMMA OthersStilled ==
    ASSUME Typed, Attempted, Stilled, Next, \A w \in Worker : ~WorkerStep(w)
    PROVE  Stilled'
<1> USE DEF Mine
<1>. stopped' \subseteq Attempt /\ stopped \subseteq Attempt /\ row.attempt \in Nat
  BY StepTyped, Fields DEF Typed, TypeOK
<1> SUFFICES ASSUME NEW a \in stopped' PROVE Quelled(a)'
  BY DEF Stilled
<1>1. CASE Cancel(a)
  BY <1>1, CancelQuells
<1>2. CASE ~Cancel(a)
  <2>1. Frozen(a) /\ Quelled(a)
    BY <1>2, OthersHold DEF Frozen, Stilled
  <2>2. a <= row'.attempt
    <3>1. row'.attempt = row.attempt \/ row'.attempt = row.attempt + 1
      BY RowsRest, Fields DEF RowRests, Claims, Claimed, Typed, TypeOK
    <3>2. a <= row.attempt
      BY <2>1 DEF Quelled
    <3>3. a \in Nat /\ row.attempt \in Nat
      BY DEF Attempt
    <3>. QED
      BY <3>1, <3>2, <3>3
  <2>3. ASSUME NEW v \in Inside(a)' PROVE v \in Inside(a) /\ worker'[v] = worker[v]
    <3>1. CASE WorkersRest
      BY <2>3, <3>1 DEF WorkersRest, Inside
    <3>2. CASE \E w \in Worker : Enters(w, row.attempt + 1)
      BY <2>1, <2>3, <3>2 DEF Enters, Inside, Quelled, Attempt
    <3>3. ASSUME NEW b \in Attempt, NEW w \in Worker, Enters(w, b),
                 Resume(b) \/ (Retry(b) /\ worker'[w].pc = "foreign") \/ Approve(b)
          PROVE  v \in Inside(a) /\ worker'[v] = worker[v]
      <4>1. b # a \/ worker'[w].pc = "foreign"
        BY <2>1, <3>3 DEF Resume, Approve, Decidable, Quelled
      <4>. QED
        BY <2>3, <3>3, <4>1 DEF Enters, Inside
    <3>. QED
      BY <3>1, <3>2, <3>3, OthersEnter
  <2>4. \A pc : Hushed(pc, run[a]) => Hushed(pc, run'[a])
    BY <2>1 DEF Frozen, Hushed
  <2>. QED
    BY <2>1, <2>2, <2>3, <2>4 DEF Quelled, Lone, Frozen
<1>. QED
  BY <1>1, <1>2

LEMMA OwnerStays ==
    ASSUME Typed, Attempted, OwnerCurrent, Next
    PROVE  OwnerCurrent'
<1>1. ASSUME NEW w \in Worker, WorkerStep(w) PROVE OwnerCurrent'
  BY <1>1, RowsWalk DEF Typed, TypeOK, RowWalks, OwnerCurrent
<1>2. CASE \A w \in Worker : ~WorkerStep(w)
  <2>1. CASE RowRests
    BY <2>1 DEF RowRests, OwnerCurrent
  <2>2. CASE Claims
    <3>1. row' = Claimed(row) /\ row \in Delivery
      BY <2>2 DEF Claims, Typed, TypeOK
    <3>2. row'.owner = row'.attempt
      BY <3>1, Fields DEF Claimed
    <3>. QED
      BY <3>2 DEF OwnerCurrent
  <2>. QED
    BY <1>2, <2>1, <2>2, RowsRest
<1>. QED
  BY <1>1, <1>2

(* Only the compare-and-set to executing lets an action begin. *)
LEMMA StartsByExecuting ==
    ASSUME NEW w \in Worker, WorkerStep(w), started' # started
    PROVE  Execute(w)
  BY DEF WorkerStep, Begin, Overlap, CancelStale, Admit, RejectLane, Allow, AskReview, Deny,
         AwaitApproval, ConsumeSignal, ApplySignal, PassControl, StartRunning, BeginEffect, LinkReceipt,
         CheckDefinition, Revoke, Perform, Intervene, CompleteEffect, Raise, FailToBegin,
         HandleException, Settle, MarkLate, Finish, FinishForeign, history

(***************************************************************************)
(* An attempt that a cancel stopped does not begin its action: for every   *)
(* number of attempts and invocations, with every command, whatever the    *)
(* lane, the guard, approvals and restarts write over its status.          *)
(***************************************************************************)
THEOREM CancelFences == Spec => CancelFencesAttempt
<1> DEFINE Fencing == Evidence /\ OwnerCurrent /\ Stilled
<1>1. Init => Fencing
  <2>1. Init => Evidence
    BY InitTyped DEF Init, Evidence, Attempted, CompletedHasEvidence, Enqueued, Idle, At
  <2>. QED
    BY <2>1 DEF Init, OwnerCurrent, Stilled, Enqueued
<1>2. Fencing /\ [Next]_vars => Fencing'
  <2> SUFFICES ASSUME Fencing, [Next]_vars PROVE (OwnerCurrent /\ Stilled)'
    BY StepEvidence
  <2>. Typed /\ Attempted
    BY DEF Evidence
  <2>1. CASE UNCHANGED vars
    BY <2>1 DEF vars, OwnerCurrent, Stilled, Quelled, Lone, Inside, Mine
  <2>2. CASE Next
    BY <2>2, OwnerStays, WorkerStilled, OthersStilled
  <2>. QED
    BY <2>1, <2>2
<1>3. Fencing /\ [Next]_vars => [\A w \in started' \ started : Mine(w) \notin stopped]_vars
  <2> SUFFICES ASSUME Fencing, Next, NEW w \in started' \ started, Mine(w) \in stopped
               PROVE  FALSE
    OBVIOUS
  <2>. Typed /\ stopped \subseteq Attempt
    BY DEF Evidence, Typed, TypeOK
  <2>1. PICK v \in Worker : WorkerStep(v)
    BY OthersRest DEF RunsRest
  <2>2. Execute(v) /\ v = w /\ worker[v].pc = "execute"
    BY <2>1, StartsWalk, StartsByExecuting DEF StartWalks
  <2>3. Hushed(worker[w].pc, run[Mine(w)])
    BY <2>2 DEF Stilled, Quelled, Inside
  <2>. QED
    BY <2>2, <2>3, HushedDoesNotBegin
<1>. QED
  BY <1>1, <1>2, <1>3, PTL DEF Spec, CancelFencesAttempt
=============================================================================
