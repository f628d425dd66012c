---------------------------- MODULE NeighborTask ----------------------------
(***************************************************************************)
(* A task that one engine, the origin, assigns to a neighbouring engine,   *)
(* the peer, over signed HTTP posts: the origin's dispatch, the peer's     *)
(* inbox receipt and wake queue, the worker that runs the graph and sends  *)
(* the result back, its recovery after crashes, and the origin's record    *)
(* of what it was told.                                                    *)
(*                                                                         *)
(* A post may be lost, its answer may be lost, and one that its sender no  *)
(* longer waits for may still arrive; both engines crash and restart.  The *)
(* result of an assignment is named by its status, so a result and its     *)
(* message are the same kind here.  One assignment, on one link.           *)
(***************************************************************************)
EXTENDS Naturals

CONSTANTS
    MaxTries,   \* deliveryRecoveryAttempts
    MaxCrash    \* crashes of either engine: a bound of the model

ASSUME NeighborAssumption == MaxTries \in Nat /\ MaxCrash \in Nat

Terminal == {"completed", "failed"}
Kinds == Terminal \union {"waiting"}
Messages == Kinds \union {"assign"}

VARIABLES
    origin,     \* the origin's assignment row: status and result_id
    stored,     \* results and inbox receipts at the origin
    dispatch,   \* the origin's post of the assignment
    queue,      \* the peer's wake queue row; "lapsed" is leased past its lease
    run,        \* the peer's run of the graph
    answer,     \* the peer's outbound results, and the latest of them
    message,    \* the outbound message rows of both engines
    tries,      \* deliveryRecoveryAttempts so far
    work,       \* the peer's wake queue worker
    resend,     \* a person's retry of a result message at the peer
    late,       \* posts that arrive although nobody waits for their answer
    begun,      \* history: how many times the graph was begun
    crashes

peerRows == <<queue, run, answer, tries>>
vars == <<origin, stored, dispatch, queue, run, answer, message, tries, work, resend, late, begun, crashes>>

Posting == {"post", "answered"}
Settling == {"delivered", "undelivered"}

Idle == [step |-> "idle", kind |-> "failed", task |-> "execute"]

TypeOK ==
    /\ origin \in [status : Kinds \union {"none", "queued", "sent"}, result : Kinds \union {"none"}]
    /\ stored \in SUBSET Kinds
    /\ dispatch \in Posting \union {"idle"}
    /\ queue \in {"none", "queued", "leased", "lapsed", "waiting", "completed", "failed"}
    /\ run \in Kinds \union {"none", "running", "lost"}
    /\ answer \in [known : SUBSET Kinds, last : Kinds \union {"none"}]
    /\ message \in [Messages -> {"absent", "pending", "failed", "sent"}]
    /\ tries \in 0..MaxTries
    /\ work \in [step : Posting \union Settling \union {"idle", "claimed", "graph", "record", "compose"},
                 kind : Kinds, task : {"execute", "recover", "reconcile"}]
    /\ resend \in [step : Posting \union {"idle"}, kind : Kinds]
    /\ late \in SUBSET Messages
    /\ begun \in Nat
    /\ crashes \in 0..MaxCrash

Init ==
    /\ origin = [status |-> "none", result |-> "none"]
    /\ stored = {}
    /\ dispatch = "idle"
    /\ queue = "none"
    /\ run = "none"
    /\ answer = [known |-> {}, last |-> "none"]
    /\ message = [m \in Messages |-> "absent"]
    /\ tries = 0
    /\ work = Idle
    /\ resend = [step |-> "idle", kind |-> "failed"]
    /\ late = {}
    /\ begun = 0 /\ crashes = 0

Marked(m, status) == message' = [message EXCEPT ![m] = status]

(* The sender gives up on a post that has not arrived: it is lost, or only late. *)
GivesUp(m, step) == late' \in IF step = "post" THEN {late, late \union {m}} ELSE {late}

-----------------------------------------------------------------------------
(* receive_message at both ends: the receipt and its rows in one transaction. *)

(* _handle_assign: a second copy finds its receipt and the queue row there is. *)
Accept == queue' = IF queue = "none" THEN "queued" ELSE queue

(* A delayed result does not replace a terminal one. *)
Refuses(k) == origin.status \in Terminal /\ origin.result # "none" /\ k \notin stored

(* _store_inbound_result *)
Store(k) ==
    IF Refuses(k) \/ k \in stored
    THEN UNCHANGED <<origin, stored>>
    ELSE /\ origin' = [status |-> k, result |-> k]
         /\ stored' = stored \union {k}

-----------------------------------------------------------------------------
(* The origin: dispatch_task, and retry_message of the assignment.         *)

ConcludedAnyway(status) ==  \* slip: only_without_result is left out
    [origin EXCEPT !.status = status, !.result = "none"]

(* only_without_result *)
Concluded(status) ==
    IF origin.result = "none" THEN [origin EXCEPT !.status = status] ELSE origin

Dispatch ==
    /\ dispatch = "idle"
    /\ origin.status \in {"none", "queued", "failed"} \/ message["assign"] # "absent"
    /\ IF message["assign"] = "sent"
       THEN /\ origin' = Concluded("sent")
            /\ UNCHANGED <<dispatch, message>>
       ELSE /\ origin' = IF origin.status = "none" THEN [origin EXCEPT !.status = "queued"] ELSE origin
            /\ message' = [message EXCEPT !["assign"] = IF @ = "absent" THEN "pending" ELSE @]
            /\ dispatch' = "post"
    /\ UNCHANGED <<stored, peerRows, work, resend, late, begun, crashes>>

RequestArrives ==
    /\ dispatch = "post" /\ dispatch' = "answered"
    /\ Accept
    /\ UNCHANGED <<origin, stored, run, answer, message, tries, work, resend, late, begun, crashes>>

RequestAcked ==
    /\ dispatch = "answered" /\ dispatch' = "idle"
    /\ Marked("assign", "sent")
    /\ origin' = Concluded("sent")
    /\ UNCHANGED <<stored, peerRows, work, resend, late, begun, crashes>>

RequestFails ==
    /\ dispatch \in Posting /\ dispatch' = "idle"
    /\ GivesUp("assign", dispatch)
    /\ Marked("assign", "failed")
    /\ origin' \in {origin, Concluded("failed")}  \* a retry leaves the row alone
    /\ UNCHANGED <<stored, peerRows, work, resend, begun, crashes>>

CrashOrigin ==
    /\ crashes < MaxCrash /\ crashes' = crashes + 1
    /\ dispatch \in Posting /\ dispatch' = "idle"
    /\ GivesUp("assign", dispatch)
    /\ UNCHANGED <<origin, stored, peerRows, message, work, resend, begun>>

(* A post whose sender is gone is handled all the same. *)
LateRequest ==
    /\ "assign" \in late /\ late' = late \ {"assign"}
    /\ Accept
    /\ UNCHANGED <<origin, stored, dispatch, run, answer, message, tries, work, resend, begun, crashes>>

LateAnswer(k) ==
    /\ k \in late /\ late' = late \ {k}
    /\ Store(k)
    /\ UNCHANGED <<dispatch, peerRows, message, work, resend, begun, crashes>>

-----------------------------------------------------------------------------
(* The peer's worker: process_wake_queue_once, one item at a time.         *)

Goto(step) == work' = [work EXCEPT !.step = step]

Takes(kind, task) == work' = [step |-> "record", kind |-> kind, task |-> task]

Claim ==
    /\ work.step = "idle" /\ queue = "queued"
    /\ queue' = "leased"
    /\ work' = [step |-> "claimed", kind |-> "failed", task |-> "execute"]
    /\ UNCHANGED <<origin, stored, dispatch, run, answer, message, tries, resend, late, begun, crashes>>

(* execute_assignment runs the graph unless there is an answer already. *)
StartGraph ==
    /\ work.step = "claimed" /\ answer.last = "none"
    /\ run' = "running" /\ begun' = begun + 1
    /\ Goto("graph")
    /\ UNCHANGED <<origin, stored, dispatch, queue, answer, message, tries, resend, late, crashes>>

GraphEnds(k) ==
    /\ work.step = "graph"
    /\ run' = k
    /\ work' = [step |-> "record", kind |-> k, task |-> work.task]
    /\ UNCHANGED <<origin, stored, dispatch, queue, answer, message, tries, resend, late, begun, crashes>>

(* _send_result keeps the result (INSERT OR IGNORE) ... *)
Record ==
    /\ work.step = "record"
    /\ answer' = IF work.kind \in answer.known THEN answer
                 ELSE [known |-> answer.known \union {work.kind}, last |-> work.kind]
    /\ Goto("compose")
    /\ UNCHANGED <<origin, stored, dispatch, queue, run, message, tries, resend, late, begun, crashes>>

(* ... then the message, which send_message posts unless it has been delivered. *)
Compose ==
    /\ work.step = "compose"
    /\ IF message[work.kind] = "sent"
       THEN Goto("delivered") /\ UNCHANGED message
       ELSE /\ message' = [message EXCEPT ![work.kind] = IF @ = "absent" THEN "pending" ELSE @]
            /\ Goto("post")
    /\ UNCHANGED <<origin, stored, dispatch, peerRows, resend, late, begun, crashes>>

AnswerArrives ==
    /\ work.step = "post" /\ ~Refuses(work.kind)
    /\ Store(work.kind)
    /\ Goto("answered")
    /\ UNCHANGED <<dispatch, peerRows, message, resend, late, begun, crashes>>

AnswerAcked ==
    /\ work.step = "answered"
    /\ Marked(work.kind, "sent")
    /\ Goto("delivered")
    /\ UNCHANGED <<origin, stored, dispatch, peerRows, resend, late, begun, crashes>>

(* Lost on the way there or back, or refused by the origin. *)
AnswerFails ==
    /\ work.step \in Posting
    /\ GivesUp(work.kind, work.step)
    /\ Marked(work.kind, "failed")
    /\ Goto("undelivered")
    /\ UNCHANGED <<origin, stored, dispatch, peerRows, resend, begun, crashes>>

(* What becomes of the queue row: a failed run is a failed row, its answer sent or not. *)
Settlement == IF work.step = "delivered" THEN work.kind ELSE "failed"

(* settle_wake; a recovered waiting answer puts its row back to waiting. *)
Settle ==
    /\ work.step \in Settling
    /\ queue' = IF work.task = "recover"
                THEN IF Settlement = "waiting" /\ answer.last = "waiting" /\ queue = "failed"
                     THEN "waiting" ELSE queue
                ELSE IF queue \in {"leased", "lapsed"} THEN Settlement ELSE queue
    /\ work' = Idle
    /\ UNCHANGED <<origin, stored, dispatch, run, answer, message, tries, resend, late, begun, crashes>>

(* The deadline, a lost lease or the stop of the service cancels the execution. *)
Deadline ==
    /\ work.task = "execute" /\ work.step \in Posting \union {"graph"}
    /\ GivesUp(work.kind, work.step)
    /\ queue' = IF queue \in {"leased", "lapsed"} THEN "failed" ELSE queue
    /\ run' = IF run = "running" THEN "lost" ELSE run
    /\ work' = Idle
    /\ UNCHANGED <<origin, stored, dispatch, answer, message, tries, resend, begun, crashes>>

(* claim_next finds a lease that lapsed: the outcome is not known, and it is not run again. *)
ExpireToRetry ==  \* slip: an expired execution is queued again
    /\ work.step = "idle" /\ queue = "lapsed"
    /\ queue' = "queued"
    /\ UNCHANGED <<origin, stored, dispatch, run, answer, message, tries, work, resend, late, begun, crashes>>

Expire ==
    /\ work.step = "idle" /\ queue = "lapsed"
    /\ queue' = "failed"
    /\ UNCHANGED <<origin, stored, dispatch, run, answer, message, tries, work, resend, late, begun, crashes>>

UndeliveredResult ==  \* slip: an execution without a result is not reported
    answer.last # "none" /\ (\A k \in Kinds : k = answer.last => message[k] # "sent")

Undelivered == \A k \in Kinds : k = answer.last => message[k] # "sent"

RecoverForEver ==  \* slip: the attempts are not limited
    /\ work.step = "idle" /\ queue = "failed" /\ Undelivered
    /\ tries' = tries + 1
    /\ Takes(IF answer.last = "none" THEN "failed" ELSE answer.last, "recover")
    /\ UNCHANGED <<origin, stored, dispatch, queue, run, answer, message, resend, late, begun, crashes>>

RecoverAsFailed ==  \* slip: the kept result is not looked for
    /\ work.step = "idle" /\ queue = "failed" /\ tries < MaxTries /\ Undelivered
    /\ tries' = tries + 1
    /\ Takes("failed", "recover")
    /\ UNCHANGED <<origin, stored, dispatch, queue, run, answer, message, resend, late, begun, crashes>>

(* _recover_terminal_results sends the kept result, or reports an interruption. *)
Recover ==
    /\ work.step = "idle" /\ queue = "failed" /\ tries < MaxTries /\ Undelivered
    /\ tries' = tries + 1
    /\ Takes(IF answer.last = "none" THEN "failed" ELSE answer.last, "recover")
    /\ UNCHANGED <<origin, stored, dispatch, queue, run, answer, message, resend, late, begun, crashes>>

RestoreResent ==  \* slip: only a row that a recovery attempt has touched is restored
    /\ work.step = "idle" /\ queue = "failed" /\ tries > 0
    /\ answer.last = "waiting" /\ message["waiting"] = "sent"
    /\ queue' = "waiting"
    /\ UNCHANGED <<origin, stored, dispatch, run, answer, message, tries, work, resend, late, begun, crashes>>

(* _restore_waiting_result_receipt, at the head of every round. *)
RestoreWaiting ==
    /\ work.step = "idle" /\ queue = "failed"
    /\ answer.last = "waiting" /\ message["waiting"] = "sent"
    /\ queue' = "waiting"
    /\ UNCHANGED <<origin, stored, dispatch, run, answer, message, tries, work, resend, late, begun, crashes>>

ReportedByText == Terminal  \* slip: whatever has a text is a success

(* A completed run without a text is reported as failed. *)
Reported == {run, "failed"}

(* _reconcile_waiting_delivery: the answer of a run that has ended, never a second run. *)
Reconcile ==
    /\ work.step = "idle" /\ queue = "waiting" /\ run \in Terminal
    /\ queue' = "leased"
    /\ \E kind \in Reported : Takes(kind, "reconcile")
    /\ UNCHANGED <<origin, stored, dispatch, run, answer, message, tries, resend, late, begun, crashes>>

(* No heartbeat renews the lease of a worker that is gone. *)
Lapse ==
    /\ queue = "leased" /\ work.step = "idle"
    /\ queue' = "lapsed"
    /\ UNCHANGED <<origin, stored, dispatch, run, answer, message, tries, work, resend, late, begun, crashes>>

CrashPeer ==
    /\ crashes < MaxCrash /\ crashes' = crashes + 1
    /\ work' = Idle /\ resend' = [resend EXCEPT !.step = "idle"]
    /\ <<work, resend>>' # <<work, resend>>
    /\ run' = IF run = "running" THEN "lost" ELSE run
    /\ late' \in SUBSET Messages /\ late \subseteq late'
    /\ late' \ late \subseteq (IF work.step = "post" THEN {work.kind} ELSE {})
                              \union (IF resend.step = "post" THEN {resend.kind} ELSE {})
    /\ UNCHANGED <<origin, stored, dispatch, queue, answer, message, tries, begun>>

-----------------------------------------------------------------------------
(* People at the peer: they answer the waiting run, and retry a message.   *)

RunGoesOn ==
    /\ run = "waiting"
    /\ run' \in Terminal \union {"lost"}
    /\ UNCHANGED <<origin, stored, dispatch, queue, answer, message, tries, work, resend, late, begun, crashes>>

Resend(k) ==
    /\ resend.step = "idle" /\ message[k] \in {"pending", "failed"}
    /\ resend' = [step |-> "post", kind |-> k]
    /\ UNCHANGED <<origin, stored, dispatch, peerRows, message, work, late, begun, crashes>>

ResendArrives ==
    /\ resend.step = "post" /\ ~Refuses(resend.kind)
    /\ Store(resend.kind)
    /\ resend' = [resend EXCEPT !.step = "answered"]
    /\ UNCHANGED <<dispatch, peerRows, message, work, late, begun, crashes>>

ResendAcked ==
    /\ resend.step = "answered"
    /\ Marked(resend.kind, "sent")
    /\ resend' = [resend EXCEPT !.step = "idle"]
    /\ UNCHANGED <<origin, stored, dispatch, peerRows, work, late, begun, crashes>>

ResendFails ==
    /\ resend.step \in Posting
    /\ GivesUp(resend.kind, resend.step)
    /\ Marked(resend.kind, "failed")
    /\ resend' = [resend EXCEPT !.step = "idle"]
    /\ UNCHANGED <<origin, stored, dispatch, peerRows, work, begun, crashes>>

WorkerStep ==
    \/ Claim \/ StartGraph \/ (\E k \in Kinds : GraphEnds(k)) \/ Record \/ Compose
    \/ AnswerArrives \/ AnswerAcked \/ AnswerFails \/ Settle \/ Deadline
    \/ Expire \/ Recover \/ RestoreWaiting \/ Reconcile

OriginStep == Dispatch \/ RequestArrives \/ RequestAcked \/ RequestFails \/ LateRequest

ResendStep == (\E k \in Kinds : Resend(k)) \/ ResendArrives \/ ResendAcked \/ ResendFails

Next ==
    \/ WorkerStep \/ OriginStep \/ ResendStep \/ (\E k \in Kinds : LateAnswer(k))
    \/ Lapse \/ RunGoesOn \/ CrashOrigin \/ CrashPeer

Spec == Init /\ [][Next]_vars

(* The worker's loop goes on, every wait of it has a timeout, and the clock runs. *)
Fairness == WF_vars(WorkerStep) /\ WF_vars(Lapse)

FairSpec == Spec /\ Fairness

-----------------------------------------------------------------------------
(***************************************************************************)
(* The protocol keeps the promise of a task: duplicates, retries, late     *)
(* posts, lapsed leases and restarts neither begin the graph twice nor     *)
(* take back a verdict.  The giver's verdict is the result_id of its row.  *)
(***************************************************************************)
Promise == INSTANCE TaskPromise WITH verdict <- origin.result

KeepsPromise == Promise!Spec

(***************************************************************************)
(* The two engines agree: a result whose message the peer holds to be      *)
(* delivered is among the results of the origin, and the peer never keeps  *)
(* two verdicts of which the origin could have been told either.           *)
(***************************************************************************)
EnginesAgree ==
    /\ \A k \in Kinds : message[k] = "sent" => k \in stored
    /\ ~(Terminal \subseteq answer.known)

(***************************************************************************)
(* The origin says "completed" only of a run that completed.               *)
(***************************************************************************)
CompletedRan == origin.status = "completed" => run = "completed"

(***************************************************************************)
(* An accepted task is answered: whatever crashes, the origin comes to     *)
(* hold a result, or the three recovery attempts are used up.              *)
(***************************************************************************)
OriginLearns == queue # "none" ~> (stored # {} \/ tries = MaxTries)

(***************************************************************************)
(* A task that waited for a person does not wait for ever: when its run    *)
(* ends, the origin comes to hold the verdict, or the attempts are used up. *)
(***************************************************************************)
WaitResolves ==
    queue = "waiting" /\ run \in Terminal ~> (origin.result \in Terminal \/ tries = MaxTries)
=============================================================================
