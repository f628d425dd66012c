--------------------------- MODULE ApprovalResume ---------------------------
(***************************************************************************)
(* The delivery of approvals to the run that asked for them.  A decision   *)
(* is recorded once and never changes; with the last approval of a run the *)
(* decision leaves a delivery record, that the command router claims and   *)
(* hands to a worker, that the worker consumes before it continues the     *)
(* run, and that a restarted engine claims again when it was not consumed. *)
(*                                                                         *)
(* One run.  A worker that no delivery names is "plain": the one that the  *)
(* request started, or that a manual resume starts.  Workers are jobs of   *)
(* the chat scheduler, or threads when the run is an RPA execution.        *)
(***************************************************************************)
EXTENDS Naturals

CONSTANTS
    Approval,      \* the approvals the run may ask for
    MaxAttempt,    \* deliveries of one decision: a bound of the model
    MaxRestart,    \* restarts of the engine: a bound of the model
    Rpa,           \* the run is an RPA execution and not a chat
    Yields         \* what else may happen: see below

(* "ask": a worker stops at a graph interrupt; "pause": people pause and    *)
(* resume; "slow": the run is parked after its approval can be seen.        *)
ASSUME ApprovalAssumption ==
    /\ MaxAttempt \in Nat /\ MaxRestart \in Nat /\ Rpa \in BOOLEAN
    /\ Yields \subseteq {"ask", "pause", "slow"}

VARIABLES
    run,        \* the run record: its status and its control signal
    vote,       \* the decisions, pending_approvals.status
    delivery,   \* the delivery records, pending_approvals.resume_json
    router,     \* deliver_approval_resume() after its claim
    job,        \* the workers, by approval and attempt
    plain,      \* the worker that is bound to no delivery
    parks,      \* requests of approval that have yet to park the run
    boot,       \* what a restarted engine has listed and not claimed yet
    begun,      \* history: continuations begun for an approval
    stopped,    \* history: the decisions that a command to stop has overtaken
    restarts

rows == <<run, vote, delivery>>
workers == <<router, job, plain, parks>>
vars == <<rows, workers, boot, begun, stopped, restarts>>

Attempts == 1..MaxAttempt
Final == {"completed", "failed", "cancelled", "interrupted"}
Aborted == Final \ {"completed"}
Stops == {"pause", "cancel"}
Signals == Stops \union {"approval_rejected"}
Undelivered == {"pending", "scheduled"}

(* Where an RPA execution stands: before its last look at the signals, past  *)
(* that look, in the robot, past the look at its end; with a signal taken;   *)
(* with an approval asked for; with the run written and its own record not.  *)
RpaPhases == {"preparing", "starting", "robot", "closing", "pausing", "cancelling", "asked", "settling"}

(* A worker whose delivery says that it executes; an RPA one begins as "taken". *)
AtWork == {"executing", "taken"} \union RpaPhases

TypeOK ==
    /\ run \in [status : Final \union {"running", "waiting_approval", "waiting_input", "paused"},
                control : Signals \union {"none"}]
    /\ vote \in [Approval -> {"absent", "pending", "approved", "rejected", "cancelled"}]
    /\ delivery \in [Approval -> [state : Undelivered \union {"none", "executing", "completed",
                                                              "blocked", "superseded"},
                                  attempt : 0..MaxAttempt]]
    /\ router \in [Approval -> {"idle", "claimed", "submitted", "blocking"}]
    /\ job \in [Approval -> [Attempts -> AtWork \union {"none", "queued", "raised", "gone"}]]
    /\ plain \in {"none", "queued", "executing"} \union RpaPhases
    /\ parks \in Nat
    /\ boot \in SUBSET Approval
    /\ begun \in [Approval -> Nat]
    /\ stopped \in SUBSET Approval
    /\ restarts \in 0..MaxRestart

Init ==
    /\ run = [status |-> "running", control |-> "none"]
    /\ vote = [a \in Approval |-> "absent"]
    /\ delivery = [a \in Approval |-> [state |-> "none", attempt |-> 0]]
    /\ router = [a \in Approval |-> "idle"]
    /\ job = [a \in Approval |-> [n \in Attempts |-> "none"]]
    /\ plain = (IF Rpa THEN "preparing" ELSE "executing") /\ parks = 0
    /\ boot = {} /\ begun = [a \in Approval |-> 0] /\ stopped = {} /\ restarts = 0

(* The run may go on: no status and no signal of a person speaks against it. *)
Ready == run.status = "running" /\ run.control \notin Stops

Asked == {a \in Approval : vote[a] = "pending"}

Executing == {a \in Approval : \E n \in Attempts : job[a][n] \in AtWork}

Marked(a, state) == delivery' = [delivery EXCEPT ![a].state = state]

Becomes(status) == run' = [run EXCEPT !.status = status]

(* A run that is aborted takes its open requests along: update_run_record(). *)
Closed(status) ==
    [a \in Approval |-> IF status \in Aborted /\ vote[a] = "pending" THEN "cancelled" ELSE vote[a]]

Turns(status) == Becomes(status) /\ vote' = Closed(status)

-----------------------------------------------------------------------------
(* Workers ask for approvals: request_approval().                          *)

(* The approval and the run's wait are written one after the other. *)
Asks(b) ==
    /\ vote[b] = "absent"
    /\ vote' = [vote EXCEPT ![b] = "pending"]
    /\ IF "slow" \in Yields THEN parks' = parks + 1 /\ UNCHANGED run
                            ELSE Becomes("waiting_approval") /\ UNCHANGED parks

Park ==
    /\ parks > 0 /\ parks' = parks - 1
    /\ Becomes("waiting_approval")
    /\ UNCHANGED <<vote, delivery, router, job, plain, boot, begun, stopped, restarts>>

PlainAsks(b) ==
    /\ plain = "executing" /\ plain' = "none"
    /\ Asks(b)
    /\ UNCHANGED <<delivery, router, job, boot, begun, stopped, restarts>>

Gone(a, n) == job' = [job EXCEPT ![a][n] = "gone"]

(* _finish_approval_delivery, and its like for RPA: fenced by the state and the attempt. *)
Finished(a, n, state) ==
    IF delivery[a] = [state |-> "executing", attempt |-> n]
    THEN Marked(a, state) ELSE UNCHANGED delivery

(* finalize_failed_run settles the delivery first; an interrupted run keeps it. *)
JobAsks(a, n, b) ==
    /\ job[a][n] = "executing" /\ Gone(a, n)
    /\ Asks(b)
    /\ \/ Finished(a, n, "completed")
       \/ "ask" \in Yields /\ UNCHANGED delivery
    /\ UNCHANGED <<router, plain, boot, begun, stopped, restarts>>

-----------------------------------------------------------------------------
(* People decide: resolve_pending_approval_if_pending().                   *)

Decidable(a) ==
    /\ vote[a] = "pending"
    /\ run.status \notin Final /\ run.control # "cancel"

(* Only the last approval of a run that waits sends the run on. *)
Approve(a) ==
    /\ Decidable(a)
    /\ vote' = [vote EXCEPT ![a] = "approved"]
    /\ IF run.control = "none" /\ run.status \in {"waiting_approval", "running"} /\ Asked = {a}
       THEN /\ Becomes("running")
            /\ Marked(a, "pending")
       ELSE UNCHANGED <<run, delivery>>
    /\ UNCHANGED <<workers, boot, begun, stopped, restarts>>

Reject(a) ==
    /\ Decidable(a)
    /\ vote' = [vote EXCEPT ![a] = "rejected"]
    /\ run' = IF run.control = "none" /\ run.status \in {"waiting_approval", "running"}
              THEN [status |-> "waiting_input", control |-> "approval_rejected"] ELSE run
    /\ UNCHANGED <<delivery, workers, boot, begun, stopped, restarts>>

ReplaceAnyway(a, b) ==  \* slip: the record of the replaced decision is left as it is
    /\ ~Rpa
    /\ vote[a] \in {"pending", "approved"} /\ delivery[a].state # "executing"
    /\ vote[b] = "absent"
    /\ run.status \in {"running", "waiting_input", "waiting_approval"} /\ run.control \notin Stops
    /\ vote' = [vote EXCEPT ![b] = "pending", ![a] = IF @ = "pending" THEN "cancelled" ELSE @]
    /\ Becomes("waiting_approval")
    /\ UNCHANGED <<delivery, workers, boot, begun, stopped, restarts>>

(* create_spec_review_approval(): a review of a newer document retires the older one. *)
Replace(a, b) ==
    /\ ~Rpa
    /\ vote[a] \in {"pending", "approved"} /\ delivery[a].state # "executing"
    /\ vote[b] = "absent"
    /\ run.status \in {"running", "waiting_input", "waiting_approval"} /\ run.control \notin Stops
    /\ vote' = [vote EXCEPT ![b] = "pending", ![a] = IF @ = "pending" THEN "cancelled" ELSE @]
    /\ IF vote[a] = "approved" /\ delivery[a].state \in Undelivered \union {"blocked"}
       THEN Marked(a, "superseded") ELSE UNCHANGED delivery
    /\ Becomes("waiting_approval")
    /\ UNCHANGED <<workers, boot, begun, stopped, restarts>>

-----------------------------------------------------------------------------
(* The router: deliver_approval_resume().                                  *)

Reserved(a) == \E b \in Approval \ {a} : delivery[b].state \in {"scheduled", "executing"}

(* claim_approval_resume() *)
ClaimableTwice(a, states) ==  \* slip: a decision that was consumed is claimed again
    /\ vote[a] = "approved"
    /\ delivery[a].state \in states \union {"executing"} /\ delivery[a].attempt < MaxAttempt
    /\ Ready /\ Asked = {} /\ ~Reserved(a)

Claimable(a, states) ==
    /\ vote[a] = "approved"
    /\ delivery[a].state \in states /\ delivery[a].attempt < MaxAttempt
    /\ Ready /\ Asked = {} /\ ~Reserved(a)

Claimed(a) ==
    /\ delivery' = [delivery EXCEPT ![a] = [state |-> "scheduled", attempt |-> @.attempt + 1]]
    /\ router' = [router EXCEPT ![a] = "claimed"]

(* By the decision, by a second one like it, or by the loop of the episode runner. *)
Claim(a) ==
    /\ Claimable(a, {"pending"}) /\ Claimed(a)
    /\ UNCHANGED <<run, vote, job, plain, parks, boot, begun, stopped, restarts>>

(* The loop leaves a session alone in which a run is active. *)
Sweep(a) == plain # "executing" /\ Executing = {} /\ boot = {} /\ Claim(a)

Submit(a) ==
    /\ router[a] = "claimed" /\ Ready
    /\ router' = [router EXCEPT ![a] = "submitted"]
    /\ job' = [job EXCEPT ![a][delivery[a].attempt] = "queued"]
    /\ UNCHANGED <<rows, plain, parks, boot, begun, stopped, restarts>>

(* The scheduler refuses, or what follows the submission raises. *)
GiveUp(a) ==
    /\ router[a] \in {"claimed", "submitted"} /\ router' = [router EXCEPT ![a] = "idle"]
    /\ IF delivery[a].state = "scheduled" THEN Marked(a, "pending") ELSE UNCHANGED delivery
    /\ UNCHANGED <<run, vote, job, plain, parks, boot, begun, stopped, restarts>>

(* The approved document cannot be applied: the record is blocked, then the run waits. *)
Block(a) ==
    /\ ~Rpa /\ router[a] = "claimed" /\ router' = [router EXCEPT ![a] = "blocking"]
    /\ IF delivery[a].state = "scheduled" THEN Marked(a, "blocked") ELSE UNCHANGED delivery
    /\ UNCHANGED <<run, vote, job, plain, parks, boot, begun, stopped, restarts>>

(* The run is told only where it was ready for the document. *)
TellBlocked(a) ==
    /\ router[a] = "blocking" /\ router' = [router EXCEPT ![a] = "idle"]
    /\ \/ UNCHANGED run
       \/ run.status = "running" /\ Becomes("waiting_input")
    /\ UNCHANGED <<vote, delivery, job, plain, parks, boot, begun, stopped, restarts>>

Return(a) ==
    /\ router[a] = "submitted" /\ router' = [router EXCEPT ![a] = "idle"]
    /\ UNCHANGED <<rows, job, plain, parks, boot, begun, stopped, restarts>>

-----------------------------------------------------------------------------
(* Workers consume deliveries: stream_legacy_events() of the chat runtime. *)

ConsumableInAnyAttempt(a, n) ==  \* slip: the attempt is not compared
    delivery[a].state = "scheduled" /\ Ready

ConsumableWhenStopped(a, n) ==  \* slip: the run's status and signal are not looked at
    delivery[a] = [state |-> "scheduled", attempt |-> n]

Consumable(a, n) == delivery[a] = [state |-> "scheduled", attempt |-> n] /\ Ready

Consume(a, n) ==
    /\ job[a][n] = "queued" /\ Consumable(a, n)
    /\ Marked(a, "executing")
    /\ job' = [job EXCEPT ![a][n] = IF Rpa THEN "taken" ELSE "executing"]
    /\ begun' = [begun EXCEPT ![a] = @ + 1]
    /\ UNCHANGED <<run, vote, router, plain, parks, boot, stopped, restarts>>

(* A worker that is not named any more leaves, and so does one that dies before. *)
Leave(a, n) ==
    /\ job[a][n] = "queued" /\ Gone(a, n)
    /\ UNCHANGED <<rows, router, plain, parks, boot, begun, stopped, restarts>>

(* A chat worker takes the signal it stops at, before its turn or while it     *)
(* executes; the thread of an RPA continuation takes none before it has begun. *)
Obey(a, n) ==
    /\ ~Rpa /\ job[a][n] \in {"queued", "executing"} /\ run.control \in Stops
    /\ run' = [run EXCEPT !.control = "none"]
    /\ Gone(a, n)
    /\ UNCHANGED <<vote, delivery, router, plain, parks, boot, begun, stopped, restarts>>

(* It also takes a rejection, at which it does not stop. *)
Overhear ==
    /\ ~Rpa /\ run.control = "approval_rejected"
    /\ plain # "none" \/ \E a \in Approval, n \in Attempts : job[a][n] \in {"queued", "executing"}
    /\ run' = [run EXCEPT !.control = "none"]
    /\ UNCHANGED <<vote, delivery, workers, boot, begun, stopped, restarts>>

(* The delivery is settled first, then the run, whatever its status has become. *)
End(a, n) ==
    /\ job[a][n] = "executing" /\ Gone(a, n)
    /\ Finished(a, n, "completed")
    /\ \E status \in {"completed", "failed", "waiting_input"} : Turns(status)
    /\ UNCHANGED <<router, plain, parks, boot, begun, stopped, restarts>>

PlainEnds ==
    /\ plain = "executing" /\ plain' = "none"
    /\ \/ run.control \in Stops /\ run' = [run EXCEPT !.control = "none"] /\ UNCHANGED vote
       \/ \E status \in {"completed", "failed", "waiting_input"} : Turns(status)
    /\ UNCHANGED <<delivery, router, job, parks, boot, begun, stopped, restarts>>

(* A request that names no delivery waits for none: approval_resume_state_for_run(). *)
RequiresDelivery ==
    \E a \in Approval : delivery[a].state \in Undelivered \union {"executing", "blocked"}

PlainBegins ==
    /\ plain = "queued"
    /\ plain' = IF RequiresDelivery \/ run.status \in Final \/ run.control \in Stops
                THEN "none" ELSE "executing"
    /\ run' = IF run.control \in Stops THEN [run EXCEPT !.control = "none"] ELSE run
    /\ UNCHANGED <<vote, delivery, router, job, parks, boot, begun, stopped, restarts>>

-----------------------------------------------------------------------------
(* An RPA execution: _execute_prepared(), for the first request and for a  *)
(* continuation, which resume_approved_run() wraps.                        *)

(* What a phase writes, whatever the run has become, and the phase after it. *)
RpaWrites ==
    {<<"preparing", "failed", "settling">>,  <<"starting", "failed", "settling">>,
     <<"starting", "running", "robot">>,     <<"asked", "waiting_approval", "settling">>,
     <<"closing", "completed", "settling">>, <<"closing", "failed", "settling">>,
     <<"pausing", "paused", "settling">>,    <<"cancelling", "cancelled", "settling">>}

Writes(p, q) == \E status \in Final \union {"running", "waiting_approval", "paused"} :
    <<p, status, q>> \in RpaWrites /\ Turns(status)

(* The signal is looked for before the robot and after it; one that is there is taken. *)
Looks(p, q) ==
    /\ p \in {"preparing", "robot"}
    /\ IF run.control \in Signals
       THEN /\ q = IF run.control = "cancel" THEN "cancelling" ELSE "pausing"
            /\ run' = [run EXCEPT !.control = "none"]
       ELSE /\ q = IF p = "preparing" THEN "starting" ELSE "closing"
            /\ UNCHANGED run
    /\ UNCHANGED vote

Requests(p, q) ==
    /\ p = "preparing" /\ q = "asked"
    /\ \E b \in Approval : vote[b] = "absent" /\ vote' = [vote EXCEPT ![b] = "pending"]
    /\ UNCHANGED run

RpaStep(p, q) == Writes(p, q) \/ Looks(p, q) \/ Requests(p, q)

PlainCarries ==
    /\ plain \in RpaPhases
    /\ \E q \in RpaPhases : RpaStep(plain, q) /\ plain' = q
    /\ UNCHANGED <<delivery, router, job, parks, boot, begun, stopped, restarts>>

(* The first execution ends, or raises: nobody writes the run for it. *)
PlainGoes ==
    /\ plain \in RpaPhases /\ plain' = "none"
    /\ UNCHANGED <<rows, router, job, parks, boot, begun, stopped, restarts>>

(* _begin_run(): a run that is not ready, or whose first execution has not noted *)
(* that it waits for a review, is left alone, and the delivery counts as done.   *)
Begin(a, n) ==
    /\ job[a][n] = "taken"
    /\ \/ Ready /\ plain = "none" /\ job' = [job EXCEPT ![a][n] = "preparing"]
       \/ job' = [job EXCEPT ![a][n] = "settling"]
    /\ UNCHANGED <<rows, router, plain, parks, boot, begun, stopped, restarts>>

Carry(a, n) ==
    /\ job[a][n] \in RpaPhases
    /\ \E q \in RpaPhases : RpaStep(job[a][n], q) /\ job' = [job EXCEPT ![a][n] = q]
    /\ UNCHANGED <<delivery, router, plain, parks, boot, begun, stopped, restarts>>

(* Unlike that of a chat, the record of an RPA continuation is settled after its run. *)
Deliver(a, n) ==
    /\ job[a][n] = "settling" /\ Gone(a, n)
    /\ Finished(a, n, "completed")
    /\ UNCHANGED <<run, vote, router, plain, parks, boot, begun, stopped, restarts>>

(* One that raises is not taken up again: its record is blocked, then its run fails. *)
Raise(a, n) ==
    /\ job[a][n] \in RpaPhases \union {"taken"}
    /\ job' = [job EXCEPT ![a][n] = "raised"]
    /\ Finished(a, n, "blocked")
    /\ UNCHANGED <<run, vote, router, plain, parks, boot, begun, stopped, restarts>>

Fail(a, n) ==
    /\ job[a][n] = "raised" /\ Gone(a, n)
    /\ Turns("failed")
    /\ UNCHANGED <<delivery, router, plain, parks, boot, begun, stopped, restarts>>

-----------------------------------------------------------------------------
(* People command the run, and the engine restarts.                        *)

(* A worker that is at work may take the signal of a command, outlive it and   *)
(* write over it, and an RPA execution writes "running" whatever has come      *)
(* since it looked; so may the parking of a run.                               *)
Unattended ==
    /\ plain = "none" /\ parks = 0
    /\ \A a \in Approval, n \in Attempts : job[a][n] \in {"none", "queued", "gone"}

Overtaken == {a \in Approval : vote[a] = "approved" /\ Unattended}

Cancel ==
    /\ run' = [status |-> "cancelled", control |-> "cancel"]
    /\ vote' = Closed("cancelled")
    /\ stopped' = Overtaken
    /\ UNCHANGED <<delivery, workers, boot, begun, restarts>>

Pause ==
    /\ "pause" \in Yields
    /\ run' = [status |-> "paused", control |-> "pause"]
    /\ stopped' = Overtaken
    /\ UNCHANGED <<vote, delivery, workers, boot, begun, restarts>>

(* An RPA run is not resumed, but retried as another run. *)
Resume ==
    /\ ~Rpa /\ "pause" \in Yields /\ plain = "none"
    /\ run' = [status |-> "running", control |-> "none"]
    /\ plain' = "queued" /\ stopped' = {}
    /\ UNCHANGED <<vote, delivery, router, job, parks, boot, begun, restarts>>

(* What is to be delivered, as list_undelivered_approval_resumes() tells it. *)
Listed == IF Ready THEN {a \in Approval : vote[a] = "approved" /\ delivery[a].state \in Undelivered}
                   ELSE {}

(* reconcile_orphaned_runs() interrupts a run that nobody executes any more. *)
Orphaned == [run EXCEPT !.status = IF @ = "running" /\ Listed = {} THEN "interrupted" ELSE @]

(* recover_interrupted_rpa_approval_resumes() *)
FencedAsRun ==  \* slip: the record is told what the run is told
    [a \in Approval |-> IF Rpa /\ delivery[a].state = "executing"
                        THEN [delivery[a] EXCEPT !.state = "failed"] ELSE delivery[a]]

Fenced ==
    [a \in Approval |-> IF Rpa /\ delivery[a].state = "executing"
                        THEN [delivery[a] EXCEPT !.state = "blocked"] ELSE delivery[a]]

FailedRpa ==
    [Orphaned EXCEPT !.status = IF Fenced # delivery /\ @ \in {"running", "waiting_approval", "waiting_input"}
                                THEN "failed" ELSE @]

Restart ==
    /\ restarts < MaxRestart /\ restarts' = restarts + 1
    /\ router' = [a \in Approval |-> "idle"]
    /\ job' = [a \in Approval |-> [n \in Attempts |-> IF job[a][n] = "none" THEN "none" ELSE "gone"]]
    /\ plain' = "none" /\ parks' = 0
    /\ delivery' = Fenced /\ run' = FailedRpa
    /\ vote' = IF Orphaned = run THEN vote ELSE Closed(Orphaned.status)
    /\ boot' = Listed
    /\ UNCHANGED <<begun, stopped>>

(* recover_approval_resumes(restart=True): scheduled once is not consumed. *)
Redeliver(a) ==
    /\ a \in boot /\ boot' = boot \ {a}
    /\ \/ Claimable(a, Undelivered) /\ Claimed(a)
       \/ ~Claimable(a, Undelivered) /\ UNCHANGED <<delivery, router>>
    /\ UNCHANGED <<run, vote, job, plain, parks, begun, stopped, restarts>>

-----------------------------------------------------------------------------
Deciding == \E a \in Approval : Approve(a) \/ Reject(a) \/ \E b \in Approval : Replace(a, b)

Routing ==
    \E a \in Approval : Submit(a) \/ GiveUp(a) \/ Block(a) \/ TellBlocked(a) \/ Return(a) \/ Redeliver(a)

Working ==
    \/ Park \/ PlainBegins \/ PlainEnds \/ \E b \in Approval : PlainAsks(b)
    \/ PlainCarries \/ PlainGoes \/ Overhear
    \/ \E a \in Approval, n \in Attempts :
          \/ Consume(a, n) \/ Obey(a, n) \/ End(a, n)
          \/ Begin(a, n) \/ Carry(a, n) \/ Deliver(a, n) \/ Raise(a, n) \/ Fail(a, n)
          \/ \E b \in Approval : JobAsks(a, n, b)

Leaving == \E a \in Approval, n \in Attempts : Leave(a, n)

Commanding == Cancel \/ Pause \/ Resume \/ Restart

Next == Deciding \/ (\E a \in Approval : Claim(a)) \/ Routing \/ Working \/ Leaving \/ Commanding

Spec == Init /\ [][Next]_vars

(* The loops of the router and the runner go on, and watchdogs end every worker. *)
Fairness ==
    /\ WF_vars(\E a \in Approval : Sweep(a))
    /\ WF_vars(Routing) /\ WF_vars(Working \/ Leaving)

FairSpec == Spec /\ Fairness

-----------------------------------------------------------------------------
(***************************************************************************)
(* A decision continues its run at most once, whatever is redelivered.     *)
(***************************************************************************)
DeliveredOnce == \A a \in Approval : begun[a] <= 1

(***************************************************************************)
(* The worker that continues a run is the one its record names, and the    *)
(* only one that a delivery has started: neither a worker of an earlier    *)
(* attempt nor that of a replaced decision is at work.                     *)
(***************************************************************************)
RowNamesWorker ==
    /\ \A a \in Approval, n \in Attempts : job[a][n] \in AtWork =>
          vote[a] = "approved" /\ delivery[a] = [state |-> "executing", attempt |-> n]
    /\ \A a, b \in Executing : a = b

(***************************************************************************)
(* A command to stop is the last word on the decisions made before it: if  *)
(* it finds nobody at work, none of them begins a continuation, whatever   *)
(* was claimed, queued or handed over, and whatever a restart claims again *)
(* or a worker queued next to it takes of its signal.                      *)
(***************************************************************************)
StoppedStaysStopped == [][\A a \in stopped : begun'[a] = begun[a]]_vars

(* A decision need not be taken up when its run is stopped or asks again. *)
Excused(a) == ~Ready \/ Asked # {} \/ delivery[a].attempt = MaxAttempt

(***************************************************************************)
(* A decision that sends its run on is taken up: it does not stay pending. *)
(***************************************************************************)
DecisionTakenUp ==
    \A a \in Approval : delivery[a].state = "pending" ~> delivery[a].state # "pending" \/ Excused(a)
=============================================================================
