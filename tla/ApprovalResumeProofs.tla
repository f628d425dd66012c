------------------------ MODULE ApprovalResumeProofs ------------------------
(***************************************************************************)
(* Theorems about ApprovalResume, for every set of approvals, any number   *)
(* of attempts and restarts, chats and RPA executions alike.               *)
(***************************************************************************)
EXTENDS ApprovalResume, TLAPS

USE ApprovalAssumption

Statuses == Final \union {"running", "waiting_approval", "waiting_input", "paused"}
Controls == Signals \union {"none"}
Votes == {"absent", "pending", "approved", "rejected", "cancelled"}
Marks == Undelivered \union {"none", "executing", "completed", "blocked", "superseded"}
JobStates == AtWork \union {"none", "queued", "raised", "gone"}
PlainStates == {"none", "queued", "executing"} \union RpaPhases
Records == [state : Marks, attempt : 0..MaxAttempt]

RunTyped == run \in [status : Statuses, control : Controls]
VoteTyped == vote \in [Approval -> Votes]
DeliveryTyped == delivery \in [Approval -> Records]
JobTyped == job \in [Approval -> [Attempts -> JobStates]]
RestTyped ==
    /\ router \in [Approval -> {"idle", "claimed", "submitted", "blocking"}]
    /\ plain \in PlainStates
    /\ parks \in Nat
    /\ boot \in SUBSET Approval
    /\ begun \in [Approval -> Nat]
    /\ stopped \in SUBSET Approval
    /\ restarts \in 0..MaxRestart

Typed == RunTyped /\ VoteTyped /\ DeliveryTyped /\ JobTyped /\ RestTyped

LEMMA Parts == TypeOK <=> Typed
  BY DEF TypeOK, Typed, RunTyped, VoteTyped, DeliveryTyped, JobTyped, RestTyped,
         Statuses, Controls, Votes, Marks, JobStates, PlainStates, Records

(* The words the actions write. *)
LEMMA Words ==
    /\ {"running", "waiting_approval", "waiting_input", "paused", "completed", "failed",
        "cancelled", "interrupted"} \subseteq Statuses
    /\ {"none", "approval_rejected", "pause", "cancel"} \subseteq Controls
    /\ Votes = {"absent", "pending", "approved", "rejected", "cancelled"}
    /\ {"pending", "scheduled", "none", "executing", "completed", "blocked", "superseded"} \subseteq Marks
    /\ {"none", "queued", "executing", "taken", "preparing", "settling", "raised", "gone"} \subseteq JobStates
    /\ {"none", "queued", "executing", "preparing"} \subseteq PlainStates
    /\ RpaPhases \subseteq PlainStates /\ RpaPhases \subseteq JobStates
  BY DEF Statuses, Controls, Votes, Marks, JobStates, PlainStates, Final, Stops, Signals, Undelivered,
         AtWork, RpaPhases

(* Who is at work and who is not. *)
LEMMA Places ==
    /\ {"none", "queued", "raised", "gone"} \intersect AtWork = {}
    /\ {"executing", "taken", "preparing", "settling"} \subseteq AtWork /\ RpaPhases \subseteq AtWork
    /\ {"none", "queued", "gone", "executing"} \intersect RpaPhases = {}
  BY DEF AtWork, RpaPhases

(* A worker moves to another place. *)
Goes(a, n, w) == job' = [job EXCEPT ![a][n] = w]

LEMMA MarkedTyped ==
    ASSUME DeliveryTyped, NEW a \in Approval, NEW state \in Marks, Marked(a, state)
    PROVE  DeliveryTyped'
  BY DEF DeliveryTyped, Marked, Records

LEMMA BecomesTyped ==
    ASSUME RunTyped, NEW status \in Statuses, Becomes(status)
    PROVE  RunTyped'
  BY DEF RunTyped, Becomes

LEMMA ClosedTyped ==
    ASSUME VoteTyped, NEW status
    PROVE  Closed(status) \in [Approval -> Votes]
  BY Words DEF VoteTyped, Closed

LEMMA TurnsTyped ==
    ASSUME RunTyped, VoteTyped, NEW status \in Statuses, Turns(status)
    PROVE  RunTyped' /\ VoteTyped'
  BY BecomesTyped, ClosedTyped DEF Turns, VoteTyped

LEMMA GoesTyped ==
    ASSUME JobTyped, NEW a \in Approval, NEW n \in Attempts, NEW w \in JobStates, Goes(a, n, w)
    PROVE  JobTyped'
  BY DEF JobTyped, Goes

LEMMA GoneTyped ==
    ASSUME JobTyped, NEW a \in Approval, NEW n \in Attempts, Gone(a, n)
    PROVE  JobTyped'
  BY GoesTyped, Words DEF Gone, Goes

LEMMA FinishedTyped ==
    ASSUME DeliveryTyped, NEW a \in Approval, NEW n \in Attempts, NEW state \in Marks,
           Finished(a, n, state)
    PROVE  DeliveryTyped'
  BY MarkedTyped, Words DEF Finished, DeliveryTyped

LEMMA AsksTyped ==
    ASSUME Typed, NEW b \in Approval, Asks(b)
    PROVE  VoteTyped' /\ RunTyped' /\ parks' \in Nat
  <1>1. VoteTyped' BY Words DEF Asks, Typed, VoteTyped
  <1>2. CASE "slow" \in Yields BY <1>1, <1>2 DEF Asks, Typed, RestTyped, RunTyped
  <1>3. CASE "slow" \notin Yields
    BY <1>1, <1>3, BecomesTyped, Words DEF Asks, Typed, RestTyped
  <1> QED BY <1>2, <1>3

LEMMA ClaimedTyped ==
    ASSUME Typed, NEW a \in Approval, Claimed(a), delivery[a].attempt < MaxAttempt
    PROVE  DeliveryTyped' /\ router' \in [Approval -> {"idle", "claimed", "submitted", "blocking"}]
  <1>1. delivery[a].attempt \in 0..MaxAttempt BY DEF Typed, DeliveryTyped, Records
  <1>2. [state |-> "scheduled", attempt |-> delivery[a].attempt + 1] \in Records
    BY <1>1, Words DEF Records
  <1>3. DeliveryTyped' BY <1>2 DEF Claimed, Typed, DeliveryTyped
  <1> QED BY <1>3 DEF Claimed, Typed, RestTyped

(* An RPA execution writes words of the run's types. *)
LEMMA RpaTyped ==
    ASSUME Typed, NEW p, NEW q, RpaStep(p, q)
    PROVE  RunTyped' /\ VoteTyped'
  <1> USE DEF Typed
  <1>1. CASE Writes(p, q)
    <2>1. Final \union {"running", "waiting_approval", "paused"} \subseteq Statuses BY DEF Statuses
    <2> QED BY <1>1, <2>1, TurnsTyped DEF Writes
  <1>2. CASE Looks(p, q)
    <2>1. RunTyped' BY <1>2, Words DEF Looks, RunTyped
    <2> QED BY <1>2, <2>1 DEF Looks, VoteTyped
  <1>3. CASE Requests(p, q)
    <2>1. VoteTyped' BY <1>3, Words DEF Requests, VoteTyped
    <2> QED BY <1>3, <2>1 DEF Requests, RunTyped
  <1> QED BY <1>1, <1>2, <1>3 DEF RpaStep

-----------------------------------------------------------------------------
LEMMA TypedInit == Init => Typed
  <1> SUFFICES ASSUME Init PROVE Typed OBVIOUS
  <1>1. 0 \in 0..MaxAttempt /\ 0 \in 0..MaxRestart OBVIOUS
  <1>2. RunTyped /\ VoteTyped /\ JobTyped BY Words DEF Init, RunTyped, VoteTyped, JobTyped
  <1>3. [state |-> "none", attempt |-> 0] \in Records BY <1>1, Words DEF Records
  <1>4. DeliveryTyped BY <1>3 DEF Init, DeliveryTyped
  <1>5. RestTyped BY <1>1, Words DEF Init, RestTyped
  <1> QED BY <1>2, <1>4, <1>5 DEF Typed

LEMMA DecidingTyped == ASSUME Typed, Deciding PROVE Typed'
  <1> USE DEF Typed
  <1>1. ASSUME NEW a \in Approval, Approve(a) PROVE Typed'
    <2>1. VoteTyped' BY <1>1, Words DEF Approve, VoteTyped
    <2>2. RunTyped' BY <1>1, BecomesTyped, Words DEF Approve, RunTyped
    <2>3. DeliveryTyped' BY <1>1, MarkedTyped, Words DEF Approve, DeliveryTyped
    <2> QED BY <1>1, <2>1, <2>2, <2>3 DEF Approve, workers, JobTyped, RestTyped
  <1>2. ASSUME NEW a \in Approval, Reject(a) PROVE Typed'
    <2>1. VoteTyped' BY <1>2, Words DEF Reject, VoteTyped
    <2>2. [status |-> "waiting_input", control |-> "approval_rejected"]
            \in [status : Statuses, control : Controls] BY Words
    <2>3. RunTyped' BY <1>2, <2>2 DEF Reject, RunTyped
    <2> QED BY <1>2, <2>1, <2>3 DEF Reject, workers, JobTyped, RestTyped, DeliveryTyped
  <1>3. ASSUME NEW a \in Approval, NEW b \in Approval, Replace(a, b) PROVE Typed'
    <2>1. VoteTyped' BY <1>3, Words DEF Replace, VoteTyped
    <2>2. RunTyped' BY <1>3, BecomesTyped, Words DEF Replace
    <2>3. DeliveryTyped' BY <1>3, MarkedTyped, Words DEF Replace, DeliveryTyped
    <2> QED BY <1>3, <2>1, <2>2, <2>3 DEF Replace, workers, JobTyped, RestTyped
  <1> QED BY <1>1, <1>2, <1>3 DEF Deciding

LEMMA ClaimTyped == ASSUME Typed, NEW a \in Approval, Claim(a) PROVE Typed'
  BY ClaimedTyped DEF Claim, Claimable, Typed, RunTyped, VoteTyped, JobTyped, RestTyped

LEMMA RoutingTyped == ASSUME Typed, Routing PROVE Typed'
  <1> USE DEF Typed
  <1>1. ASSUME NEW a \in Approval, Submit(a) PROVE Typed'
    <2>1. JobTyped' BY <1>1, Words DEF Submit, JobTyped
    <2> QED BY <1>1, <2>1 DEF Submit, rows, RunTyped, VoteTyped, DeliveryTyped, RestTyped
  <1>2. ASSUME NEW a \in Approval, GiveUp(a) PROVE Typed'
    <2>1. DeliveryTyped' BY <1>2, MarkedTyped, Words DEF GiveUp, DeliveryTyped
    <2> QED BY <1>2, <2>1 DEF GiveUp, RunTyped, VoteTyped, JobTyped, RestTyped
  <1>3. ASSUME NEW a \in Approval, Block(a) PROVE Typed'
    <2>1. DeliveryTyped' BY <1>3, MarkedTyped, Words DEF Block, DeliveryTyped
    <2> QED BY <1>3, <2>1 DEF Block, RunTyped, VoteTyped, JobTyped, RestTyped
  <1>4. ASSUME NEW a \in Approval, TellBlocked(a) PROVE Typed'
    <2>1. RunTyped' BY <1>4, BecomesTyped, Words DEF TellBlocked, RunTyped
    <2> QED BY <1>4, <2>1 DEF TellBlocked, DeliveryTyped, VoteTyped, JobTyped, RestTyped
  <1>5. ASSUME NEW a \in Approval, Return(a) PROVE Typed'
    BY <1>5 DEF Return, rows, RunTyped, VoteTyped, DeliveryTyped, JobTyped, RestTyped
  <1>6. ASSUME NEW a \in Approval, Redeliver(a) PROVE Typed'
    <2>1. DeliveryTyped' /\ router' \in [Approval -> {"idle", "claimed", "submitted", "blocking"}]
      BY <1>6, ClaimedTyped DEF Redeliver, Claimable, DeliveryTyped, RestTyped
    <2> QED BY <1>6, <2>1 DEF Redeliver, RunTyped, VoteTyped, JobTyped, RestTyped
  <1> QED BY <1>1, <1>2, <1>3, <1>4, <1>5, <1>6 DEF Routing

LEMMA WorkingTyped == ASSUME Typed, Working \/ Leaving PROVE Typed'
  <1> USE DEF Typed
  <1>1. ASSUME Park PROVE Typed'
    <2>1. RunTyped' BY <1>1, BecomesTyped, Words DEF Park
    <2> QED BY <1>1, <2>1 DEF Park, VoteTyped, DeliveryTyped, JobTyped, RestTyped
  <1>2. ASSUME PlainBegins PROVE Typed'
    <2>1. RunTyped' BY <1>2, Words DEF PlainBegins, RunTyped
    <2>2. plain' \in PlainStates BY <1>2, Words DEF PlainBegins
    <2> QED BY <1>2, <2>1, <2>2 DEF PlainBegins, VoteTyped, DeliveryTyped, JobTyped, RestTyped
  <1>3. ASSUME PlainEnds PROVE Typed'
    <2>1. RunTyped' /\ VoteTyped' BY <1>3, TurnsTyped, Words DEF PlainEnds, RunTyped, VoteTyped
    <2>2. plain' \in PlainStates BY <1>3, Words DEF PlainEnds
    <2> QED BY <1>3, <2>1, <2>2 DEF PlainEnds, DeliveryTyped, JobTyped, RestTyped
  <1>4. ASSUME NEW b \in Approval, PlainAsks(b) PROVE Typed'
    BY <1>4, AsksTyped, Words DEF PlainAsks, DeliveryTyped, JobTyped, RestTyped
  <1>5. ASSUME NEW a \in Approval, NEW n \in Attempts, Consume(a, n) PROVE Typed'
    <2>1. DeliveryTyped' BY <1>5, MarkedTyped, Words DEF Consume
    <2>2. JobTyped' BY <1>5, GoesTyped, Words DEF Consume, Goes
    <2> QED BY <1>5, <2>1, <2>2 DEF Consume, RunTyped, VoteTyped, RestTyped
  <1>6. ASSUME NEW a \in Approval, NEW n \in Attempts, Obey(a, n) PROVE Typed'
    <2>1. RunTyped' BY <1>6, Words DEF Obey, RunTyped
    <2> QED BY <1>6, <2>1, GoneTyped DEF Obey, VoteTyped, DeliveryTyped, RestTyped
  <1>7. ASSUME NEW a \in Approval, NEW n \in Attempts, End(a, n) PROVE Typed'
    <2>1. RunTyped' /\ VoteTyped' BY <1>7, TurnsTyped, Words DEF End
    <2>2. DeliveryTyped' BY <1>7, FinishedTyped, Words DEF End
    <2> QED BY <1>7, <2>1, <2>2, GoneTyped DEF End, RestTyped
  <1>8. ASSUME NEW a \in Approval, NEW n \in Attempts, NEW b \in Approval, JobAsks(a, n, b)
        PROVE  Typed'
    <2>1. DeliveryTyped' BY <1>8, FinishedTyped, Words DEF JobAsks, DeliveryTyped
    <2> QED BY <1>8, <2>1, GoneTyped, AsksTyped DEF JobAsks, RestTyped
  <1>9. ASSUME NEW a \in Approval, NEW n \in Attempts, Leave(a, n) PROVE Typed'
    BY <1>9, GoneTyped DEF Leave, rows, RunTyped, VoteTyped, DeliveryTyped, RestTyped
  <1>10. ASSUME NEW a \in Approval, NEW n \in Attempts, Raise(a, n) PROVE Typed'
    <2>1. DeliveryTyped' BY <1>10, FinishedTyped, Words DEF Raise
    <2>2. JobTyped' BY <1>10, GoesTyped, Words DEF Raise, Goes
    <2> QED BY <1>10, <2>1, <2>2 DEF Raise, RunTyped, VoteTyped, RestTyped
  <1>11. ASSUME NEW a \in Approval, NEW n \in Attempts, Fail(a, n) PROVE Typed'
    BY <1>11, TurnsTyped, GoneTyped, Words DEF Fail, DeliveryTyped, RestTyped
  <1>12. ASSUME NEW a \in Approval, NEW n \in Attempts, Begin(a, n) PROVE Typed'
    <2>1. JobTyped' BY <1>12, GoesTyped, Words DEF Begin, Goes
    <2> QED BY <1>12, <2>1 DEF Begin, rows, RunTyped, VoteTyped, DeliveryTyped, RestTyped
  <1>13. ASSUME NEW a \in Approval, NEW n \in Attempts, Carry(a, n) PROVE Typed'
    <2>1. JobTyped' BY <1>13, GoesTyped, Words DEF Carry, Goes
    <2> QED BY <1>13, <2>1, RpaTyped DEF Carry, DeliveryTyped, RestTyped
  <1>14. ASSUME NEW a \in Approval, NEW n \in Attempts, Deliver(a, n) PROVE Typed'
    <2>1. DeliveryTyped' BY <1>14, FinishedTyped, Words DEF Deliver
    <2> QED BY <1>14, <2>1, GoneTyped DEF Deliver, RunTyped, VoteTyped, RestTyped
  <1>15. ASSUME PlainCarries PROVE Typed'
    BY <1>15, RpaTyped, Words DEF PlainCarries, DeliveryTyped, JobTyped, RestTyped
  <1>16. ASSUME PlainGoes PROVE Typed'
    BY <1>16, Words DEF PlainGoes, rows, RunTyped, VoteTyped, DeliveryTyped, JobTyped, RestTyped
  <1>17. ASSUME Overhear PROVE Typed'
    <2>1. RunTyped' BY <1>17, Words DEF Overhear, RunTyped
    <2> QED BY <1>17, <2>1 DEF Overhear, workers, VoteTyped, DeliveryTyped, JobTyped, RestTyped
  <1> QED
    BY <1>1, <1>2, <1>3, <1>4, <1>5, <1>6, <1>7, <1>8, <1>9, <1>10, <1>11, <1>12, <1>13, <1>14, <1>15,
       <1>16, <1>17
    DEF Working, Leaving

LEMMA FencedTyped == ASSUME DeliveryTyped PROVE Fenced \in [Approval -> Records]
  BY Words DEF DeliveryTyped, Fenced, Records

LEMMA CommandingTyped == ASSUME Typed, Commanding PROVE Typed'
  <1> USE DEF Typed
  <1>1. ASSUME Cancel PROVE Typed'
    <2>1. RunTyped' BY <1>1, Words DEF Cancel, RunTyped
    <2>2. VoteTyped' BY <1>1, ClosedTyped DEF Cancel, VoteTyped
    <2> QED BY <1>1, <2>1, <2>2 DEF Cancel, Overtaken, workers, DeliveryTyped, JobTyped, RestTyped
  <1>2. ASSUME Pause PROVE Typed'
    <2>1. RunTyped' BY <1>2, Words DEF Pause, RunTyped
    <2> QED BY <1>2, <2>1 DEF Pause, Overtaken, workers, VoteTyped, DeliveryTyped, JobTyped, RestTyped
  <1>3. ASSUME Resume PROVE Typed'
    <2>1. RunTyped' BY <1>3, Words DEF Resume, RunTyped
    <2> QED BY <1>3, <2>1, Words DEF Resume, VoteTyped, DeliveryTyped, JobTyped, RestTyped
  <1>4. ASSUME Restart PROVE Typed'
    <2>1. Orphaned \in [status : Statuses, control : Controls] BY Words DEF Orphaned, RunTyped
    <2>2. RunTyped' BY <1>4, <2>1, Words DEF Restart, FailedRpa, RunTyped
    <2>3. DeliveryTyped' BY <1>4, FencedTyped DEF Restart, DeliveryTyped
    <2>4. JobTyped' BY <1>4, Words DEF Restart, JobTyped
    <2>5. Listed \in SUBSET Approval BY DEF Listed
    <2>6. VoteTyped' BY <1>4, ClosedTyped DEF Restart, VoteTyped
    <2> QED BY <1>4, <2>2, <2>3, <2>4, <2>5, <2>6, Words DEF Restart, RestTyped
  <1> QED BY <1>1, <1>2, <1>3, <1>4 DEF Commanding

LEMMA TypedNext == ASSUME Typed, [Next]_vars PROVE Typed'
  <1>1. CASE UNCHANGED vars
    BY <1>1 DEF vars, rows, workers, Typed, RunTyped, VoteTyped, DeliveryTyped, JobTyped, RestTyped
  <1> QED BY <1>1, DecidingTyped, ClaimTyped, RoutingTyped, WorkingTyped, CommandingTyped DEF Next

(***************************************************************************)
(* The run, the decisions, the records and the workers keep their types.   *)
(***************************************************************************)
THEOREM TypeCorrect == Spec => []TypeOK
  <1>1. Typed /\ [Next]_vars => Typed' BY TypedNext
  <1> QED BY <1>1, TypedInit, Parts, PTL DEF Spec

-----------------------------------------------------------------------------
(* What makes both properties inductive: two records of a run are never    *)
(* reserved at once, and one that was consumed is not undelivered again.   *)

Live(a) == delivery[a].state \in {"scheduled", "executing"}
Consumed == {"executing", "completed", "blocked", "superseded"}

Named ==
    \A a \in Approval, n \in Attempts :
        job[a][n] \in AtWork => delivery[a].state = "executing" /\ delivery[a].attempt = n

OneReserved == \A a, b \in Approval : Live(a) /\ Live(b) => a = b

Decided == \A a \in Approval : delivery[a].state # "none" => vote[a] = "approved"

BegunForGood ==
    \A a \in Approval : begun[a] <= 1 /\ (begun[a] # 0 => delivery[a].state \in Consumed)

Inv == Typed /\ Named /\ OneReserved /\ Decided /\ BegunForGood

(* What every step but a claim and a consumption does to the decisions,    *)
(* the records and the workers.                                            *)
Stayed(a) == delivery'[a] = delivery[a]

Released(a) ==
    /\ delivery'[a].state \notin {"scheduled", "executing"}
    /\ vote'[a] = "approved"
    /\ \A n \in Attempts : job'[a][n] \notin AtWork
    /\ begun[a] # 0 => delivery'[a].state \in Consumed

Calm ==
    /\ begun' = begun
    /\ \A a \in Approval : vote[a] = "approved" => vote'[a] = "approved"
    /\ \A a \in Approval, n \in Attempts : job'[a][n] \in AtWork => job[a][n] \in AtWork
    /\ \A a \in Approval : Stayed(a) \/ Released(a)

LEMMA CalmKeeps == ASSUME Inv, Calm PROVE (Named /\ OneReserved /\ Decided /\ BegunForGood)'
  <1> USE DEF Inv
  <1>1. Named' BY DEF Named, Calm, Stayed, Released
  <1>2. \A a \in Approval : Live(a)' => Live(a) BY DEF Calm, Live, Stayed, Released
  <1>3. OneReserved' BY <1>2 DEF OneReserved
  <1>4. BegunForGood' BY DEF BegunForGood, Calm, Stayed, Released
  <1>5. Decided' BY DEF Decided, Calm, Stayed, Released
  <1> QED BY <1>1, <1>3, <1>4, <1>5

(* A record that is written and names no worker any more. *)
LEMMA MarkReleases ==
    ASSUME Inv, NEW a \in Approval, NEW state \in Marks, Marked(a, state),
           state \notin {"scheduled", "executing"}, vote'[a] = "approved",
           \A n \in Attempts : job'[a][n] \notin AtWork,
           begun[a] # 0 => state \in Consumed
    PROVE  \A b \in Approval : Stayed(b) \/ Released(b)
  BY DEF Inv, Typed, DeliveryTyped, Records, Marked, Stayed, Released

LEMMA ApproveCalm == ASSUME Inv, NEW a \in Approval, Approve(a) PROVE Calm
  <1> USE DEF Inv
  <1>1. begun' = begun /\ job' = job BY DEF Approve, workers
  <1>2. \A b \in Approval : vote[b] = "approved" => vote'[b] = "approved"
    BY DEF Approve, Typed, VoteTyped
  <1>3. vote'[a] = "approved" /\ delivery[a].state = "none"
    BY DEF Approve, Decidable, Decided, Typed, VoteTyped
  <1>4. \A n \in Attempts : job'[a][n] \notin AtWork BY <1>1, <1>3 DEF Named
  <1>5. begun[a] = 0 BY <1>3 DEF BegunForGood, Consumed, Typed, RestTyped
  <1>6. CASE UNCHANGED delivery BY <1>1, <1>2, <1>6 DEF Calm, Stayed
  <1>7. CASE Marked(a, "pending")
    BY <1>1, <1>2, <1>3, <1>4, <1>5, <1>7, MarkReleases, Words DEF Calm
  <1> QED BY <1>6, <1>7 DEF Approve

LEMMA RejectCalm == ASSUME Inv, NEW a \in Approval, Reject(a) PROVE Calm
  BY DEF Inv, Reject, Decidable, workers, Calm, Stayed, Typed, VoteTyped

LEMMA ReplaceCalm == ASSUME Inv, NEW a \in Approval, NEW b \in Approval, Replace(a, b) PROVE Calm
  <1> USE DEF Inv
  <1>1. begun' = begun /\ job' = job BY DEF Replace, workers
  <1>2. \A c \in Approval : vote[c] = "approved" => vote'[c] = "approved"
    BY DEF Replace, Typed, VoteTyped
  <1>3. \A n \in Attempts : job'[a][n] \notin AtWork BY <1>1 DEF Replace, Named
  <1>4. CASE UNCHANGED delivery BY <1>1, <1>2, <1>4 DEF Calm, Stayed
  <1>5. CASE vote[a] = "approved" /\ Marked(a, "superseded")
    BY <1>1, <1>2, <1>3, <1>5, MarkReleases, Words DEF Calm, Consumed
  <1> QED BY <1>4, <1>5 DEF Replace

LEMMA GiveUpCalm == ASSUME Inv, NEW a \in Approval, GiveUp(a) PROVE Calm
  <1> USE DEF Inv
  <1>1. begun' = begun /\ job' = job /\ vote' = vote BY DEF GiveUp
  <1>2. CASE UNCHANGED delivery BY <1>1, <1>2 DEF Calm, Stayed
  <1>3. CASE delivery[a].state = "scheduled" /\ Marked(a, "pending")
    <2>1. \A n \in Attempts : job'[a][n] \notin AtWork BY <1>1, <1>3 DEF Named
    <2>2. begun[a] = 0 BY <1>3 DEF BegunForGood, Consumed
    <2>3. vote'[a] = "approved" BY <1>1, <1>3 DEF Decided
    <2> QED BY <1>1, <1>3, <2>1, <2>2, <2>3, MarkReleases, Words DEF Calm
  <1> QED BY <1>2, <1>3 DEF GiveUp

LEMMA BlockCalm == ASSUME Inv, NEW a \in Approval, Block(a) PROVE Calm
  <1> USE DEF Inv
  <1>1. begun' = begun /\ job' = job /\ vote' = vote BY DEF Block
  <1>2. CASE UNCHANGED delivery BY <1>1, <1>2 DEF Calm, Stayed
  <1>3. CASE delivery[a].state = "scheduled" /\ Marked(a, "blocked")
    <2>1. \A n \in Attempts : job'[a][n] \notin AtWork BY <1>1, <1>3 DEF Named
    <2>2. vote'[a] = "approved" BY <1>1, <1>3 DEF Decided
    <2> QED BY <1>1, <1>3, <2>1, <2>2, MarkReleases, Words DEF Calm, Consumed
  <1> QED BY <1>2, <1>3 DEF Block

LEMMA SubmitCalm == ASSUME Inv, NEW a \in Approval, Submit(a) PROVE Calm
  <1>1. \A b \in Approval, n \in Attempts : job'[b][n] \in AtWork => job[b][n] \in AtWork
    BY Places DEF Inv, Submit, Typed, JobTyped
  <1> QED BY <1>1 DEF Submit, rows, Calm, Stayed

(* A worker that moves, from work to work or out of it. *)
LEMMA GoesCalms ==
    ASSUME Inv, NEW a \in Approval, NEW n \in Attempts, NEW w, Goes(a, n, w),
           job[a][n] \in AtWork \/ w \notin AtWork
    PROVE  /\ job'[a][n] = w
           /\ \A b \in Approval, m \in Attempts : job'[b][m] \in AtWork => job[b][m] \in AtWork
  BY DEF Inv, Typed, JobTyped, Goes

LEMMA GoneCalms ==
    ASSUME Inv, NEW a \in Approval, NEW n \in Attempts, Gone(a, n)
    PROVE  /\ job'[a][n] \notin AtWork
           /\ \A b \in Approval, m \in Attempts : job'[b][m] \in AtWork => job[b][m] \in AtWork
  BY GoesCalms, Places DEF Gone, Goes

LEMMA FinishedCalms ==
    ASSUME Inv, NEW a \in Approval, NEW n \in Attempts, NEW state \in Marks,
           NEW w, Goes(a, n, w), w \notin AtWork,
           Finished(a, n, state), state \in {"completed", "blocked"},
           \A b \in Approval : vote[b] = "approved" => vote'[b] = "approved"
    PROVE  \A b \in Approval : Stayed(b) \/ Released(b)
  <1> USE DEF Inv
  <1>1. CASE UNCHANGED delivery BY <1>1 DEF Stayed
  <1>2. CASE delivery[a] = [state |-> "executing", attempt |-> n] /\ Marked(a, state)
    <2>1. \A m \in Attempts : job'[a][m] \notin AtWork BY <1>2, GoesCalms DEF Named
    <2>2. vote'[a] = "approved" BY <1>2 DEF Decided
    <2> QED BY <1>2, <2>1, <2>2, MarkReleases, Words DEF Consumed
  <1> QED BY <1>1, <1>2 DEF Finished

LEMMA AsksKeepsVotes ==
    ASSUME Inv, NEW b \in Approval, Asks(b)
    PROVE  \A a \in Approval : vote[a] = "approved" => vote'[a] = "approved"
  BY DEF Inv, Typed, VoteTyped, Asks

(* Nor does the abortion of a run, or an RPA execution, take a decision back. *)
LEMMA ClosedKeepsVotes ==
    ASSUME Inv, NEW status
    PROVE  \A a \in Approval : vote[a] = "approved" => Closed(status)[a] = "approved"
  BY DEF Inv, Typed, VoteTyped, Closed

LEMMA RpaKeepsVotes ==
    ASSUME Inv, NEW p, NEW q, RpaStep(p, q)
    PROVE  \A a \in Approval : vote[a] = "approved" => vote'[a] = "approved"
  <1>1. CASE Writes(p, q) BY <1>1, ClosedKeepsVotes DEF Writes, Turns
  <1>2. CASE Looks(p, q) BY <1>2 DEF Looks
  <1>3. CASE Requests(p, q) BY <1>3 DEF Requests, Inv, Typed, VoteTyped
  <1> QED BY <1>1, <1>2, <1>3 DEF RpaStep

LEMMA WorkersCalm ==
    ASSUME Inv,
           \/ Park \/ PlainBegins \/ PlainEnds \/ PlainCarries \/ PlainGoes \/ Overhear
           \/ (\E b \in Approval : PlainAsks(b)) \/ Leaving
    PROVE  Calm
  <1>1. CASE Park \/ PlainBegins \/ PlainGoes \/ Overhear
    BY <1>1 DEF Park, PlainBegins, PlainGoes, Overhear, rows, workers, Calm, Stayed
  <1>4. CASE PlainEnds BY <1>4, ClosedKeepsVotes DEF PlainEnds, Turns, Calm, Stayed
  <1>5. CASE PlainCarries BY <1>5, RpaKeepsVotes DEF PlainCarries, Calm, Stayed
  <1>2. ASSUME NEW b \in Approval, PlainAsks(b) PROVE Calm
    BY <1>2, AsksKeepsVotes DEF PlainAsks, Calm, Stayed
  <1>3. ASSUME NEW a \in Approval, NEW n \in Attempts, Leave(a, n) PROVE Calm
    BY <1>3, GoneCalms DEF Leave, rows, Calm, Stayed
  <1> QED BY <1>1, <1>2, <1>3, <1>4, <1>5 DEF Leaving

LEMMA JobsCalm ==
    ASSUME Inv, NEW a \in Approval, NEW n \in Attempts,
           \/ Obey(a, n) \/ End(a, n) \/ (\E b \in Approval : JobAsks(a, n, b))
           \/ Begin(a, n) \/ Carry(a, n) \/ Deliver(a, n) \/ Raise(a, n) \/ Fail(a, n)
    PROVE  Calm
  <1>1. CASE Obey(a, n) BY <1>1, GoneCalms DEF Obey, Calm, Stayed
  <1>2. CASE End(a, n)
    <2>1. Goes(a, n, "gone") /\ "gone" \notin AtWork BY <1>2, Places DEF End, Gone, Goes
    <2>2. \A c \in Approval : vote[c] = "approved" => vote'[c] = "approved"
      BY <1>2, ClosedKeepsVotes DEF End, Turns
    <2>3. \A c \in Approval : Stayed(c) \/ Released(c)
      BY <1>2, <2>1, <2>2, FinishedCalms, Words DEF End
    <2> QED BY <1>2, <2>2, <2>3, GoneCalms DEF End, Calm
  <1>3. ASSUME NEW b \in Approval, JobAsks(a, n, b) PROVE Calm
    <2>1. Goes(a, n, "gone") /\ "gone" \notin AtWork BY <1>3, Places DEF JobAsks, Gone, Goes
    <2>2. \A c \in Approval : Stayed(c) \/ Released(c)
      BY <1>3, <2>1, FinishedCalms, AsksKeepsVotes, Words DEF JobAsks, Stayed
    <2> QED BY <1>3, <2>2, GoneCalms, AsksKeepsVotes DEF JobAsks, Calm
  <1>4. CASE Raise(a, n)
    <2>1. Goes(a, n, "raised") /\ "raised" \notin AtWork BY <1>4, Places DEF Raise, Goes
    <2>2. \A c \in Approval : Stayed(c) \/ Released(c)
      BY <1>4, <2>1, FinishedCalms, Words DEF Raise
    <2> QED BY <1>4, <2>1, <2>2, GoesCalms DEF Raise, Calm
  <1>5. CASE Begin(a, n)
    <2>1. job[a][n] \in AtWork /\ \E w : Goes(a, n, w) BY <1>5, Places DEF Begin, Goes
    <2> QED BY <1>5, <2>1, GoesCalms DEF Begin, rows, Calm, Stayed
  <1>6. CASE Carry(a, n)
    <2>1. job[a][n] \in AtWork /\ \E w : Goes(a, n, w) BY <1>6, Places DEF Carry, Goes
    <2> QED BY <1>6, <2>1, GoesCalms, RpaKeepsVotes DEF Carry, Calm, Stayed
  <1>7. CASE Deliver(a, n)
    <2>1. Goes(a, n, "gone") /\ "gone" \notin AtWork BY <1>7, Places DEF Deliver, Gone, Goes
    <2>2. \A c \in Approval : Stayed(c) \/ Released(c)
      BY <1>7, <2>1, FinishedCalms, Words DEF Deliver
    <2> QED BY <1>7, <2>2, GoneCalms DEF Deliver, Calm
  <1>8. CASE Fail(a, n)
    BY <1>8, GoneCalms, ClosedKeepsVotes DEF Fail, Turns, Calm, Stayed
  <1> QED BY <1>1, <1>2, <1>3, <1>4, <1>5, <1>6, <1>7, <1>8

LEMMA CommandingCalm == ASSUME Inv, Commanding PROVE Calm
  <1> USE DEF Inv
  <1>1. CASE Cancel \/ Pause \/ Resume
    BY <1>1, ClosedKeepsVotes DEF Cancel, Pause, Resume, workers, Calm, Stayed
  <1>2. CASE Restart
    <2>1. \A a \in Approval, n \in Attempts : job'[a][n] \notin AtWork BY <1>2, Places DEF Restart
    <2>2. \A a \in Approval : vote[a] = "approved" => vote'[a] = "approved"
      BY <1>2, ClosedKeepsVotes DEF Restart
    <2>3. ASSUME NEW a \in Approval PROVE Stayed(a) \/ Released(a)
      <3>1. CASE delivery'[a] = delivery[a] BY <3>1 DEF Stayed
      <3>2. CASE delivery'[a] = [delivery[a] EXCEPT !.state = "blocked"]
        <4>1. delivery'[a].state = "blocked" BY <3>2 DEF Typed, DeliveryTyped, Records
        <4>2. delivery[a].state = "executing" \/ delivery'[a] = delivery[a]
          BY <1>2 DEF Restart, Fenced
        <4>3. CASE delivery[a].state = "executing"
          <5>1. vote'[a] = "approved" BY <2>2, <4>3 DEF Decided
          <5> QED BY <2>1, <4>1, <5>1 DEF Released, Consumed
        <4> QED BY <4>2, <4>3 DEF Stayed
      <3> QED BY <1>2, <3>1, <3>2 DEF Restart, Fenced
    <2> QED BY <1>2, <2>1, <2>2, <2>3 DEF Restart, Calm
  <1> QED BY <1>1, <1>2 DEF Commanding

-----------------------------------------------------------------------------
(* A claim: of the sweep or a decision, or after a restart. *)
LEMMA ClaimKeeps ==
    ASSUME Inv, NEW a \in Approval, NEW states, states \subseteq Undelivered,
           Claimable(a, states), Claimed(a), UNCHANGED <<vote, job, begun>>
    PROVE  (Named /\ OneReserved /\ Decided /\ BegunForGood)'
  <1> USE DEF Inv
  <1>1. delivery[a].state \in Undelivered BY DEF Claimable
  <1>2. \A b \in Approval \ {a} : ~Live(b) BY DEF Claimable, Reserved, Live
  <1>3. /\ delivery'[a].state = "scheduled"
        /\ \A b \in Approval \ {a} : delivery'[b] = delivery[b]
    BY DEF Claimed, Typed, DeliveryTyped
  <1>4. \A n \in Attempts : job[a][n] \notin AtWork BY <1>1 DEF Named, Undelivered
  <1>5. begun[a] = 0 BY <1>1 DEF BegunForGood, Undelivered, Consumed
  <1>6. Named' BY <1>3, <1>4 DEF Named
  <1>7. OneReserved' BY <1>2, <1>3 DEF OneReserved, Live
  <1>8. BegunForGood' BY <1>3, <1>5 DEF BegunForGood
  <1>9. Decided' BY <1>3 DEF Decided, Claimable
  <1> QED BY <1>6, <1>7, <1>8, <1>9

LEMMA RedeliverKeeps ==
    ASSUME Inv, NEW a \in Approval, Redeliver(a)
    PROVE  (Named /\ OneReserved /\ Decided /\ BegunForGood)'
  <1>1. CASE Claimable(a, Undelivered) /\ Claimed(a) BY <1>1, ClaimKeeps DEF Redeliver
  <1>2. CASE UNCHANGED <<delivery, router>>
    BY <1>2, CalmKeeps DEF Redeliver, Calm, Stayed
  <1> QED BY <1>1, <1>2 DEF Redeliver

LEMMA ConsumeKeeps ==
    ASSUME Inv, NEW a \in Approval, NEW n \in Attempts, Consume(a, n)
    PROVE  (Named /\ OneReserved /\ Decided /\ BegunForGood)'
  <1> USE DEF Inv
  <1>1. delivery[a] = [state |-> "scheduled", attempt |-> n] BY DEF Consume, Consumable
  <1>2. /\ delivery'[a] = [state |-> "executing", attempt |-> n]
        /\ \A b \in Approval \ {a} : delivery'[b] = delivery[b]
    BY <1>1 DEF Consume, Marked, Typed, DeliveryTyped, Records
  <1>3. \A m \in Attempts : job[a][m] \notin AtWork BY <1>1 DEF Named
  <1>4. begun[a] = 0 BY <1>1 DEF BegunForGood, Consumed
  <1>5. begun'[a] = 1 /\ \A b \in Approval \ {a} : begun'[b] = begun[b]
    BY <1>4 DEF Consume, Typed, RestTyped
  <1>6. \A b \in Approval, m \in Attempts :
          job'[b][m] \in AtWork => (b = a /\ m = n) \/ job[b][m] \in AtWork
    BY Places DEF Consume, Typed, JobTyped
  <1>7. vote' = vote BY DEF Consume
  <1>8. Named' BY <1>2, <1>3, <1>6 DEF Named
  <1>9. OneReserved' BY <1>1, <1>2 DEF OneReserved, Live
  <1>10. Decided' BY <1>1, <1>2, <1>7 DEF Decided
  <1>11. BegunForGood' BY <1>2, <1>5 DEF BegunForGood, Consumed
  <1> QED BY <1>8, <1>9, <1>10, <1>11

-----------------------------------------------------------------------------
LEMMA InvInit == Init => Inv
  <1> SUFFICES ASSUME Init PROVE Inv OBVIOUS
  <1>1. Typed BY TypedInit
  <1>2. \A a \in Approval : delivery[a].state = "none" /\ begun[a] = 0 BY DEF Init
  <1>3. Named BY Places DEF Init, Named
  <1> QED BY <1>1, <1>2, <1>3 DEF Inv, OneReserved, Live, Decided, BegunForGood

LEMMA InvNext == ASSUME Inv, [Next]_vars PROVE Inv'
  <1>1. SUFFICES (Named /\ OneReserved /\ Decided /\ BegunForGood)' BY TypedNext DEF Inv
  <1>2. CASE UNCHANGED vars BY <1>2, CalmKeeps DEF vars, rows, workers, Calm, Stayed
  <1>3. CASE Deciding BY <1>3, ApproveCalm, RejectCalm, ReplaceCalm, CalmKeeps DEF Deciding
  <1>4. ASSUME NEW a \in Approval, Claim(a) PROVE (Named /\ OneReserved /\ Decided /\ BegunForGood)'
    <2>1. {"pending"} \subseteq Undelivered BY DEF Undelivered
    <2> QED BY <1>4, <2>1, ClaimKeeps DEF Claim
  <1>5. CASE Routing
    <2>1. ASSUME NEW a \in Approval, TellBlocked(a) \/ Return(a) PROVE Calm
      BY <2>1 DEF TellBlocked, Return, rows, Calm, Stayed
    <2> QED BY <1>5, <2>1, SubmitCalm, GiveUpCalm, BlockCalm, RedeliverKeeps, CalmKeeps DEF Routing
  <1>6. CASE Working BY <1>6, WorkersCalm, JobsCalm, ConsumeKeeps, CalmKeeps DEF Working
  <1>7. CASE Leaving BY <1>7, WorkersCalm, CalmKeeps
  <1>8. CASE Commanding BY <1>8, CommandingCalm, CalmKeeps
  <1> QED BY <1>2, <1>3, <1>4, <1>5, <1>6, <1>7, <1>8 DEF Next

(***************************************************************************)
(* A decision continues its run at most once, whatever is redelivered.     *)
(***************************************************************************)
THEOREM Once == Spec => []DeliveredOnce
  <1>1. Inv /\ [Next]_vars => Inv' BY InvNext
  <1>2. Inv => DeliveredOnce BY DEF Inv, BegunForGood, DeliveredOnce
  <1> QED BY <1>1, <1>2, InvInit, PTL DEF Spec

(***************************************************************************)
(* The worker that continues a run is the one its record names, and the    *)
(* only one that a delivery has started.                                   *)
(***************************************************************************)
THEOREM OneWorker == Spec => []RowNamesWorker
  <1>1. Inv /\ [Next]_vars => Inv' BY InvNext
  <1>2. Inv => RowNamesWorker
    <2> SUFFICES ASSUME Inv PROVE RowNamesWorker OBVIOUS
    <2>1. \A a \in Approval, n \in Attempts : job[a][n] \in AtWork =>
            vote[a] = "approved" /\ delivery[a] = [state |-> "executing", attempt |-> n]
      BY DEF Inv, Named, Decided, Typed, DeliveryTyped, Records
    <2>2. \A a \in Executing : a \in Approval /\ Live(a) BY DEF Inv, Named, Executing, Live
    <2> QED BY <2>1, <2>2 DEF Inv, OneReserved, RowNamesWorker
  <1> QED BY <1>1, <1>2, InvInit, PTL DEF Spec
-----------------------------------------------------------------------------
(* What a command to stop leaves behind while its word is the last one:     *)
(* nobody who writes the status.  The signal may go, as a worker of a chat  *)
(* that waits for its turn takes it.                                        *)

Idle == {"none", "queued", "gone"}

AllIdle == \A a \in Approval, n \in Attempts : job[a][n] \in Idle

Halted ==
    stopped # {} =>
        /\ run.status \in {"cancelled", "paused"}
        /\ plain = "none" /\ parks = 0 /\ AllIdle

(* A step that begins nothing and writes no status. *)
Subdued ==
    /\ stopped' = stopped /\ plain' = plain /\ parks' = parks
    /\ run'.status = run.status
    /\ AllIdle => AllIdle'

LEMMA SubduedKeeps == ASSUME Halted, Subdued PROVE Halted'
  BY DEF Halted, Subdued

(* Where a command was the last word, no decision can be consumed. *)
LEMMA HaltedIsUnready == ASSUME Halted, stopped # {} PROVE ~Ready
  BY DEF Halted, Ready

LEMMA BecomesStatus ==
    ASSUME Typed, NEW status, Becomes(status)
    PROVE  run'.status = status
  BY DEF Typed, RunTyped, Becomes

(* Who is idle executes no chat and no RPA phase. *)
LEMMA IdleRests ==
    ASSUME NEW w \in Idle
    PROVE  w \notin RpaPhases /\ w \notin {"executing", "taken", "raised"}
  BY DEF Idle, RpaPhases

LEMMA DecidingSubdued == ASSUME Typed, Halted, stopped # {}, Deciding PROVE Subdued
  <1>1. ASSUME NEW a \in Approval, Approve(a) PROVE Subdued
    <2>1. CASE UNCHANGED run BY <1>1, <2>1 DEF Approve, workers, Subdued, AllIdle
    <2>2. CASE run.control = "none" /\ run.status \in {"waiting_approval", "running"}
      BY <2>2 DEF Halted
    <2> QED BY <1>1, <2>1, <2>2 DEF Approve
  <1>2. ASSUME NEW a \in Approval, Reject(a) PROVE Subdued
    BY <1>2 DEF Reject, workers, Halted, Subdued, AllIdle
  <1>3. ASSUME NEW a \in Approval, NEW b \in Approval, Replace(a, b) PROVE Subdued
    BY <1>3 DEF Replace, Halted
  <1> QED BY <1>1, <1>2, <1>3 DEF Deciding

LEMMA RoutingSubdued == ASSUME Typed, Halted, stopped # {}, Routing PROVE Subdued
  <1>1. ASSUME NEW a \in Approval, Submit(a) PROVE Subdued
    BY <1>1, HaltedIsUnready DEF Submit
  <1>2. ASSUME NEW a \in Approval, GiveUp(a) \/ Block(a) \/ Return(a) \/ Redeliver(a) PROVE Subdued
    BY <1>2 DEF GiveUp, Block, Return, Redeliver, rows, Subdued, AllIdle
  <1>3. ASSUME NEW a \in Approval, TellBlocked(a) PROVE Subdued
    <2>1. UNCHANGED run BY <1>3 DEF TellBlocked, Halted
    <2> QED BY <1>3, <2>1 DEF TellBlocked, Subdued, AllIdle
  <1> QED BY <1>1, <1>2, <1>3 DEF Routing

LEMMA GoneSubdues ==
    ASSUME Typed, NEW a \in Approval, NEW n \in Attempts, Gone(a, n)
    PROVE  AllIdle => AllIdle'
  BY DEF Typed, JobTyped, Gone, AllIdle, Idle

(* Nobody is at work: what is left to workers is to leave and to take signals. *)
LEMMA WorkingSubdued == ASSUME Typed, Halted, stopped # {}, Working \/ Leaving PROVE Subdued
  <1> USE DEF Halted
  <1>1. ~Park BY DEF Park
  <1>2. ~PlainBegins /\ ~PlainEnds /\ ~(\E b \in Approval : PlainAsks(b))
    BY DEF PlainBegins, PlainEnds, PlainAsks
  <1>3. ~PlainCarries /\ ~PlainGoes BY DEF PlainCarries, PlainGoes, RpaPhases
  <1>4. ASSUME Overhear PROVE Subdued
    BY <1>4 DEF Overhear, workers, Typed, RunTyped, Subdued, AllIdle
  <1>5. ASSUME NEW a \in Approval, NEW n \in Attempts PROVE ~Consume(a, n)
    BY HaltedIsUnready DEF Consume, Consumable
  <1>6. ASSUME NEW a \in Approval, NEW n \in Attempts, Obey(a, n) PROVE Subdued
    BY <1>6, GoneSubdues DEF Obey, Typed, RunTyped, Subdued
  <1>7. ASSUME NEW a \in Approval, NEW n \in Attempts
        PROVE  ~End(a, n) /\ ~Begin(a, n) /\ ~Carry(a, n) /\ ~Deliver(a, n) /\ ~Raise(a, n) /\ ~Fail(a, n)
               /\ ~(\E b \in Approval : JobAsks(a, n, b))
    <2>1. job[a][n] \in Idle BY DEF AllIdle
    <2>2. job[a][n] \notin RpaPhases /\ job[a][n] \notin {"executing", "taken", "raised"}
      BY <2>1, IdleRests
    <2>3. job[a][n] # "settling" BY <2>2 DEF RpaPhases
    <2> QED BY <2>2, <2>3 DEF End, Begin, Carry, Deliver, Raise, Fail, JobAsks
  <1>8. ASSUME NEW a \in Approval, NEW n \in Attempts, Leave(a, n) PROVE Subdued
    BY <1>8, GoneSubdues DEF Leave, rows, Subdued
  <1> QED BY <1>1, <1>2, <1>3, <1>4, <1>5, <1>6, <1>7, <1>8 DEF Working, Leaving

LEMMA RestartSubdued == ASSUME Typed, Halted, stopped # {}, Restart PROVE Subdued
  <1>1. plain' = plain /\ parks' = parks /\ stopped' = stopped BY DEF Restart, Halted
  <1>2. run'.status = run.status BY DEF Restart, FailedRpa, Orphaned, Typed, RunTyped, Halted
  <1>3. AllIdle' BY DEF Restart, AllIdle, Idle
  <1> QED BY <1>1, <1>2, <1>3 DEF Subdued

(* A command counts where it finds nobody who could overrule it. *)
LEMMA CommandHalts == ASSUME Typed, Cancel \/ Pause PROVE Halted'
  <1>1. /\ plain' = plain /\ parks' = parks /\ job' = job /\ stopped' = Overtaken
        /\ run'.status \in {"cancelled", "paused"}
    BY DEF Cancel, Pause, workers
  <1>2. stopped' # {} => Unattended BY <1>1 DEF Overtaken
  <1> QED BY <1>1, <1>2 DEF Unattended, Halted, AllIdle, Idle

LEMMA HaltedNext == ASSUME Typed, Halted, [Next]_vars PROVE Halted'
  <1>1. CASE stopped = {}
    <2>1. CASE Cancel \/ Pause BY <2>1, CommandHalts
    <2>2. CASE ~(Cancel \/ Pause)
      <3>1. stopped' = {}
        BY <1>1, <2>2 DEF Next, vars, workers, Deciding, Approve, Reject, Replace, Claim, Routing, Submit, GiveUp, Block,
           TellBlocked, Return, Redeliver, Working, Park, PlainBegins, PlainEnds, PlainAsks, PlainCarries,
           PlainGoes, Overhear, Consume, Obey, End, Begin, Carry, Deliver, Raise, Fail, JobAsks, Leaving, Leave,
           Commanding, Resume, Restart
      <3> QED BY <3>1 DEF Halted
    <2> QED BY <2>1, <2>2
  <1>2. CASE stopped # {}
    <2>1. CASE UNCHANGED vars BY <2>1 DEF vars, rows, workers, Halted, AllIdle
    <2>2. ASSUME NEW a \in Approval, Claim(a) PROVE Halted'
      BY <1>2, <2>2, HaltedIsUnready DEF Claim, Claimable
    <2>3. CASE Commanding
      <3>1. CASE Resume BY <3>1 DEF Resume, Halted
      <3> QED BY <1>2, <2>3, <3>1, CommandHalts, RestartSubdued, SubduedKeeps DEF Commanding
    <2> QED BY <1>2, <2>1, <2>2, <2>3, DecidingSubdued, RoutingSubdued, WorkingSubdued, SubduedKeeps DEF Next
  <1> QED BY <1>1, <1>2

(***************************************************************************)
(* A decision that a command to stop has overtaken, with nobody at work on *)
(* a chat or an RPA execution, begins no continuation as long as that      *)
(* command is the last word: for any number of approvals, of claims,       *)
(* restarts and workers queued, and with all that Yields names.            *)
(***************************************************************************)
THEOREM StopIsFinal == Spec => StoppedStaysStopped
  <1> DEFINE Rests == Typed /\ Halted
  <1>1. Init => Rests BY TypedInit DEF Init, Halted
  <1>2. Rests /\ [Next]_vars => Rests' BY TypedNext, HaltedNext
  <1>3. Rests /\ [Next]_vars => [\A a \in stopped : begun'[a] = begun[a]]_vars
    <2> SUFFICES ASSUME Typed, Halted, Next, NEW a \in stopped PROVE begun'[a] = begun[a]
      OBVIOUS
    <2>1. ~Ready BY HaltedIsUnready
    <2>2. \A b \in Approval, n \in Attempts : ~Consume(b, n) BY <2>1 DEF Consume, Consumable
    <2> QED
      BY <2>2 DEF Next, workers, Deciding, Approve, Reject, Replace, Claim, Routing, Submit, GiveUp, Block,
         TellBlocked, Return, Redeliver, Working, Park, PlainBegins, PlainEnds, PlainAsks, PlainCarries,
         PlainGoes, Overhear, Obey, End, Begin, Carry, Deliver, Raise, Fail, JobAsks, Leaving, Leave, Commanding,
         Cancel, Pause, Resume, Restart
  <1> QED BY <1>1, <1>2, <1>3, PTL DEF Spec, StoppedStaysStopped
=============================================================================
