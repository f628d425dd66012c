-------------------------- MODULE RuntimeEpisodes --------------------------
(***************************************************************************)
(* The durable episodes of one run: a root episode and the children it     *)
(* asks for, the queue and the leases they are claimed under, the tasks of *)
(* the runner that execute them, the control messages that cancel them,    *)
(* and the join that resumes the root when its children have ended.        *)
(*                                                                         *)
(* The row of an episode and its rows in runtime_episode_queue and         *)
(* runtime_episode_leases move in one transaction and are one variable.    *)
(* A task is one call of _execute_episode and carries the claim it was     *)
(* started under; an older task of the same episode lives on until it      *)
(* finds out.  All tasks share one event loop: a task that is between two  *)
(* awaits (Inside) is interrupted by a crash, by other threads and by the  *)
(* clock, and by no other task.                                            *)
(***************************************************************************)
EXTENDS Naturals

CONSTANTS
    Root,         \* the top-level episode
    Child,        \* the episodes it may ask for
    Optional,     \* children whose failure the root tolerates
    Cancellable,  \* episodes somebody may cancel
    RunStops,     \* the run itself may be cancelled
    Retryable,    \* episodes whose retryPolicy allows a second attempt
    Faults,       \* bound on crashes, and on leases that lapse although their worker lives
    MaxClaims     \* bound on the claims of an episode

ASSUME EpisodeAssumption ==
    /\ Root \notin Child /\ Optional \subseteq Child
    /\ RunStops \in BOOLEAN
    /\ Faults \in Nat /\ MaxClaims \in Nat

Episode == {Root} \union Child

VARIABLES
    declared,    \* the children are capability needs of the root, dispatched by the
                 \* runner; else the executor of the root delegates while it runs
    row,         \* runtime_episodes.state, and the queue entry with it
    claim,       \* lease_generation and attempt_count: they only move together
    lapsed,      \* active rows whose lease_expires_at has passed
    dispatched,  \* metadata.childNeedsDispatched of the root
    joined,      \* resume_token of the root: its children were handed to it
    landed,      \* the claim whose executor produced the result on the row
    control,     \* the cancel message of each episode
    run,         \* the run the episodes belong to
    task,        \* the tasks of the runner; slot 0 is its polling loop
    crashes, stalls

rows == <<declared, row, claim, lapsed, dispatched, joined, landed>>
vars == <<declared, row, claim, lapsed, dispatched, joined, landed, control, run, task, crashes, stalls>>

Terminal == {"completed", "failed", "cancelled"}

States == {"absent", "queued", "active", "waiting_child"} \union Terminal

Inside == {"dispatching", "ready", "failed", "parking", "announcing", "waking", "acking"}

Phases == {"none", "claimed", "executing", "delegated", "stopping"} \union Inside

TypeOK ==
    /\ row \in [Episode -> States]
    /\ claim \in [Episode -> 0..MaxClaims]
    /\ lapsed \in SUBSET Episode
    /\ declared \in BOOLEAN /\ dispatched \in BOOLEAN /\ joined \in BOOLEAN
    /\ landed \in [Episode -> 0..MaxClaims]
    /\ control \in [Episode -> {"none", "pending", "stopped"}]
    /\ run \in {"running", "cancelling", "cancelled"}
    /\ task \in [Episode -> [0..MaxClaims -> Phases]]
    /\ crashes \in 0..Faults /\ stalls \in 0..Faults

Init ==
    /\ declared \in BOOLEAN
    /\ row = [e \in Episode |-> IF e = Root THEN "queued" ELSE "absent"]
    /\ claim = [e \in Episode |-> 0]
    /\ lapsed = {}
    /\ dispatched = FALSE /\ joined = FALSE
    /\ landed = [e \in Episode |-> 0]
    /\ control = [e \in Episode |-> "none"]
    /\ run = "running"
    /\ task = [e \in Episode |-> [c \in 0..MaxClaims |-> "none"]]
    /\ crashes = 0 /\ stalls = 0

Over(e) == row[e] \in Terminal

Quiet == \A e \in Episode, c \in 0..MaxClaims : task[e][c] \notin Inside

(* cancellation_requested(): the message of the episode or of its parent. *)
Messaged(e) == control[e] = "pending" \/ control[Root] = "pending"

(* _episode_cancellation_requested() *)
Cancelled(e) == row[e] = "cancelled" \/ Messaged(e) \/ run # "running"

HoldsAnyClaim(e, c) == row[e] = "active" /\ e \notin lapsed  \* slip: the generation is not compared

(* The fence of every write a task makes for its own episode. *)
Holds(e, c) == row[e] = "active" /\ claim[e] = c /\ e \notin lapsed

Go(e, c, phase) == task' = [task EXCEPT ![e][c] = phase]

Move(e, state) == row' = [row EXCEPT ![e] = state] /\ lapsed' = lapsed \ {e}

-----------------------------------------------------------------------------
(* The polling loop: claim_runtime_episode(), then a task.                 *)

Take(e) ==
    /\ Quiet
    /\ row[e] = "queued" \/ (row[e] = "active" /\ e \in lapsed)
    /\ claim[e] < MaxClaims
    /\ Move(e, "active")
    /\ claim' = [claim EXCEPT ![e] = @ + 1]
    /\ Go(e, claim[e] + 1, "claimed")
    /\ UNCHANGED <<declared, dispatched, joined, landed, control, run, crashes, stalls>>

(* The heartbeat before the executor, and the choice of what to execute. *)
Begin(e, c) ==
    /\ task[e][c] = "claimed" /\ Quiet
    /\ ~Cancelled(e) /\ Holds(e, c)
    /\ Go(e, c, IF e = Root /\ declared /\ ~dispatched THEN "dispatching" ELSE "executing")
    /\ UNCHANGED <<rows, control, run, crashes, stalls>>

(* A heartbeat is refused: the task drops what it has. *)
LeaseLost(e, c) ==
    /\ task[e][c] \in {"claimed", "executing", "delegated"} /\ Quiet
    /\ ~Cancelled(e) /\ ~Holds(e, c)
    /\ Go(e, c, "none")
    /\ UNCHANGED <<rows, control, run, crashes, stalls>>

-----------------------------------------------------------------------------
(* _dispatch_child_needs() and _enqueue_child_delegation_requests(): every *)
(* child is admitted in a transaction of its own, once.                    *)

Delegate(c) ==
    /\ task[Root][c] = "executing" /\ Quiet
    /\ ~declared
    /\ \E child \in Child :
          /\ row[child] = "absent"
          /\ row' = [row EXCEPT ![child] = "queued"]
    /\ Go(Root, c, "dispatching")
    /\ UNCHANGED <<declared, claim, lapsed, dispatched, joined, landed, control, run, crashes, stalls>>

Admit(c, child) ==
    /\ task[Root][c] = "dispatching"
    /\ declared => ~Cancelled(Root)
    /\ row[child] = "absent"
    /\ row' = [row EXCEPT ![child] = "queued"]
    /\ UNCHANGED <<declared, claim, lapsed, dispatched, joined, landed, control, run, task, crashes, stalls>>

DispatchCancelled(c) ==
    /\ task[Root][c] = "dispatching"
    /\ declared /\ Cancelled(Root)
    /\ \E child \in Child : row[child] = "absent"
    /\ Go(Root, c, "stopping")
    /\ UNCHANGED <<rows, control, run, crashes, stalls>>

(* The runner parks the root at once, an executor goes on with its other branches. *)
Dispatched(c) ==
    /\ task[Root][c] = "dispatching"
    /\ declared => \A child \in Child : row[child] # "absent"
    /\ Go(Root, c, IF declared THEN "parking" ELSE "delegated")
    /\ UNCHANGED <<rows, control, run, crashes, stalls>>

Park(c) ==
    /\ task[Root][c] = "parking"
    /\ IF Holds(Root, c)
       THEN Move(Root, "waiting_child") /\ dispatched' = declared
       ELSE UNCHANGED <<row, lapsed, dispatched>>
    /\ Go(Root, c, "none")
    /\ UNCHANGED <<declared, claim, joined, landed, control, run, crashes, stalls>>

-----------------------------------------------------------------------------
(* The executor returns; the result is delivered or the episode retried.   *)

Return(e, c) ==
    /\ Quiet /\ ~Cancelled(e)
    /\ \/ task[e][c] = "executing" /\ \E outcome \in {"ready", "failed"} : Go(e, c, outcome)
       \/ task[e][c] = "delegated" /\ Go(e, c, "parking")
    /\ UNCHANGED <<rows, control, run, crashes, stalls>>

Land(e, c, state) ==
    /\ Move(e, state)
    /\ landed' = [landed EXCEPT ![e] = c]
    /\ Go(e, c, "announcing")

(* _can_retry(): attempt_count also counts the claims of joins and lapsed leases. *)
CanRetry(e, c) == e \in Retryable /\ c < 2

RetryByQueue(e, c) ==  \* slip: the row takes the queue's word for it
    /\ Move(e, "retry")
    /\ Go(e, c, "none")
    /\ UNCHANGED landed

Retry(e, c) ==
    /\ Move(e, "queued")
    /\ Go(e, c, "none")
    /\ UNCHANGED landed

(* commit_runtime_episode_delivery() and retry_runtime_episode(), both fenced. *)
Deliver(e, c) ==
    /\ task[e][c] \in {"ready", "failed"}
    /\ \/ ~Holds(e, c) /\ Go(e, c, "none") /\ UNCHANGED <<row, lapsed, landed>>
       \/ Holds(e, c) /\ task[e][c] = "ready" /\ Land(e, c, "completed")
       \/ Holds(e, c) /\ task[e][c] = "failed" /\ Land(e, c, "failed")
       \/ Holds(e, c) /\ task[e][c] = "failed" /\ CanRetry(e, c) /\ Retry(e, c)
    /\ UNCHANGED <<declared, claim, dispatched, joined, control, run, crashes, stalls>>

-----------------------------------------------------------------------------
(* _maybe_resume_parent_episode(): the reads, then the compare-and-set.    *)

AnyEnded == \E child \in Child : Over(child)  \* slip: the first child to end wakes its parent

AllCompleted == \A child \in Child : row[child] = "completed"  \* slip: a failed child does not count as ended

AllEnded == \A child \in Child : row[child] \in Terminal \union {"absent"}

Announce(e, c) ==
    /\ task[e][c] = "announcing"
    /\ Go(e, c, IF e \in Child /\ row[Root] = "waiting_child" /\ AllEnded THEN "waking" ELSE "none")
    /\ UNCHANGED <<rows, control, run, crashes, stalls>>

Tolerable == \A child \in Child \ Optional : row[child] \notin {"failed", "cancelled"}

ResumeParent ==
    /\ Move(Root, IF Tolerable THEN "queued" ELSE "failed")
    /\ joined' = (joined \/ Tolerable)

WakeBlindly(e, c) ==  \* slip: the parent's state is not compared when it is resumed
    /\ task[e][c] = "waking"
    /\ ResumeParent
    /\ Go(e, c, "none")
    /\ UNCHANGED <<declared, claim, dispatched, landed, control, run, crashes, stalls>>

Wake(e, c) ==
    /\ task[e][c] = "waking"
    /\ IF row[Root] = "waiting_child" THEN ResumeParent ELSE UNCHANGED <<row, lapsed, joined>>
    /\ Go(e, c, "none")
    /\ UNCHANGED <<declared, claim, dispatched, landed, control, run, crashes, stalls>>

-----------------------------------------------------------------------------
(* Cancellation: the poll of a task, its last write, its acknowledgement.  *)

Notice(e, c) ==
    /\ task[e][c] \in {"claimed", "executing", "delegated"} /\ Quiet
    /\ Cancelled(e)
    /\ Go(e, c, "stopping")
    /\ UNCHANGED <<rows, control, run, crashes, stalls>>

(* The managed processes have ended: a fenced 'cancelled'. *)
Stop(e, c) ==
    /\ task[e][c] = "stopping" /\ Quiet
    /\ IF Holds(e, c)
       THEN Move(e, "cancelled") /\ Go(e, c, "acking")
       ELSE UNCHANGED <<row, lapsed>> /\ Go(e, c, "none")
    /\ UNCHANGED <<declared, claim, dispatched, joined, landed, control, run, crashes, stalls>>

(* acknowledge_stopped(). *)
Ack(e, c) ==
    /\ task[e][c] = "acking"
    /\ control' = [control EXCEPT ![e] = IF @ = "pending" THEN "stopped" ELSE @]
    /\ Go(e, c, "none")
    /\ UNCHANGED <<rows, run, crashes, stalls>>

ChildrenEnded(e) == e = Root => AllEnded

SettleQueued(e) ==  \* slip: an episode parked behind its children is not looked at
    /\ Quiet
    /\ row[e] = "queued" /\ Messaged(e)
    /\ ChildrenEnded(e)
    /\ Move(e, "cancelled")
    /\ Go(e, 0, "acking")
    /\ UNCHANGED <<declared, claim, dispatched, joined, landed, control, run, crashes, stalls>>

(* _settle_parked_episode_cancellations(): nobody works on the episode.    *)
Settle(e) ==
    /\ Quiet
    /\ row[e] \in {"queued", "waiting_child"} /\ Messaged(e)
    /\ ChildrenEnded(e)
    /\ Move(e, "cancelled")
    /\ Go(e, 0, "acking")
    /\ UNCHANGED <<declared, claim, dispatched, joined, landed, control, run, crashes, stalls>>

(* A message for an episode that has not ended (append_runtime_episode_message). *)
RequestCancel(e) ==
    /\ e \in Cancellable
    /\ row[e] \notin Terminal \union {"absent"}
    /\ control[e] = "none"
    /\ control' = [control EXCEPT ![e] = "pending"]
    /\ UNCHANGED <<rows, run, task, crashes, stalls>>

(* The status of the run, then cancel_active_runtime_episodes_for_run(): a *)
(* command writes both, and a crash may come between.                      *)
CancelRun ==
    /\ RunStops /\ run = "running"
    /\ run' = "cancelling"
    /\ UNCHANGED <<rows, control, task, crashes, stalls>>

CancelOrphans ==
    /\ run = "cancelling" /\ run' = "cancelled"
    /\ row' = [e \in Episode |-> IF row[e] \in Terminal \union {"absent"} THEN row[e] ELSE "cancelled"]
    /\ lapsed' = {}
    /\ UNCHANGED <<declared, claim, dispatched, joined, landed, control, task, crashes, stalls>>

-----------------------------------------------------------------------------
(* The clock and the process.                                              *)

Unattended(e) == task[e][claim[e]] = "none"

Lapse(e) ==
    /\ row[e] = "active" /\ e \notin lapsed
    /\ IF Unattended(e) THEN UNCHANGED stalls ELSE crashes + stalls < Faults /\ stalls' = stalls + 1
    /\ lapsed' = lapsed \union {e}
    /\ UNCHANGED <<declared, row, claim, dispatched, joined, landed, control, run, task, crashes>>

Crash ==
    /\ crashes + stalls < Faults
    /\ crashes' = crashes + 1
    /\ task' = [e \in Episode |-> [c \in 0..MaxClaims |-> "none"]]
    /\ run' = IF run = "cancelling" THEN "cancelled" ELSE run
    /\ UNCHANGED <<rows, control, stalls>>

(* One step of a task of the runner. *)
Step(e, c) ==
    \/ Begin(e, c)
    \/ LeaseLost(e, c)
    \/ Return(e, c)
    \/ Deliver(e, c)
    \/ Announce(e, c)
    \/ Wake(e, c)
    \/ Notice(e, c)
    \/ Stop(e, c)
    \/ Ack(e, c)

RootStep(c) ==
    \/ \E child \in Child : Admit(c, child)
    \/ DispatchCancelled(c)
    \/ Dispatched(c)
    \/ Park(c)

Runner ==
    \/ \E e \in Episode : Take(e)
    \/ \E e \in Episode : Settle(e)
    \/ \E e \in Episode, c \in 0..MaxClaims : Step(e, c)
    \/ \E c \in 0..MaxClaims : RootStep(c)

Next ==
    \/ Runner
    \/ \E c \in 0..MaxClaims : Delegate(c)
    \/ \E e \in Episode : RequestCancel(e)
    \/ CancelRun
    \/ CancelOrphans
    \/ \E e \in Episode : Lapse(e)
    \/ Crash

(* The event loop keeps stepping its ready tasks and every executor ends   *)
(* (a task takes finitely many steps, so fairness of the whole is fairness *)
(* of each); the cancelling thread finishes; a dead worker's lease lapses. *)
Fairness ==
    /\ WF_vars(Runner)
    /\ WF_vars(CancelOrphans)
    /\ WF_vars(\E e \in Episode : Unattended(e) /\ Lapse(e))

Spec == Init /\ [][Next]_vars /\ Fairness

-----------------------------------------------------------------------------
(* The result on a row was produced under the row's last claim: a worker   *)
(* whose lease lapsed cannot deliver, however late it finds out, and no    *)
(* row is claimed again after a delivery.                                  *)
LandedByHolder ==
    \A e \in Episode : landed[e] # 0 => landed[e] = claim[e] /\ Over(e)

(* A root with declared needs goes on, and completes, only when every      *)
(* child it needs has been admitted and has ended, whatever was repeated   *)
(* after a crash or a lapsed lease in the middle of the dispatch.          *)
JoinedAfterAll ==
    declared /\ (joined \/ row[Root] = "completed") => \A child \in Child : Over(child)

(* What has ended stays as it ended: no late worker, no join that read the *)
(* root before it was cancelled and no repeated dispatch of the declared   *)
(* needs brings back an episode that completed, failed or was cancelled.   *)
TerminalStays ==
    [][\A e \in Episode : Over(e) => row'[e] = row[e]]_vars

(* A cancelled episode ends, wherever the message meets it: queued, parked *)
(* behind children, executing, or under a lease whose worker has died.     *)
CancelEndsEpisode ==
    \A e \in Episode : control[e] = "pending" /\ ~Over(e) ~> Over(e)

(* No crash, no cancellation, and the root parked under its first claim. *)
Undisturbed ==
    /\ crashes = 0 /\ run = "running"
    /\ \A e \in Episode : control[e] = "none"

(* A root that waits for declared children is resumed or failed by the     *)
(* last of them, in whatever order and under whatever claim each ends.     *)
ParentResumes ==
    declared /\ row[Root] = "waiting_child" /\ claim[Root] = 1 /\ Undisturbed
        ~> row[Root] # "waiting_child" \/ ~Undisturbed

(* parallel_support.py: "after the child reaches its terminal state the    *)
(* system carries the structured result back and resumes this task".  The  *)
(* same promise for the children an executor delegates while it runs.      *)
DelegationReturns ==
    row[Root] = "waiting_child" /\ Undisturbed ~> row[Root] # "waiting_child" \/ ~Undisturbed
=============================================================================
