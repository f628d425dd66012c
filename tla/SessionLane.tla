----------------------------- MODULE SessionLane -----------------------------
(***************************************************************************)
(* The lane of one session: the in-memory SessionLaneScheduler, a condition *)
(* variable around the id of the active run, and the session_lane_records  *)
(* row that SessionAdmissionService writes after each decision, outside    *)
(* the lock.  The row is what the UI and the coordination service read.    *)
(*                                                                         *)
(* An invocation is one passage of a run through the lane: an automation   *)
(* executor (acquire, and release in its finally clause whatever happened), *)
(* a maintenance task (acquire, and release only if it acquired) or a chat *)
(* stream (try_acquire once a second until acquired or stopped).           *)
(***************************************************************************)
EXTENDS Naturals, FiniteSets

CONSTANTS
    Executor, Maintenance, Chat,   \* the invocations, by kind
    Run, RunOf,                    \* the run that an invocation carries
    NoRun,
    Policies,                      \* lane policies that the configuration takes
    SetupRaises                    \* a chat may fail between acquire and its try

Invocation == Executor \union Maintenance \union Chat

ASSUME LaneAssumption ==
    /\ RunOf \in [Invocation -> Run] /\ NoRun \notin Run
    /\ Policies \subseteq {"queue", "reject"} /\ SetupRaises \in BOOLEAN
    /\ Executor \intersect Chat = {} /\ Maintenance \intersect Chat = {}
    /\ Executor \intersect Maintenance = {}

VARIABLES
    active,    \* _active_runs[session_id]
    mirror,    \* the session_lane_records row
    pc,        \* where each invocation is
    blocker,   \* decision.active_run_id of each invocation
    edit       \* an idle_mutation: one per behaviour is the bound

vars == <<active, mirror, pc, blocker, edit>>

Idle == [state |-> "idle", active |-> NoRun, queued |-> NoRun]

Steps == {"new", "parked", "woken", "wait", "poll", "record", "polling", "refused", "setup",
          "holds", "release", "view", "idle", "gone"}

TypeOK ==
    /\ active \in Run \union {NoRun}
    /\ mirror \in [state : {"idle", "active", "queued", "rejected"},
                   active : Run \union {NoRun}, queued : Run \union {NoRun}]
    /\ pc \in [Invocation -> Steps]
    /\ blocker \in [Invocation -> Run \union {NoRun}]
    /\ edit \in {"none", "open", "done"}

Init ==
    /\ active = NoRun
    /\ mirror = Idle
    /\ pc = [i \in Invocation |-> "new"]
    /\ blocker = [i \in Invocation |-> NoRun]
    /\ edit = "none"

(* idle_mutation keeps the lock for as long as the transcript is replaced. *)
Unlocked == edit # "open"

(* A chat call runs on the event loop, so no other chat is in the middle of one. *)
LoopFree(i) == i \in Chat => \A j \in Chat \ {i} :
    pc[j] \notin {"record", "poll", "refused", "view", "idle"}

Goto(i, step) == pc' = [pc EXCEPT ![i] = step]

(***************************************************************************)
(* SessionLaneScheduler: each action is one critical section.              *)
(***************************************************************************)
Take(i, step) ==
    /\ Unlocked /\ LoopFree(i) /\ active = NoRun
    /\ active' = RunOf[i]
    /\ Goto(i, step)
    /\ UNCHANGED <<mirror, blocker, edit>>

Blocked(i, step) ==
    /\ Unlocked /\ LoopFree(i) /\ active # NoRun
    /\ blocker' = [blocker EXCEPT ![i] = active]
    /\ Goto(i, step)
    /\ UNCHANGED <<active, mirror, edit>>

(* The first decision of acquire() and of try_acquire(). *)
Acquire(i) == pc[i] = "new" /\ Take(i, "record")

Reject(i) == pc[i] = "new" /\ "reject" \in Policies /\ Blocked(i, "refused")

Queue(i) ==
    /\ pc[i] = "new" /\ "queue" \in Policies
    /\ Blocked(i, IF i \in Chat THEN "poll" ELSE "parked")

(* acquire() comes back from wait(); it keeps its first decision's active_run_id. *)
WakeAndTake(i) == pc[i] = "woken" /\ Take(i, "wait")

WakeAndWait(i) ==
    /\ pc[i] = "woken" /\ Unlocked /\ active # NoRun
    /\ Goto(i, "parked")
    /\ UNCHANGED <<active, mirror, blocker, edit>>

PollAndTake(i) == pc[i] = "polling" /\ Take(i, "record")

PollAgain(i) == pc[i] = "polling" /\ Blocked(i, "poll")

(* The run is stopped while it queues: the stream ends without a release. *)
StopPolling(i) ==
    /\ pc[i] = "polling" /\ LoopFree(i)
    /\ Goto(i, "gone")
    /\ UNCHANGED <<active, mirror, blocker, edit>>

(* The executor fails before the lane, as verify_binding makes it: finally releases. *)
FailEarly(i) ==
    /\ pc[i] = "new" /\ i \in Executor
    /\ Goto(i, "release")
    /\ UNCHANGED <<active, mirror, blocker, edit>>

ReleaseAnyone(i) ==  \* slip: release() does not compare the run
    /\ pc[i] \in {"holds", "release"} /\ Unlocked /\ LoopFree(i)
    /\ active' = NoRun
    /\ pc' = [j \in Invocation |-> IF j = i THEN "view" ELSE IF pc[j] = "parked" THEN "woken" ELSE pc[j]]
    /\ UNCHANGED <<mirror, blocker, edit>>

ReleaseSilently(i) ==  \* slip: nobody is notified
    /\ pc[i] \in {"holds", "release"} /\ Unlocked /\ LoopFree(i)
    /\ active' = IF active = RunOf[i] THEN NoRun ELSE active
    /\ Goto(i, "view")
    /\ UNCHANGED <<mirror, blocker, edit>>

(* release() pops the lane of its own run only, and wakes every waiter. *)
Release(i) ==
    /\ pc[i] \in {"holds", "release"} /\ Unlocked /\ LoopFree(i)
    /\ active' = IF active = RunOf[i] THEN NoRun ELSE active
    /\ pc' = [j \in Invocation |->
                 IF j = i THEN "view"
                 ELSE IF active = RunOf[i] /\ pc[j] = "parked" THEN "woken" ELSE pc[j]]
    /\ UNCHANGED <<mirror, blocker, edit>>

-----------------------------------------------------------------------------
(* SessionAdmissionService: the row is written later, in steps of its own. *)

Write(i, view, step) ==
    /\ mirror' = view
    /\ Goto(i, step)
    /\ UNCHANGED <<active, blocker, edit>>

View(state, holder, queued) == [state |-> state, active |-> holder, queued |-> queued]

RecordQueued(i) ==
    /\ pc[i] \in {"wait", "poll"}
    /\ Write(i, View("queued", blocker[i], RunOf[i]), IF pc[i] = "wait" THEN "record" ELSE "polling")

RecordActive(i) ==
    /\ pc[i] = "record"
    /\ Write(i, View("active", RunOf[i], NoRun), IF i \in Chat THEN "setup" ELSE "holds")

(* Of those rejected only the executor comes to a release. *)
RecordRejected(i) ==
    /\ pc[i] = "refused"
    /\ Write(i, View("rejected", blocker[i], IF i \in Chat THEN NoRun ELSE RunOf[i]),
             IF i \in Executor THEN "release" ELSE "gone")

(* A chat's approval and lifecycle bookkeeping, which its try does not cover yet. *)
Setup(i) ==
    /\ pc[i] = "setup"
    /\ \/ Goto(i, "holds")
       \/ SetupRaises /\ Goto(i, "gone")
    /\ UNCHANGED <<active, mirror, blocker, edit>>

ConcernsActive(i) ==  \* slip: a queued run is not looked for
    mirror.active = RunOf[i]

Concerns(i) == mirror.active = RunOf[i] \/ mirror.queued = RunOf[i]

ReadView(i) ==
    /\ pc[i] = "view"
    /\ Goto(i, IF Concerns(i) THEN "idle" ELSE "gone")
    /\ UNCHANGED <<active, mirror, blocker, edit>>

WriteIdle(i) == pc[i] = "idle" /\ Write(i, Idle, "gone")

Step(i) ==
    \/ Acquire(i) \/ Reject(i) \/ Queue(i) \/ WakeAndTake(i) \/ WakeAndWait(i)
    \/ PollAndTake(i) \/ PollAgain(i) \/ StopPolling(i) \/ FailEarly(i) \/ Release(i)
    \/ RecordQueued(i) \/ RecordActive(i) \/ RecordRejected(i) \/ Setup(i)
    \/ ReadView(i) \/ WriteIdle(i)

(* idle_mutation: the transcript may be replaced while no run is active. *)
BeginEditAnyway ==  \* slip: the lane is not looked at
    /\ edit = "none" /\ edit' = "open"
    /\ UNCHANGED <<active, mirror, pc, blocker>>

BeginEdit ==
    /\ edit = "none" /\ active = NoRun
    /\ edit' = "open"
    /\ UNCHANGED <<active, mirror, pc, blocker>>

EndEdit ==
    /\ edit = "open" /\ edit' = "done"
    /\ UNCHANGED <<active, mirror, pc, blocker>>

(* The engine restarts: memory is empty and reconcile_after_restart clears the row. *)
Restart ==
    /\ pc' = [i \in Invocation |-> IF pc[i] = "new" THEN "new" ELSE "gone"]
    /\ pc' # pc
    /\ active' = NoRun
    /\ mirror' = Idle
    /\ edit' = IF edit = "open" THEN "done" ELSE edit
    /\ UNCHANGED blocker

Next == (\E i \in Invocation : Step(i)) \/ BeginEdit \/ EndEdit \/ Restart

Spec == Init /\ [][Next]_vars

(* Threads run on, actions are bounded by timeouts, and chats keep polling. *)
Fairness == WF_vars(EndEdit) /\ \A i \in Invocation : WF_vars(Step(i))

FairSpec == Spec /\ Fairness

-----------------------------------------------------------------------------
Holds(i) == pc[i] \in {"wait", "record", "setup", "holds"}

(***************************************************************************)
(* Two different runs of a session never execute at the same time: the     *)
(* release of a run that does not hold the lane takes nothing from the run *)
(* that does.                                                              *)
(***************************************************************************)
OneRunAtATime == \A i, j \in Invocation : Holds(i) /\ Holds(j) => RunOf[i] = RunOf[j]

(***************************************************************************)
(* A transcript is not replaced under a run that executes.                 *)
(***************************************************************************)
EditsAlone == edit = "open" => \A i \in Invocation : ~Holds(i)

(* A stopped chat leaves its "queued", one that fails in its setup "active", *)
(* and nobody but an executor takes back that it was rejected.               *)
LeftBehind ==
    \/ mirror.state = "rejected" /\ mirror.queued \in {NoRun} \union {RunOf[i] : i \in Maintenance}
    \/ \E i \in Chat : mirror.state = "queued" /\ mirror.queued = RunOf[i]
    \/ \E i \in Chat : SetupRaises /\ mirror.state = "active" /\ mirror.active = RunOf[i]

(***************************************************************************)
(* When nobody is on the lane any more its row says idle, or the last word *)
(* is that of a chat that stopped or of one who was rejected: a row that   *)
(* named the run of an executor for good would keep the coordination       *)
(* service from waking the session.                                        *)
(***************************************************************************)
RowSettles == (\A i \in Invocation : pc[i] \in {"new", "gone"}) => mirror = Idle \/ LeftBehind

(***************************************************************************)
(* No wakeup is lost: whoever is parked in acquire() gets through.         *)
(***************************************************************************)
WaitersProceed == \A i \in Invocation : pc[i] = "parked" ~> pc[i] = "gone"
=============================================================================
