-------------------------- MODULE SessionLaneProofs --------------------------
(***************************************************************************)
(* The lane of SessionLane is exclusive for every set of invocations, as   *)
(* long as no two of them carry the same run.  The inductive fact is that  *)
(* whoever holds the lane finds its own run in _active_runs: release()     *)
(* compares runs, so only a namesake could take the lane away.             *)
(***************************************************************************)
EXTENDS SessionLane, TLAPS

OwnRuns == \A i, j \in Invocation : RunOf[i] = RunOf[j] => i = j

HolderIsActive == \A i \in Invocation : Holds(i) => active = RunOf[i]

EditSeesNobody == edit = "open" => active = NoRun

Inv == TypeOK /\ HolderIsActive /\ EditSeesNobody

(* The type invariant: every critical section and every write of the row. *)
THEOREM TypeCorrect == Spec => []TypeOK
<1>1. Init => TypeOK
  BY LaneAssumption DEF Init, TypeOK, Idle, Steps
<1>2. TypeOK /\ [Next]_vars => TypeOK'
  <2> SUFFICES ASSUME TypeOK, [Next]_vars PROVE TypeOK'
    OBVIOUS
  <2> USE LaneAssumption DEF TypeOK, Steps
  <2>1. ASSUME NEW i \in Invocation, Step(i) PROVE TypeOK'
    <3> RunOf[i] \in Run
      OBVIOUS
    <3>1. CASE Acquire(i) \/ Reject(i) \/ Queue(i) \/ PollAndTake(i) \/ PollAgain(i)
      BY <3>1 DEF Acquire, Reject, Queue, PollAndTake, PollAgain, Take, Blocked, Goto
    <3>2. CASE WakeAndTake(i) \/ WakeAndWait(i) \/ StopPolling(i) \/ FailEarly(i)
      BY <3>2 DEF WakeAndTake, WakeAndWait, StopPolling, FailEarly, Take, Goto
    <3>3. CASE Release(i)
      BY <3>3 DEF Release
    <3>4. CASE RecordQueued(i) \/ RecordActive(i) \/ RecordRejected(i) \/ WriteIdle(i)
      BY <3>4 DEF RecordQueued, RecordActive, RecordRejected, WriteIdle, Write, View, Idle, Goto
    <3>5. CASE Setup(i) \/ ReadView(i)
      BY <3>5 DEF Setup, ReadView, Goto
    <3> QED
      BY <2>1, <3>1, <3>2, <3>3, <3>4, <3>5 DEF Step
  <2>2. CASE BeginEdit \/ EndEdit
    BY <2>2 DEF BeginEdit, EndEdit
  <2>3. CASE Restart
    BY <2>3 DEF Restart, Idle
  <2>4. CASE UNCHANGED vars
    BY <2>4 DEF vars
  <2> QED
    BY <2>1, <2>2, <2>3, <2>4 DEF Next
<1> QED
  BY <1>1, <1>2, PTL DEF Spec

(***************************************************************************)
(* A lane that nobody holds a run of is taken by one invocation only.      *)
(***************************************************************************)
LEMMA TakeKeeps ==
  ASSUME Inv, NEW i \in Invocation, NEW step \in Steps, Take(i, step)
  PROVE  HolderIsActive' /\ EditSeesNobody'
<1> USE LaneAssumption DEF Inv, TypeOK
<1>1. ASSUME NEW j \in Invocation, Holds(j) PROVE FALSE
  BY <1>1 DEF Take, HolderIsActive
<1>2. ASSUME NEW j \in Invocation, Holds(j)' PROVE active' = RunOf[j]
  BY <1>1, <1>2 DEF Take, Goto, Holds
<1> QED
  BY <1>2 DEF Take, Unlocked, HolderIsActive, EditSeesNobody

(* A release leaves the lane to its holder, since no two share a run. *)
LEMMA ReleaseKeeps ==
  ASSUME OwnRuns, Inv, NEW i \in Invocation, Release(i)
  PROVE  HolderIsActive' /\ EditSeesNobody'
<1> USE LaneAssumption DEF Inv, TypeOK
<1>1. ASSUME NEW j \in Invocation, Holds(j)' PROVE active' = RunOf[j]
  <2>1. j # i /\ Holds(j)
    BY <1>1 DEF Release, Holds
  <2>2. active = RunOf[j] /\ active # RunOf[i]
    BY <2>1 DEF HolderIsActive, OwnRuns
  <2> QED
    BY <2>2 DEF Release
<1> QED
  BY <1>1 DEF Release, Unlocked, HolderIsActive, EditSeesNobody

(* The steps outside the lock move an invocation without making it a holder. *)
LEMMA StepKeeps ==
  ASSUME OwnRuns, Inv, NEW i \in Invocation, Step(i)
  PROVE  HolderIsActive' /\ EditSeesNobody'
<1> DEFINE Quiet == /\ active' = active /\ edit' = edit
                    /\ \A j \in Invocation : Holds(j)' => Holds(j)
<1> USE LaneAssumption DEF Inv, TypeOK
<1>1. CASE Acquire(i) \/ PollAndTake(i) \/ WakeAndTake(i)
  <2>1. Take(i, "record") \/ Take(i, "wait")
    BY <1>1 DEF Acquire, PollAndTake, WakeAndTake
  <2>2. "record" \in Steps /\ "wait" \in Steps
    BY DEF Steps
  <2> QED
    BY <2>1, <2>2, TakeKeeps
<1>2. CASE Release(i)
  BY <1>2, ReleaseKeeps
<1>3. CASE Quiet
  BY <1>3 DEF HolderIsActive, EditSeesNobody
<1>4. CASE Reject(i) \/ Queue(i) \/ PollAgain(i)
  BY <1>3, <1>4 DEF Reject, Queue, PollAgain, Blocked, Goto, Holds
<1>5. CASE WakeAndWait(i) \/ StopPolling(i) \/ FailEarly(i) \/ ReadView(i) \/ Setup(i)
  BY <1>3, <1>5 DEF WakeAndWait, StopPolling, FailEarly, ReadView, Setup, Goto, Holds
<1>6. CASE RecordQueued(i) \/ RecordActive(i) \/ RecordRejected(i) \/ WriteIdle(i)
  BY <1>3, <1>6 DEF RecordQueued, RecordActive, RecordRejected, WriteIdle, Write, Goto, Holds
<1> QED
  BY <1>1, <1>2, <1>4, <1>5, <1>6 DEF Step

(* The inductive invariant, under the assumption that runs are not shared. *)
LEMMA Invariant == OwnRuns => (Spec => []Inv)
<1> SUFFICES ASSUME OwnRuns PROVE Spec => []Inv
  OBVIOUS
<1>1. Init => HolderIsActive /\ EditSeesNobody
  BY DEF Init, HolderIsActive, EditSeesNobody, Holds
<1>2. Inv /\ [Next]_vars => HolderIsActive' /\ EditSeesNobody'
  <2> SUFFICES ASSUME Inv, [Next]_vars PROVE HolderIsActive' /\ EditSeesNobody'
    OBVIOUS
  <2>1. ASSUME NEW i \in Invocation, Step(i) PROVE HolderIsActive' /\ EditSeesNobody'
    BY <2>1, StepKeeps
  <2>2. CASE BeginEdit \/ EndEdit
    BY <2>2 DEF BeginEdit, EndEdit, Inv, HolderIsActive, EditSeesNobody, Holds
  <2>3. CASE Restart
    BY <2>3 DEF Restart, Inv, TypeOK, HolderIsActive, EditSeesNobody, Holds
  <2>4. CASE UNCHANGED vars
    BY <2>4 DEF vars, Inv, HolderIsActive, EditSeesNobody, Holds
  <2> QED
    BY <2>1, <2>2, <2>3, <2>4 DEF Next
<1> QED
  BY <1>1, <1>2, TypeCorrect, PTL DEF Spec, Inv

(***************************************************************************)
(* Two different runs of a session never execute at once.                  *)
(***************************************************************************)
THEOREM OneRun == OwnRuns => (Spec => []OneRunAtATime)
<1> SUFFICES ASSUME OwnRuns PROVE Spec => []OneRunAtATime
  OBVIOUS
<1>1. Inv => OneRunAtATime
  BY DEF Inv, HolderIsActive, OneRunAtATime
<1> QED
  BY <1>1, Invariant, PTL

(***************************************************************************)
(* idle_mutation replaces the transcript while no run executes.            *)
(***************************************************************************)
THEOREM EditAlone == OwnRuns => (Spec => []EditsAlone)
<1> SUFFICES ASSUME OwnRuns PROVE Spec => []EditsAlone
  OBVIOUS
<1>1. Inv => EditsAlone
  BY LaneAssumption DEF Inv, HolderIsActive, EditSeesNobody, EditsAlone
<1> QED
  BY <1>1, Invariant, PTL
-----------------------------------------------------------------------------
(***************************************************************************)
(* The row.  It is written outside the lock, so it need not tell who is on *)
(* the lane.  But whoever wrote it last comes back to take it, unless its  *)
(* word is LeftBehind; and what it comes back to concerns its run.         *)
(***************************************************************************)
Owes(i) ==
    \/ mirror.state = "queued" /\ mirror.queued = RunOf[i] /\ pc[i] = "record"
    \/ mirror.state = "active" /\ mirror.active = RunOf[i] /\ pc[i] \in {"setup", "holds", "view", "idle"}
    \/ mirror.state = "rejected" /\ mirror.queued = RunOf[i] /\ pc[i] \in {"release", "view", "idle"}

Answered == mirror = Idle \/ LeftBehind \/ \E i \in Invocation : Owes(i)

(* Only chats poll and set up. *)
ByKind == \A i \in Invocation : pc[i] \in {"poll", "polling", "setup"} => i \in Chat

RowInv == TypeOK /\ ByKind /\ Answered

(* A step of i that leaves the row leaves what the others owe. *)
LEMMA OthersOwe ==
  ASSUME mirror' = mirror, NEW i \in Invocation, Answered,
         \A j \in Invocation \ {i} : pc'[j] = pc[j] \/ pc[j] = "parked",
         Owes(i) => Owes(i)' \/ LeftBehind
  PROVE  Answered'
<1>1. (mirror = Idle)' = (mirror = Idle) /\ (LeftBehind' <=> LeftBehind)
  BY DEF LeftBehind, Idle
<1>2. ASSUME NEW j \in Invocation, Owes(j) PROVE Owes(j)' \/ LeftBehind
  BY <1>2 DEF Owes
<1> QED
  BY <1>1, <1>2 DEF Answered

LEMMA StepAnswers ==
  ASSUME RowInv, NEW i \in Invocation, Step(i)
  PROVE  Answered'
<1> USE LaneAssumption DEF RowInv, TypeOK
<1>1. CASE \/ Acquire(i) \/ Reject(i) \/ Queue(i) \/ WakeAndTake(i) \/ WakeAndWait(i)
           \/ PollAndTake(i) \/ PollAgain(i) \/ StopPolling(i) \/ FailEarly(i)
  <2>1. mirror' = mirror /\ pc[i] \in {"new", "woken", "polling"} /\ \E step : Goto(i, step)
    BY <1>1 DEF Acquire, Reject, Queue, WakeAndTake, WakeAndWait, PollAndTake, PollAgain,
                StopPolling, FailEarly, Take, Blocked
  <2>2. ~Owes(i)
    BY <2>1 DEF Owes
  <2> QED
    BY <2>1, <2>2, OthersOwe DEF Goto
<1>2. CASE Release(i)
  <2>1. mirror' = mirror /\ pc[i] \in {"holds", "release"} /\ pc'[i] = "view"
    BY <1>2 DEF Release
  <2>2. \A j \in Invocation \ {i} : pc'[j] = pc[j] \/ pc[j] = "parked"
    BY <1>2 DEF Release
  <2>3. Owes(i) => Owes(i)'
    BY <2>1 DEF Owes
  <2> QED
    BY <2>1, <2>2, <2>3, OthersOwe
<1>3. CASE Setup(i)
  <2>1. mirror' = mirror /\ pc[i] = "setup" /\ \E step : Goto(i, step)
    BY <1>3 DEF Setup
  <2>2. pc'[i] = "holds" \/ SetupRaises
    BY <1>3 DEF Setup, Goto
  <2>3. Owes(i) => Owes(i)' \/ LeftBehind
    BY <2>1, <2>2 DEF Owes, LeftBehind, ByKind
  <2> QED
    BY <2>1, <2>3, OthersOwe DEF Goto
<1>4. CASE ReadView(i)
  <2>1. mirror' = mirror /\ pc[i] = "view" /\ \E step : Goto(i, step)
    BY <1>4 DEF ReadView
  <2>2. Concerns(i) => pc'[i] = "idle"
    BY <1>4 DEF ReadView, Goto
  <2>3. Owes(i) => Owes(i)'
    BY <2>1, <2>2 DEF Owes, Concerns
  <2> QED
    BY <2>1, <2>3, OthersOwe DEF Goto
<1>5. CASE RecordQueued(i)
  <2>1. mirror'.state = "queued" /\ mirror'.queued = RunOf[i]
    BY <1>5 DEF RecordQueued, Write, View
  <2>2. CASE pc[i] = "wait"
    BY <1>5, <2>1, <2>2 DEF RecordQueued, Write, Goto, Owes, Answered
  <2>3. CASE pc[i] = "poll"
    BY <2>1, <2>3 DEF ByKind, LeftBehind, Answered
  <2> QED
    BY <1>5, <2>2, <2>3 DEF RecordQueued
<1>6. CASE RecordActive(i)
  <2>1. mirror'.state = "active" /\ mirror'.active = RunOf[i] /\ pc'[i] \in {"setup", "holds"}
    BY <1>6 DEF RecordActive, Write, View, Goto
  <2> QED
    BY <2>1 DEF Owes, Answered
<1>7. CASE RecordRejected(i)
  <2>1. /\ mirror'.state = "rejected" /\ mirror'.queued = IF i \in Chat THEN NoRun ELSE RunOf[i]
        /\ i \in Executor => pc'[i] = "release"
    BY <1>7 DEF RecordRejected, Write, View, Goto
  <2>2. CASE i \in Executor
    BY <2>1, <2>2 DEF Owes, Answered
  <2>3. CASE i \in Maintenance \union Chat
    BY <2>1, <2>3 DEF LeftBehind, Answered
  <2> QED
    BY <2>2, <2>3 DEF Invocation
<1>8. CASE WriteIdle(i)
  BY <1>8 DEF WriteIdle, Write, Idle, Answered
<1> QED
  BY <1>1, <1>2, <1>3, <1>4, <1>5, <1>6, <1>7, <1>8 DEF Step

LEMMA StepByKind ==
  ASSUME RowInv, NEW i \in Invocation, Step(i)
  PROVE  ByKind'
<1> USE LaneAssumption DEF RowInv, TypeOK, ByKind
<1>1. CASE Acquire(i) \/ Reject(i) \/ Queue(i) \/ WakeAndTake(i) \/ WakeAndWait(i) \/ PollAndTake(i) \/ PollAgain(i)
  BY <1>1 DEF Acquire, Reject, Queue, WakeAndTake, WakeAndWait, PollAndTake, PollAgain, Take, Blocked, Goto
<1>2. CASE StopPolling(i) \/ FailEarly(i) \/ Release(i) \/ Setup(i) \/ ReadView(i)
  BY <1>2 DEF StopPolling, FailEarly, Release, Setup, ReadView, Goto
<1>3. CASE RecordQueued(i) \/ RecordActive(i) \/ RecordRejected(i) \/ WriteIdle(i)
  BY <1>3 DEF RecordQueued, RecordActive, RecordRejected, WriteIdle, Write, Goto
<1> QED
  BY <1>1, <1>2, <1>3 DEF Step

(***************************************************************************)
(* The row of the lane settles, for every set of invocations of each kind, *)
(* every policy, and also where invocations share a run.                   *)
(***************************************************************************)
THEOREM RowSettled == Spec => []RowSettles
<1>1. Init => ByKind /\ Answered
  BY DEF Init, ByKind, Answered
<1>2. RowInv /\ [Next]_vars => ByKind' /\ Answered'
  <2> SUFFICES ASSUME RowInv, [Next]_vars PROVE ByKind' /\ Answered'
    OBVIOUS
  <2>1. ASSUME NEW i \in Invocation, Step(i) PROVE ByKind' /\ Answered'
    BY <2>1, StepAnswers, StepByKind
  <2>2. CASE BeginEdit \/ EndEdit \/ UNCHANGED vars
    BY <2>2 DEF BeginEdit, EndEdit, vars, RowInv, ByKind, Answered, Owes, LeftBehind, Idle
  <2>3. CASE Restart
    BY <2>3 DEF Restart, RowInv, TypeOK, ByKind, Answered, Idle
  <2> QED
    BY <2>1, <2>2, <2>3 DEF Next
<1>3. RowInv => RowSettles
  BY DEF RowInv, Answered, Owes, RowSettles
<1> QED
  BY <1>1, <1>2, <1>3, TypeCorrect, PTL DEF Spec, RowInv
=============================================================================
