----------------------- MODULE RuntimeEpisodesProofs -----------------------
(***************************************************************************)
(* What TLC shows of RuntimeEpisodes on one root and two children, proved  *)
(* for any set of children and any bound on faults and claims.             *)
(***************************************************************************)
EXTENDS RuntimeEpisodes, TLAPS

Slot == 0..MaxClaims

LEMMA PhaseWords ==
    /\ Inside \subseteq Phases
    /\ {"none", "claimed", "executing", "delegated", "stopping"} \subseteq Phases
    /\ {"dispatching", "ready", "failed", "parking", "announcing", "waking", "acking"} \subseteq Phases
BY DEF Phases, Inside

LEMMA StateWords ==
    /\ {"absent", "queued", "active", "waiting_child"} \subseteq States
    /\ {"completed", "failed", "cancelled"} \subseteq States
    /\ Terminal \subseteq States
BY DEF States, Terminal

LEMMA RootIsEpisode == Root \in Episode /\ Child \subseteq Episode
BY DEF Episode

(* Moving a task keeps the table of tasks well formed. *)
LEMMA GoTyped ==
    ASSUME TypeOK, NEW e \in Episode, NEW c \in Slot, NEW phase \in Phases, Go(e, c, phase)
    PROVE  task' \in [Episode -> [Slot -> Phases]]
BY DEF TypeOK, Go, Slot

(* So does moving a row. *)
LEMMA MoveTyped ==
    ASSUME TypeOK, NEW e \in Episode, NEW state \in States, Move(e, state)
    PROVE  row' \in [Episode -> States] /\ lapsed' \in SUBSET Episode
BY DEF TypeOK, Move

LEMMA InitTyped == Init => TypeOK
<1> SUFFICES ASSUME Init
             PROVE  TypeOK
  OBVIOUS
<1>1. 0 \in 0..MaxClaims /\ 0 \in 0..Faults
  BY EpisodeAssumption
<1>2. row \in [Episode -> States]
  BY StateWords DEF Init
<1>3. task \in [Episode -> [0..MaxClaims -> Phases]]
  BY PhaseWords DEF Init
<1> QED
  BY <1>1, <1>2, <1>3 DEF Init, TypeOK

LEMMA TakeTyped ==
    ASSUME TypeOK, NEW e \in Episode, Take(e)
    PROVE  TypeOK'
<1>1. claim[e] \in Nat /\ claim[e] < MaxClaims
  BY EpisodeAssumption DEF Take, TypeOK
<1>2. claim[e] + 1 \in Slot
  BY <1>1, EpisodeAssumption DEF Slot
<1>3. task' \in [Episode -> [Slot -> Phases]]
  BY <1>2, GoTyped, PhaseWords DEF Take
<1>4. row' \in [Episode -> States] /\ lapsed' \in SUBSET Episode
  BY MoveTyped, StateWords DEF Take
<1>5. claim' \in [Episode -> 0..MaxClaims]
  BY <1>2 DEF Take, TypeOK, Slot
<1> QED
  BY <1>3, <1>4, <1>5 DEF Take, TypeOK, Slot

LEMMA DeliverTyped ==
    ASSUME TypeOK, NEW e \in Episode, NEW c \in Slot, Deliver(e, c)
    PROVE  TypeOK'
<1>1. task' \in [Episode -> [Slot -> Phases]]
  BY GoTyped, PhaseWords DEF Deliver, Land, Retry
<1>2. row' \in [Episode -> States] /\ lapsed' \in SUBSET Episode
  BY MoveTyped, StateWords DEF Deliver, Land, Retry, TypeOK
<1>3. landed' \in [Episode -> 0..MaxClaims]
  BY DEF Deliver, Land, Retry, TypeOK, Slot
<1> QED
  BY <1>1, <1>2, <1>3 DEF Deliver, TypeOK, Slot

LEMMA StepTyped ==
    ASSUME TypeOK, NEW e \in Episode, NEW c \in Slot, Step(e, c)
    PROVE  TypeOK'
<1>1. CASE Begin(e, c)
  BY <1>1, GoTyped, PhaseWords DEF Begin, rows, TypeOK, Slot
<1>2. CASE LeaseLost(e, c)
  BY <1>2, GoTyped, PhaseWords DEF LeaseLost, rows, TypeOK, Slot
<1>3. CASE Return(e, c)
  <2>1. task' \in [Episode -> [Slot -> Phases]]
    BY <1>3, GoTyped, PhaseWords DEF Return
  <2> QED
    BY <1>3, <2>1 DEF Return, rows, TypeOK, Slot
<1>4. CASE Deliver(e, c)
  BY <1>4, DeliverTyped
<1>5. CASE Announce(e, c)
  <2>1. task' \in [Episode -> [Slot -> Phases]]
    BY <1>5, GoTyped, PhaseWords DEF Announce
  <2> QED
    BY <1>5, <2>1 DEF Announce, rows, TypeOK, Slot
<1>6. CASE Wake(e, c)
  <2>1. task' \in [Episode -> [Slot -> Phases]]
    BY <1>6, GoTyped, PhaseWords DEF Wake
  <2>2. row' \in [Episode -> States] /\ lapsed' \in SUBSET Episode
    BY <1>6, MoveTyped, StateWords, RootIsEpisode DEF Wake, ResumeParent, TypeOK
  <2>3. joined' \in BOOLEAN
    BY <1>6 DEF Wake, ResumeParent, TypeOK, Tolerable
  <2> QED
    BY <1>6, <2>1, <2>2, <2>3 DEF Wake, TypeOK, Slot
<1>7. CASE Notice(e, c)
  BY <1>7, GoTyped, PhaseWords DEF Notice, rows, TypeOK, Slot
<1>8. CASE Stop(e, c)
  <2>1. task' \in [Episode -> [Slot -> Phases]]
    BY <1>8, GoTyped, PhaseWords DEF Stop
  <2>2. row' \in [Episode -> States] /\ lapsed' \in SUBSET Episode
    BY <1>8, MoveTyped, StateWords DEF Stop, TypeOK
  <2> QED
    BY <1>8, <2>1, <2>2 DEF Stop, TypeOK, Slot
<1>9. CASE Ack(e, c)
  <2>1. task' \in [Episode -> [Slot -> Phases]]
    BY <1>9, GoTyped, PhaseWords DEF Ack
  <2> QED
    BY <1>9, <2>1 DEF Ack, rows, TypeOK, Slot
<1> QED
  BY <1>1, <1>2, <1>3, <1>4, <1>5, <1>6, <1>7, <1>8, <1>9 DEF Step

LEMMA RootTyped ==
    ASSUME TypeOK, NEW c \in Slot, RootStep(c) \/ Delegate(c)
    PROVE  TypeOK'
<1>1. ASSUME NEW child \in Child, Admit(c, child)
      PROVE  TypeOK'
  BY <1>1, StateWords, RootIsEpisode DEF Admit, TypeOK
<1>2. CASE DispatchCancelled(c)
  BY <1>2, GoTyped, PhaseWords, RootIsEpisode DEF DispatchCancelled, rows, TypeOK, Slot
<1>3. CASE Dispatched(c)
  BY <1>3, GoTyped, PhaseWords, RootIsEpisode DEF Dispatched, rows, TypeOK, Slot
<1>4. CASE Park(c)
  <2>1. task' \in [Episode -> [Slot -> Phases]]
    BY <1>4, GoTyped, PhaseWords, RootIsEpisode DEF Park
  <2>2. row' \in [Episode -> States] /\ lapsed' \in SUBSET Episode
    BY <1>4, MoveTyped, StateWords, RootIsEpisode DEF Park, TypeOK
  <2>3. dispatched' \in BOOLEAN
    BY <1>4 DEF Park, TypeOK
  <2> QED
    BY <1>4, <2>1, <2>2, <2>3 DEF Park, TypeOK, Slot
<1>5. CASE Delegate(c)
  <2>1. task' \in [Episode -> [Slot -> Phases]]
    BY <1>5, GoTyped, PhaseWords, RootIsEpisode DEF Delegate
  <2>2. row' \in [Episode -> States]
    BY <1>5, StateWords DEF Delegate, TypeOK
  <2> QED
    BY <1>5, <2>1, <2>2 DEF Delegate, TypeOK, Slot
<1> QED
  BY <1>1, <1>2, <1>3, <1>4, <1>5 DEF RootStep

LEMMA SettleTyped ==
    ASSUME TypeOK, NEW e \in Episode, Settle(e)
    PROVE  TypeOK'
<1>1. task' \in [Episode -> [Slot -> Phases]]
  <2>1. 0 \in Slot
    BY EpisodeAssumption DEF Slot
  <2> QED
    BY <2>1, GoTyped, PhaseWords DEF Settle
<1>2. row' \in [Episode -> States] /\ lapsed' \in SUBSET Episode
  BY MoveTyped, StateWords DEF Settle
<1> QED
  BY <1>1, <1>2 DEF Settle, TypeOK, Slot

LEMMA RestTyped ==
    ASSUME TypeOK,
           \/ \E e \in Episode : RequestCancel(e) \/ Lapse(e)
           \/ CancelRun \/ CancelOrphans \/ Crash
    PROVE  TypeOK'
<1>1. ASSUME NEW e \in Episode, RequestCancel(e)
      PROVE  TypeOK'
  BY <1>1 DEF RequestCancel, rows, TypeOK
<1>2. ASSUME NEW e \in Episode, Lapse(e)
      PROVE  TypeOK'
  <2>1. stalls' \in 0..Faults
    BY <1>2, EpisodeAssumption DEF Lapse, TypeOK
  <2> QED
    BY <1>2, <2>1 DEF Lapse, TypeOK
<1>3. CASE CancelRun
  BY <1>3 DEF CancelRun, rows, TypeOK
<1>4. CASE CancelOrphans
  BY <1>4, StateWords DEF CancelOrphans, TypeOK
<1>5. CASE Crash
  <2>1. crashes' \in 0..Faults
    BY <1>5, EpisodeAssumption DEF Crash, TypeOK
  <2> QED
    BY <1>5, <2>1, PhaseWords DEF Crash, rows, TypeOK
<1> QED
  BY <1>1, <1>2, <1>3, <1>4, <1>5

LEMMA NextTyped == TypeOK /\ [Next]_vars => TypeOK'
<1> SUFFICES ASSUME TypeOK, [Next]_vars
             PROVE  TypeOK'
  OBVIOUS
<1>1. CASE UNCHANGED vars
  BY <1>1 DEF vars, TypeOK
<1>2. CASE Next
  BY <1>2, TakeTyped, StepTyped, RootTyped, SettleTyped, RestTyped DEF Next, Runner, Slot
<1> QED
  BY <1>1, <1>2

(* Every reachable state is well formed. *)
THEOREM TypeCorrect == Spec => []TypeOK
<1>1. Init => TypeOK
  BY InitTyped
<1>2. TypeOK /\ [Next]_vars => TypeOK'
  BY NextTyped
<1> QED
  BY <1>1, <1>2, PTL DEF Spec

-----------------------------------------------------------------------------
(* A task writes only its own row, and only a row that has not ended.      *)

LEMMA MoveKeeps ==
    ASSUME TypeOK, NEW e \in Episode, NEW state, Move(e, state), row[e] \notin Terminal
    PROVE  \A f \in Episode : Over(f) => row'[f] = row[f]
BY DEF TypeOK, Move, Over

LEMMA Live == "queued" \notin Terminal /\ "active" \notin Terminal
              /\ "waiting_child" \notin Terminal /\ "absent" \notin Terminal
BY DEF Terminal

(* Every step leaves the rows that have ended as they are. *)
LEMMA Stays ==
    ASSUME TypeOK, [Next]_vars
    PROVE  \A f \in Episode : Over(f) => row'[f] = row[f]
<1>1. CASE UNCHANGED vars
  BY <1>1 DEF vars
<1>2. ASSUME NEW e \in Episode, Take(e)
      PROVE  \A f \in Episode : Over(f) => row'[f] = row[f]
  BY <1>2, MoveKeeps, Live DEF Take
<1>3. ASSUME NEW e \in Episode, Settle(e)
      PROVE  \A f \in Episode : Over(f) => row'[f] = row[f]
  BY <1>3, MoveKeeps, Live DEF Settle
<1>4. ASSUME NEW e \in Episode, NEW c \in Slot, Step(e, c)
      PROVE  \A f \in Episode : Over(f) => row'[f] = row[f]
  <2>1. CASE Begin(e, c) \/ LeaseLost(e, c) \/ Return(e, c) \/ Announce(e, c) \/ Notice(e, c) \/ Ack(e, c)
    BY <2>1 DEF Begin, LeaseLost, Return, Announce, Notice, Ack, rows
  <2>2. CASE Deliver(e, c)
    <3>1. CASE Holds(e, c)
      BY <2>2, <3>1, MoveKeeps, Live DEF Deliver, Land, Retry, Holds
    <3>2. CASE ~Holds(e, c)
      BY <2>2, <3>2 DEF Deliver
    <3> QED
      BY <3>1, <3>2
  <2>3. CASE Wake(e, c)
    BY <2>3, MoveKeeps, Live, RootIsEpisode DEF Wake, ResumeParent
  <2>4. CASE Stop(e, c)
    BY <2>4, MoveKeeps, Live DEF Stop, Holds
  <2> QED
    BY <1>4, <2>1, <2>2, <2>3, <2>4 DEF Step
<1>5. ASSUME NEW c \in Slot, RootStep(c) \/ Delegate(c)
      PROVE  \A f \in Episode : Over(f) => row'[f] = row[f]
  <2>1. ASSUME NEW child \in Child, Admit(c, child)
        PROVE  \A f \in Episode : Over(f) => row'[f] = row[f]
    BY <2>1, Live DEF Admit, TypeOK, Over
  <2>2. CASE DispatchCancelled(c) \/ Dispatched(c)
    BY <2>2 DEF DispatchCancelled, Dispatched, rows
  <2>3. CASE Park(c)
    BY <2>3, MoveKeeps, Live, RootIsEpisode DEF Park, Holds
  <2>4. CASE Delegate(c)
    BY <2>4, Live DEF Delegate, TypeOK, Over
  <2> QED
    BY <1>5, <2>1, <2>2, <2>3, <2>4 DEF RootStep
<1>6. CASE \E e \in Episode : RequestCancel(e) \/ Lapse(e)
  BY <1>6 DEF RequestCancel, Lapse, rows
<1>7. CASE CancelRun \/ Crash
  BY <1>7 DEF CancelRun, Crash, rows
<1>8. CASE CancelOrphans
  BY <1>8 DEF CancelOrphans, Over
<1> QED
  BY <1>1, <1>2, <1>3, <1>4, <1>5, <1>6, <1>7, <1>8 DEF Next, Runner, Slot

(* An episode that ended stays as it ended, for any number of workers,     *)
(* lapsed leases and cancellations (_complete_runtime_episode_in_          *)
(* transaction and the compare-and-set of resume_runtime_episode).         *)
THEOREM EndedForGood == Spec => TerminalStays
<1>1. TypeOK /\ TypeOK' /\ [Next]_vars => [\A e \in Episode : Over(e) => row'[e] = row[e]]_vars
  BY Stays
<1>2. Spec => []TypeOK
  BY TypeCorrect
<1> QED
  BY <1>1, <1>2, PTL DEF Spec, TerminalStays

-----------------------------------------------------------------------------
(* Only a claim and a delivery touch the generation and the result.        *)

LEMMA Unlanded ==
    ASSUME Next,
           \A e \in Episode : ~Take(e),
           \A e \in Episode, c \in Slot : ~Deliver(e, c)
    PROVE  claim' = claim /\ landed' = landed
<1>1. CASE \E e \in Episode : Settle(e) \/ RequestCancel(e) \/ Lapse(e)
  BY <1>1 DEF Settle, RequestCancel, Lapse, rows
<1>2. CASE \E e \in Episode, c \in Slot : Step(e, c)
  BY <1>2 DEF Step, Begin, LeaseLost, Return, Announce, Wake, Notice, Stop, Ack, rows
<1>3. CASE \E c \in Slot : RootStep(c) \/ Delegate(c)
  BY <1>3 DEF RootStep, Delegate, Admit, DispatchCancelled, Dispatched, Park, rows
<1>4. CASE CancelRun \/ CancelOrphans \/ Crash
  BY <1>4 DEF CancelRun, CancelOrphans, Crash, rows
<1> QED
  BY <1>1, <1>2, <1>3, <1>4 DEF Next, Runner, Slot

LEMMA LandedKept ==
    ASSUME TypeOK, LandedByHolder, [Next]_vars
    PROVE  LandedByHolder'
<1>0. \A e \in Episode : Over(e) => Over(e)'
  BY Stays DEF Over
<1>1. ASSUME claim' = claim, landed' = landed
      PROVE  LandedByHolder'
  BY <1>0, <1>1 DEF LandedByHolder
<1>2. ASSUME NEW e \in Episode, Take(e)
      PROVE  LandedByHolder'
  <2>1. landed[e] = 0
    BY <1>2, Live DEF LandedByHolder, Take, Over
  <2>2. \A f \in Episode \ {e} : claim'[f] = claim[f]
    BY <1>2 DEF Take, TypeOK
  <2>3. landed' = landed
    BY <1>2 DEF Take
  <2> QED
    BY <1>0, <2>1, <2>2, <2>3 DEF LandedByHolder
<1>3. ASSUME NEW e \in Episode, NEW c \in Slot, Deliver(e, c)
      PROVE  LandedByHolder'
  <2>1. claim' = claim
    BY <1>3 DEF Deliver
  <2>2. CASE landed' = landed
    BY <1>1, <2>1, <2>2
  <2>3. CASE landed' # landed
    <3>1. /\ Holds(e, c) /\ landed' = [landed EXCEPT ![e] = c]
          /\ Move(e, "completed") \/ Move(e, "failed")
      BY <1>3, <2>3 DEF Deliver, Land, Retry
    <3>2. landed'[e] = c /\ claim'[e] = c /\ Over(e)'
      BY <3>1, <2>1 DEF Holds, Move, Over, Terminal, TypeOK
    <3>3. \A f \in Episode \ {e} : landed'[f] = landed[f]
      BY <3>1 DEF TypeOK
    <3> QED
      BY <1>0, <2>1, <3>2, <3>3 DEF LandedByHolder
  <2> QED
    BY <2>2, <2>3
<1>4. CASE UNCHANGED vars
  BY <1>1, <1>4 DEF vars
<1> QED
  BY <1>1, <1>2, <1>3, <1>4, Unlanded

(* A result was always produced under the row's last claim: the fence of   *)
(* commit_runtime_episode_delivery keeps every stale worker out.           *)
THEOREM HolderDelivers == Spec => []LandedByHolder
<1>1. Init => LandedByHolder
  BY DEF Init, LandedByHolder
<1>2. TypeOK /\ LandedByHolder /\ [Next]_vars => LandedByHolder'
  BY LandedKept
<1>3. Spec => []TypeOK
  BY TypeCorrect
<1> QED
  BY <1>1, <1>2, <1>3, PTL DEF Spec

-----------------------------------------------------------------------------
(* The join.  What the root's tasks and the joining tasks have read stays  *)
(* true, because children neither disappear nor come back.                 *)

Admitted == \A child \in Child : row[child] # "absent"

AllOver == \A child \in Child : Over(child)

(* A phase that some tasks are in only because of what they have read. *)
Honest(e, phase) ==
    /\ phase = "waking" => AllOver
    /\ e = Root =>
          /\ phase = "parking" => Admitted
          /\ phase # "delegated"
          /\ phase \in {"executing", "ready"} => dispatched

Told == \A e \in Episode, c \in Slot : Honest(e, task[e][c])

(* What the row of the root says. *)
Resumed ==
    /\ dispatched => Admitted
    /\ row[Root] = "waiting_child" => dispatched
    /\ dispatched /\ row[Root] \in {"queued", "active"} => joined
    /\ joined \/ row[Root] = "completed" => AllOver

JoinInv == declared => Told /\ Resumed

LEMMA RootApart == \A child \in Child : child # Root
BY EpisodeAssumption

LEMMA GoOnly ==
    ASSUME TypeOK, NEW e \in Episode, NEW c \in Slot, NEW phase, Go(e, c, phase)
    PROVE  \A f \in Episode, d \in Slot :
              task'[f][d] = IF f = e /\ d = c THEN phase ELSE task[f][d]
BY DEF TypeOK, Go, Slot

LEMMA MoveOnly ==
    ASSUME TypeOK, NEW e \in Episode, NEW state, Move(e, state)
    PROVE  \A f \in Episode : row'[f] = IF f = e THEN state ELSE row[f]
BY DEF TypeOK, Move

(* An admitted episode is never forgotten. *)
LEMMA Present ==
    ASSUME TypeOK, [Next]_vars
    PROVE  \A f \in Episode : row[f] # "absent" => row'[f] # "absent"
<1>1. CASE UNCHANGED vars
  BY <1>1 DEF vars
<1>2. ASSUME NEW e \in Episode, NEW state, Move(e, state), state # "absent"
      PROVE  \A f \in Episode : row[f] # "absent" => row'[f] # "absent"
  BY <1>2, MoveOnly
<1>3. CASE \E e \in Episode : Take(e) \/ Settle(e)
  BY <1>2, <1>3 DEF Take, Settle
<1>4. ASSUME NEW e \in Episode, NEW c \in Slot, Step(e, c)
      PROVE  \A f \in Episode : row[f] # "absent" => row'[f] # "absent"
  <2>1. CASE Begin(e, c) \/ LeaseLost(e, c) \/ Return(e, c) \/ Announce(e, c) \/ Notice(e, c) \/ Ack(e, c)
    BY <2>1 DEF Begin, LeaseLost, Return, Announce, Notice, Ack, rows
  <2>2. CASE Deliver(e, c)
    BY <1>2, <2>2 DEF Deliver, Land, Retry
  <2>3. CASE Wake(e, c)
    BY <1>2, <2>3, RootIsEpisode DEF Wake, ResumeParent
  <2>4. CASE Stop(e, c)
    BY <1>2, <2>4 DEF Stop
  <2> QED
    BY <1>4, <2>1, <2>2, <2>3, <2>4 DEF Step
<1>5. ASSUME NEW c \in Slot, RootStep(c) \/ Delegate(c)
      PROVE  \A f \in Episode : row[f] # "absent" => row'[f] # "absent"
  <2>1. ASSUME NEW child \in Child, Admit(c, child)
        PROVE  \A f \in Episode : row[f] # "absent" => row'[f] # "absent"
    BY <2>1 DEF Admit, TypeOK
  <2>2. CASE DispatchCancelled(c) \/ Dispatched(c)
    BY <2>2 DEF DispatchCancelled, Dispatched, rows
  <2>3. CASE Park(c)
    BY <1>2, <2>3, RootIsEpisode DEF Park
  <2>4. CASE Delegate(c)
    BY <2>4 DEF Delegate, TypeOK
  <2> QED
    BY <1>5, <2>1, <2>2, <2>3, <2>4 DEF RootStep
<1>6. CASE \E e \in Episode : RequestCancel(e) \/ Lapse(e)
  BY <1>6 DEF RequestCancel, Lapse, rows
<1>7. CASE CancelRun \/ Crash
  BY <1>7 DEF CancelRun, Crash, rows
<1>8. CASE CancelOrphans
  BY <1>8 DEF CancelOrphans
<1> QED
  BY <1>1, <1>3, <1>4, <1>5, <1>6, <1>7, <1>8 DEF Next, Runner, Slot

LEMMA Lasting ==
    ASSUME TypeOK, [Next]_vars
    PROVE  (AllOver => AllOver') /\ (Admitted => Admitted')
<1>1. AllOver => AllOver'
  BY Stays, RootIsEpisode DEF AllOver, Over
<1>2. Admitted => Admitted'
  BY Present, RootIsEpisode DEF Admitted
<1> QED
  BY <1>1, <1>2

LEMMA ToldKept ==
    ASSUME TypeOK, [Next]_vars, Told, dispatched => dispatched',
           \A e \in Episode, c \in Slot : task'[e][c] = task[e][c] \/ Honest(e, task'[e][c])
    PROVE  Told'
<1>1. \A e \in Episode, c \in Slot : Honest(e, task'[e][c])
  BY DEF Told
<1>2. ASSUME NEW e \in Episode, NEW phase, Honest(e, phase)
      PROVE  /\ phase = "waking" => AllOver'
             /\ e = Root =>
                   /\ phase = "parking" => Admitted'
                   /\ phase # "delegated"
                   /\ phase \in {"executing", "ready"} => dispatched'
  BY <1>2, Lasting DEF Honest
<1> QED
  BY <1>1, <1>2 DEF Told, Honest

LEMMA ToldGo ==
    ASSUME TypeOK, [Next]_vars, Told, dispatched => dispatched',
           NEW e \in Episode, NEW c \in Slot, NEW phase, Go(e, c, phase), Honest(e, phase)
    PROVE  Told'
BY GoOnly, ToldKept

LEMMA Modest ==
    \A e : \A phase \in {"none", "claimed", "dispatching", "failed", "stopping", "announcing", "acking"} :
        Honest(e, phase)
BY DEF Honest

(* The root stays, ends other than by completing, or waits for its turn.   *)
LEMMA ResumedKept ==
    ASSUME TypeOK, [Next]_vars, Resumed, UNCHANGED <<dispatched, joined>>,
           \/ row'[Root] = row[Root]
           \/ row'[Root] \in {"failed", "cancelled"}
           \/ row[Root] \in {"queued", "active"} /\ row'[Root] \in {"queued", "active"}
    PROVE  Resumed'
BY Lasting DEF Resumed

LEMMA JoinStep ==
    ASSUME TypeOK, [Next]_vars, Told, Resumed, declared,
           NEW e \in Episode, NEW c \in Slot, Step(e, c)
    PROVE  Told' /\ Resumed'
<1>1. CASE Begin(e, c)
  <2>1. row' = row /\ UNCHANGED <<dispatched, joined>>
    BY <1>1 DEF Begin, rows
  <2>2. CASE e = Root /\ ~dispatched
    BY <1>1, <2>1, <2>2, ToldGo, Modest, ResumedKept DEF Begin
  <2>3. CASE e # Root \/ dispatched
    <3>1. Honest(e, "executing")
      BY <2>3 DEF Honest
    <3>2. Go(e, c, "executing")
      BY <1>1, <2>3 DEF Begin
    <3> QED
      BY <2>1, <3>1, <3>2, ToldGo, ResumedKept
  <2> QED
    BY <2>2, <2>3
<1>2. CASE LeaseLost(e, c) \/ Notice(e, c)
  <2>1. row' = row /\ UNCHANGED <<dispatched, joined>>
    BY <1>2 DEF LeaseLost, Notice, rows
  <2>2. Go(e, c, "none") \/ Go(e, c, "stopping")
    BY <1>2 DEF LeaseLost, Notice
  <2> QED
    BY <2>1, <2>2, ToldGo, Modest, ResumedKept
<1>3. CASE Return(e, c)
  <2>1. row' = row /\ UNCHANGED <<dispatched, joined>>
    BY <1>3 DEF Return, rows
  <2>2. CASE task[e][c] = "executing" /\ Go(e, c, "ready")
    <3>1. Honest(e, "ready")
      BY <2>2 DEF Told, Honest
    <3> QED
      BY <2>1, <2>2, <3>1, ToldGo, ResumedKept
  <2>3. CASE Go(e, c, "failed")
    BY <2>1, <2>3, ToldGo, Modest, ResumedKept
  <2>4. CASE task[e][c] = "delegated" /\ Go(e, c, "parking")
    <3>1. Honest(e, "parking")
      BY <2>4 DEF Told, Honest
    <3> QED
      BY <2>1, <2>4, <3>1, ToldGo, ResumedKept
  <2> QED
    BY <1>3, <2>2, <2>3, <2>4 DEF Return
<1>4. CASE Deliver(e, c)
  <2>1. UNCHANGED <<dispatched, joined>>
    BY <1>4 DEF Deliver
  <2>2. Told'
    BY <1>4, <2>1, ToldGo, Modest DEF Deliver, Land, Retry
  <2>3. CASE row' = row
    BY <2>1, <2>2, <2>3, ResumedKept
  <2>4. CASE Holds(e, c) /\ (Move(e, "failed") \/ Move(e, "queued"))
    <3>1. CASE e = Root
      BY <2>1, <2>2, <2>4, <3>1, MoveOnly, RootIsEpisode, ResumedKept DEF Holds
    <3>2. CASE e # Root
      BY <2>1, <2>2, <2>4, <3>2, MoveOnly, RootIsEpisode, ResumedKept
    <3> QED
      BY <3>1, <3>2
  <2>5. CASE Holds(e, c) /\ task[e][c] = "ready" /\ Move(e, "completed")
    <3>1. CASE e = Root
      <4>1. AllOver /\ dispatched
        BY <2>5, <3>1 DEF Told, Honest, Resumed, Holds
      <4>2. row'[Root] = "completed"
        BY <2>5, <3>1, MoveOnly
      <4> QED
        BY <2>1, <2>2, <4>1, <4>2, Lasting DEF Resumed
    <3>2. CASE e # Root
      BY <2>1, <2>2, <2>5, <3>2, MoveOnly, RootIsEpisode, ResumedKept
    <3> QED
      BY <3>1, <3>2
  <2> QED
    BY <1>4, <2>3, <2>4, <2>5 DEF Deliver, Land, Retry
<1>5. CASE Announce(e, c)
  <2>1. row' = row /\ UNCHANGED <<dispatched, joined>>
    BY <1>5 DEF Announce, rows
  <2>2. CASE e \in Child /\ row[Root] = "waiting_child" /\ AllEnded
    <3>1. AllOver
      BY <2>2 DEF Resumed, Admitted, AllEnded, AllOver, Over
    <3>2. Honest(e, "waking")
      BY <3>1 DEF Honest
    <3> QED
      BY <1>5, <2>1, <2>2, <3>2, ToldGo, ResumedKept DEF Announce
  <2>3. CASE ~(e \in Child /\ row[Root] = "waiting_child" /\ AllEnded)
    BY <1>5, <2>1, <2>3, ToldGo, Modest, ResumedKept DEF Announce
  <2> QED
    BY <2>2, <2>3
<1>6. CASE Wake(e, c)
  <2>1. Told'
    BY <1>6, ToldGo, Modest DEF Wake
  <2>2. CASE row[Root] = "waiting_child"
    <3>1. AllOver
      BY <1>6 DEF Wake, Told, Honest
    <3>2. row'[Root] = IF Tolerable THEN "queued" ELSE "failed"
      BY <1>6, <2>2, MoveOnly, RootIsEpisode DEF Wake, ResumeParent
    <3>3. (Tolerable => joined') /\ dispatched' = dispatched
      BY <1>6, <2>2 DEF Wake, ResumeParent
    <3> QED
      BY <2>1, <3>1, <3>2, <3>3, Lasting DEF Resumed
  <2>3. CASE row[Root] # "waiting_child"
    BY <1>6, <2>1, <2>3, ResumedKept DEF Wake
  <2> QED
    BY <2>2, <2>3
<1>7. CASE Stop(e, c)
  <2>1. Told' /\ UNCHANGED <<dispatched, joined>>
    BY <1>7, ToldGo, Modest DEF Stop
  <2> QED
    BY <1>7, <2>1, MoveOnly, RootIsEpisode, ResumedKept DEF Stop
<1>8. CASE Ack(e, c)
  BY <1>8, ToldGo, Modest, ResumedKept DEF Ack, rows
<1> QED
  BY <1>1, <1>2, <1>3, <1>4, <1>5, <1>6, <1>7, <1>8 DEF Step

LEMMA JoinRoot ==
    ASSUME TypeOK, [Next]_vars, Told, Resumed, declared,
           NEW c \in Slot, RootStep(c) \/ Delegate(c)
    PROVE  Told' /\ Resumed'
<1>1. ASSUME NEW child \in Child, Admit(c, child)
      PROVE  Told' /\ Resumed'
  <2>1. row'[Root] = row[Root] /\ UNCHANGED <<dispatched, joined, task>>
    BY <1>1, RootApart, RootIsEpisode DEF Admit, TypeOK
  <2> QED
    BY <2>1, ToldKept, ResumedKept
<1>2. CASE DispatchCancelled(c)
  <2>1. row' = row /\ UNCHANGED <<dispatched, joined>> /\ Go(Root, c, "stopping")
    BY <1>2 DEF DispatchCancelled, rows
  <2> QED
    BY <2>1, ToldGo, Modest, ResumedKept, RootIsEpisode
<1>3. CASE Dispatched(c)
  <2>1. row' = row /\ UNCHANGED <<dispatched, joined>> /\ Go(Root, c, "parking")
    BY <1>3 DEF Dispatched, rows
  <2>2. Honest(Root, "parking")
    BY <1>3 DEF Dispatched, Honest, Admitted
  <2> QED
    BY <2>1, <2>2, ToldGo, ResumedKept, RootIsEpisode
<1>4. CASE Park(c)
  <2>1. dispatched => dispatched'
    BY <1>4 DEF Park
  <2>2. Told'
    BY <1>4, <2>1, ToldGo, Modest, RootIsEpisode DEF Park
  <2>3. CASE Holds(Root, c)
    <3>1. Admitted
      BY <1>4, RootIsEpisode DEF Park, Told, Honest
    <3>2. row'[Root] = "waiting_child" /\ dispatched' = TRUE /\ joined' = joined
      BY <1>4, <2>3, MoveOnly, RootIsEpisode DEF Park
    <3> QED
      BY <2>2, <3>1, <3>2, Lasting DEF Resumed
  <2>4. CASE ~Holds(Root, c)
    BY <1>4, <2>2, <2>4, ResumedKept DEF Park
  <2> QED
    BY <2>3, <2>4
<1>5. CASE Delegate(c)
  BY <1>5 DEF Delegate
<1> QED
  BY <1>1, <1>2, <1>3, <1>4, <1>5 DEF RootStep

LEMMA JoinRest ==
    ASSUME TypeOK, [Next]_vars, Told, Resumed,
           \/ \E e \in Episode : Take(e) \/ Settle(e) \/ RequestCancel(e) \/ Lapse(e)
           \/ CancelRun \/ CancelOrphans \/ Crash \/ UNCHANGED vars
    PROVE  Told' /\ Resumed'
<1>1. ASSUME NEW e \in Episode, Take(e)
      PROVE  Told' /\ Resumed'
  <2>1. claim[e] + 1 \in Slot
    BY <1>1, EpisodeAssumption DEF Take, TypeOK, Slot
  <2>2. Told'
    BY <1>1, <2>1, ToldGo, Modest DEF Take
  <2>3. UNCHANGED <<dispatched, joined>>
    BY <1>1 DEF Take
  <2>4. row'[Root] = row[Root] \/ (row[Root] \in {"queued", "active"} /\ row'[Root] = "active")
    BY <1>1, MoveOnly, RootIsEpisode DEF Take
  <2> QED
    BY <2>2, <2>3, <2>4, ResumedKept
<1>2. ASSUME NEW e \in Episode, Settle(e)
      PROVE  Told' /\ Resumed'
  <2>1. 0 \in Slot
    BY EpisodeAssumption DEF Slot
  <2>2. Told'
    BY <1>2, <2>1, ToldGo, Modest DEF Settle
  <2>3. UNCHANGED <<dispatched, joined>>
    BY <1>2 DEF Settle
  <2>4. row'[Root] = row[Root] \/ row'[Root] = "cancelled"
    BY <1>2, MoveOnly, RootIsEpisode DEF Settle
  <2> QED
    BY <2>2, <2>3, <2>4, ResumedKept
<1>3. CASE (\E e \in Episode : RequestCancel(e) \/ Lapse(e)) \/ CancelRun \/ UNCHANGED vars
  <2>1. UNCHANGED <<row, task, dispatched, joined>>
    BY <1>3 DEF RequestCancel, Lapse, CancelRun, rows, vars
  <2> QED
    BY <2>1, ToldKept, ResumedKept
<1>4. CASE CancelOrphans
  <2>1. UNCHANGED <<task, dispatched, joined>>
    BY <1>4 DEF CancelOrphans
  <2>2. row'[Root] = row[Root] \/ row'[Root] = "cancelled"
    BY <1>4, RootIsEpisode DEF CancelOrphans
  <2> QED
    BY <2>1, <2>2, ToldKept, ResumedKept
<1>5. CASE Crash
  <2>1. UNCHANGED <<row, dispatched, joined>>
    BY <1>5 DEF Crash, rows
  <2>2. \A e \in Episode, c \in Slot : Honest(e, task'[e][c])
    BY <1>5, Modest DEF Crash, Slot
  <2> QED
    BY <2>1, <2>2, ToldKept, ResumedKept
<1> QED
  BY <1>1, <1>2, <1>3, <1>4, <1>5

LEMMA JoinKept == TypeOK /\ JoinInv /\ [Next]_vars => JoinInv'
<1> SUFFICES ASSUME TypeOK, JoinInv, [Next]_vars
             PROVE  JoinInv'
  OBVIOUS
<1>1. declared' = declared
  <2>1. CASE \E e \in Episode : Take(e) \/ Settle(e) \/ RequestCancel(e) \/ Lapse(e)
    BY <2>1 DEF Take, Settle, RequestCancel, Lapse, rows
  <2>2. CASE \E e \in Episode, c \in Slot : Step(e, c)
    BY <2>2 DEF Step, Begin, LeaseLost, Return, Deliver, Announce, Wake, Notice, Stop, Ack, rows
  <2>3. CASE \E c \in Slot : RootStep(c) \/ Delegate(c)
    BY <2>3 DEF RootStep, Delegate, Admit, DispatchCancelled, Dispatched, Park, rows
  <2>4. CASE CancelRun \/ CancelOrphans \/ Crash \/ UNCHANGED vars
    BY <2>4 DEF CancelRun, CancelOrphans, Crash, rows, vars
  <2> QED
    BY <2>1, <2>2, <2>3, <2>4 DEF Next, Runner, Slot
<1>2. ASSUME declared
      PROVE  Told' /\ Resumed'
  <2>1. Told /\ Resumed
    BY <1>2 DEF JoinInv
  <2>2. CASE \E e \in Episode, c \in Slot : Step(e, c)
    BY <1>2, <2>1, <2>2, JoinStep
  <2>3. CASE \E c \in Slot : RootStep(c) \/ Delegate(c)
    BY <1>2, <2>1, <2>3, JoinRoot
  <2>4. CASE \/ \E e \in Episode : Take(e) \/ Settle(e) \/ RequestCancel(e) \/ Lapse(e)
             \/ CancelRun \/ CancelOrphans \/ Crash \/ UNCHANGED vars
    BY <2>1, <2>4, JoinRest
  <2> QED
    BY <2>2, <2>3, <2>4 DEF Next, Runner, Slot
<1> QED
  BY <1>1, <1>2 DEF JoinInv

(* A root with declared needs is resumed, and completes, only over         *)
(* children that were all admitted and have all ended, for any number of   *)
(* crashes and re-dispatches (_dispatch_child_needs and                    *)
(* _maybe_resume_parent_episode).                                          *)
THEOREM JoinComplete == Spec => []JoinedAfterAll
<1>1. Init => JoinInv
  <2> SUFFICES ASSUME Init
               PROVE  Told /\ Resumed
    BY DEF JoinInv
  <2>1. Told
    BY Modest DEF Init, Told, Slot
  <2>2. Resumed
    BY RootIsEpisode DEF Init, Resumed
  <2> QED
    BY <2>1, <2>2
<1>2. TypeOK /\ JoinInv /\ [Next]_vars => JoinInv'
  BY JoinKept
<1>3. JoinInv => JoinedAfterAll
  BY DEF JoinInv, Resumed, JoinedAfterAll, AllOver
<1>4. Spec => []TypeOK
  BY TypeCorrect
<1> QED
  BY <1>1, <1>2, <1>3, <1>4, PTL DEF Spec
=============================================================================
