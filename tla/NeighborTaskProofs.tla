------------------------- MODULE NeighborTaskProofs -------------------------
(***************************************************************************)
(* Theorems about NeighborTask, for every number of recovery attempts and  *)
(* of crashes of either engine.                                            *)
(***************************************************************************)
EXTENDS NeighborTask, TLAPS

USE NeighborAssumption

OriginStates == Kinds \union {"none", "queued", "sent"}
Results == Kinds \union {"none"}
MessageStates == {"absent", "pending", "failed", "sent"}
Steps == Posting \union Settling \union {"idle", "claimed", "graph", "record", "compose"}
Tasks == {"execute", "recover", "reconcile"}

OriginTyped == origin \in [status : OriginStates, result : Results] /\ stored \in SUBSET Kinds
QueueTyped ==
    /\ queue \in {"none", "queued", "leased", "lapsed", "waiting", "completed", "failed"}
    /\ run \in Kinds \union {"none", "running", "lost"}
    /\ tries \in 0..MaxTries
    /\ begun \in Nat /\ crashes \in 0..MaxCrash
AnswerTyped == answer \in [known : SUBSET Kinds, last : Results]
MessageTyped == message \in [Messages -> MessageStates]
WorkTyped == work \in [step : Steps, kind : Kinds, task : Tasks]
PostsTyped ==
    /\ dispatch \in Posting \union {"idle"}
    /\ resend \in [step : Posting \union {"idle"}, kind : Kinds]
    /\ late \in SUBSET Messages

Typed == OriginTyped /\ QueueTyped /\ AnswerTyped /\ MessageTyped /\ WorkTyped /\ PostsTyped

LEMMA Parts == TypeOK <=> Typed
  BY DEF TypeOK, Typed, OriginTyped, QueueTyped, AnswerTyped, MessageTyped, WorkTyped, PostsTyped,
         OriginStates, Results, MessageStates, Steps, Tasks

(* The words the actions write. *)
LEMMA Words ==
    /\ Kinds = {"completed", "failed", "waiting"}
    /\ Kinds \subseteq OriginStates /\ {"none", "queued", "sent"} \subseteq OriginStates
    /\ Kinds \subseteq Results /\ "none" \in Results
    /\ Kinds \subseteq Messages /\ "assign" \in Messages
    /\ MessageStates = {"absent", "pending", "failed", "sent"}
    /\ Posting = {"post", "answered"}
    /\ {"post", "answered", "delivered", "undelivered", "idle", "claimed", "graph", "record",
        "compose"} = Steps
    /\ Tasks = {"execute", "recover", "reconcile"}
  BY DEF Kinds, Terminal, Messages, OriginStates, Results, MessageStates, Steps, Tasks, Posting, Settling

LEMMA MarkedTyped ==
    ASSUME MessageTyped, NEW m \in Messages, NEW status \in MessageStates, Marked(m, status)
    PROVE  MessageTyped'
  BY DEF MessageTyped, Marked

LEMMA GotoTyped == ASSUME WorkTyped, NEW step \in Steps, Goto(step) PROVE WorkTyped'
  BY DEF WorkTyped, Goto

LEMMA IdleTyped == Idle \in [step : Steps, kind : Kinds, task : Tasks]
  BY Words DEF Idle

LEMMA TakesTyped == ASSUME NEW kind \in Kinds, NEW task \in Tasks, Takes(kind, task) PROVE WorkTyped'
  BY Words DEF WorkTyped, Takes

LEMMA GivesUpTyped ==
    ASSUME PostsTyped, NEW m \in Messages, NEW step, GivesUp(m, step)
    PROVE  late' \in SUBSET Messages
  BY DEF PostsTyped, GivesUp

LEMMA AcceptTyped == ASSUME QueueTyped, Accept
    PROVE  queue' \in {"none", "queued", "leased", "lapsed", "waiting", "completed", "failed"}
  BY DEF QueueTyped, Accept

LEMMA StoreTyped == ASSUME OriginTyped, NEW k \in Kinds, Store(k) PROVE OriginTyped'
  <1>1. CASE UNCHANGED <<origin, stored>> BY <1>1 DEF OriginTyped
  <1>2. CASE origin' = [status |-> k, result |-> k] /\ stored' = stored \union {k}
    BY <1>2, Words DEF OriginTyped
  <1> QED BY <1>1, <1>2 DEF Store

LEMMA ConcludedTyped ==
    ASSUME OriginTyped, NEW status \in OriginStates
    PROVE  Concluded(status) \in [status : OriginStates, result : Results]
  BY DEF OriginTyped, Concluded

-----------------------------------------------------------------------------
LEMMA TypedInit == Init => Typed
  <1> SUFFICES ASSUME Init PROVE Typed OBVIOUS
  <1>1. 0 \in 0..MaxTries /\ 0 \in 0..MaxCrash OBVIOUS
  <1>2. OriginTyped BY Words DEF Init, OriginTyped
  <1>3. QueueTyped BY <1>1 DEF Init, QueueTyped
  <1>4. AnswerTyped /\ MessageTyped BY Words DEF Init, AnswerTyped, MessageTyped
  <1>5. WorkTyped BY IdleTyped DEF Init, WorkTyped
  <1>6. PostsTyped BY Words DEF Init, PostsTyped
  <1> QED BY <1>2, <1>3, <1>4, <1>5, <1>6 DEF Typed

LEMMA OriginStepTyped ==
    ASSUME Typed, OriginStep \/ CrashOrigin \/ (\E k \in Kinds : LateAnswer(k))
    PROVE  Typed'
  <1> USE DEF Typed
  <1>1. ASSUME Dispatch PROVE Typed'
    <2>1. "assign" \in Messages /\ "sent" \in OriginStates /\ "queued" \in OriginStates BY Words
    <2>2. MessageTyped'
      <3>1. CASE UNCHANGED message BY <3>1 DEF MessageTyped
      <3>2. CASE message' = [message EXCEPT !["assign"] = IF @ = "absent" THEN "pending" ELSE @]
        BY <3>2, <2>1, Words DEF MessageTyped
      <3> QED BY <1>1, <3>1, <3>2 DEF Dispatch
    <2>3. OriginTyped'
      <3>1. CASE origin' = Concluded("sent") BY <1>1, <3>1, <2>1, ConcludedTyped DEF Dispatch, OriginTyped
      <3>2. CASE origin' = [origin EXCEPT !.status = "queued"]
        BY <1>1, <3>2, <2>1 DEF Dispatch, OriginTyped
      <3>3. CASE origin' = origin BY <1>1, <3>3 DEF Dispatch, OriginTyped
      <3> QED BY <1>1, <3>1, <3>2, <3>3 DEF Dispatch
    <2>4. dispatch' \in Posting \union {"idle"} BY <1>1, Words DEF Dispatch, PostsTyped
    <2> QED BY <1>1, <2>2, <2>3, <2>4 DEF Dispatch, peerRows, QueueTyped, AnswerTyped, WorkTyped, PostsTyped
  <1>2. ASSUME RequestArrives PROVE Typed'
    BY <1>2, AcceptTyped, Words
       DEF RequestArrives, OriginTyped, QueueTyped, AnswerTyped, MessageTyped, WorkTyped, PostsTyped
  <1>3. ASSUME RequestAcked PROVE Typed'
    <2>1. MessageTyped' BY <1>3, MarkedTyped, Words DEF RequestAcked
    <2>2. OriginTyped' BY <1>3, ConcludedTyped, Words DEF RequestAcked, OriginTyped
    <2> QED BY <1>3, <2>1, <2>2 DEF RequestAcked, peerRows, QueueTyped, AnswerTyped, WorkTyped, PostsTyped
  <1>4. ASSUME RequestFails PROVE Typed'
    <2>1. MessageTyped' BY <1>4, MarkedTyped, Words DEF RequestFails
    <2>2. OriginTyped' BY <1>4, ConcludedTyped, Words DEF RequestFails, OriginTyped
    <2>3. late' \in SUBSET Messages BY <1>4, GivesUpTyped, Words DEF RequestFails
    <2> QED BY <1>4, <2>1, <2>2, <2>3
            DEF RequestFails, peerRows, QueueTyped, AnswerTyped, WorkTyped, PostsTyped
  <1>5. ASSUME LateRequest PROVE Typed'
    BY <1>5, AcceptTyped
       DEF LateRequest, OriginTyped, QueueTyped, AnswerTyped, MessageTyped, WorkTyped, PostsTyped
  <1>6. ASSUME CrashOrigin PROVE Typed'
    <2>1. late' \in SUBSET Messages BY <1>6, GivesUpTyped, Words DEF CrashOrigin
    <2>2. crashes' \in 0..MaxCrash BY <1>6 DEF CrashOrigin, QueueTyped
    <2> QED BY <1>6, <2>1, <2>2
            DEF CrashOrigin, peerRows, OriginTyped, QueueTyped, AnswerTyped, MessageTyped, WorkTyped, PostsTyped
  <1>7. ASSUME NEW k \in Kinds, LateAnswer(k) PROVE Typed'
    BY <1>7, StoreTyped DEF LateAnswer, peerRows, QueueTyped, AnswerTyped, MessageTyped, WorkTyped, PostsTyped
  <1> QED BY <1>1, <1>2, <1>3, <1>4, <1>5, <1>6, <1>7 DEF OriginStep

LEMMA ResendTyped == ASSUME Typed, ResendStep PROVE Typed'
  <1> USE DEF Typed
  <1>1. ASSUME NEW k \in Kinds, Resend(k) PROVE Typed'
    BY <1>1, Words DEF Resend, peerRows, OriginTyped, QueueTyped, AnswerTyped, MessageTyped, WorkTyped, PostsTyped
  <1>2. ASSUME ResendArrives PROVE Typed'
    BY <1>2, StoreTyped, Words
       DEF ResendArrives, peerRows, QueueTyped, AnswerTyped, MessageTyped, WorkTyped, PostsTyped
  <1>3. resend.kind \in Messages BY Words DEF PostsTyped
  <1>4. ASSUME ResendAcked PROVE Typed'
    <2>1. MessageTyped' BY <1>3, <1>4, MarkedTyped, Words DEF ResendAcked
    <2> QED BY <1>4, <2>1 DEF ResendAcked, peerRows, OriginTyped, QueueTyped, AnswerTyped, WorkTyped, PostsTyped
  <1>5. ASSUME ResendFails PROVE Typed'
    <2>1. MessageTyped' BY <1>3, <1>5, MarkedTyped, Words DEF ResendFails
    <2>2. late' \in SUBSET Messages BY <1>3, <1>5, GivesUpTyped DEF ResendFails
    <2> QED BY <1>5, <2>1, <2>2
            DEF ResendFails, peerRows, OriginTyped, QueueTyped, AnswerTyped, WorkTyped, PostsTyped
  <1> QED BY <1>1, <1>2, <1>4, <1>5 DEF ResendStep

LEMMA ExecuteTyped ==
    ASSUME Typed,
           Claim \/ StartGraph \/ (\E k \in Kinds : GraphEnds(k)) \/ Record \/ Compose
    PROVE  Typed'
  <1> USE DEF Typed
  <1>1. ASSUME Claim PROVE Typed'
    <2>1. WorkTyped' BY <1>1, Words DEF Claim, WorkTyped
    <2> QED BY <1>1, <2>1 DEF Claim, OriginTyped, QueueTyped, AnswerTyped, MessageTyped, PostsTyped
  <1>2. ASSUME StartGraph PROVE Typed'
    <2>1. WorkTyped' BY <1>2, GotoTyped, Words DEF StartGraph
    <2> QED BY <1>2, <2>1 DEF StartGraph, OriginTyped, QueueTyped, AnswerTyped, MessageTyped, PostsTyped
  <1>3. ASSUME NEW k \in Kinds, GraphEnds(k) PROVE Typed'
    <2>1. WorkTyped' BY <1>3, Words DEF GraphEnds, WorkTyped
    <2> QED BY <1>3, <2>1 DEF GraphEnds, OriginTyped, QueueTyped, AnswerTyped, MessageTyped, PostsTyped
  <1>4. ASSUME Record PROVE Typed'
    <2>1. WorkTyped' BY <1>4, GotoTyped, Words DEF Record
    <2>2. work.kind \in Kinds BY DEF WorkTyped
    <2>3. AnswerTyped' BY <1>4, <2>2, Words DEF Record, AnswerTyped
    <2> QED BY <1>4, <2>1, <2>3 DEF Record, OriginTyped, QueueTyped, MessageTyped, PostsTyped
  <1>5. ASSUME Compose PROVE Typed'
    <2>1. WorkTyped' BY <1>5, GotoTyped, Words DEF Compose
    <2>2. work.kind \in Messages BY Words DEF WorkTyped
    <2>3. MessageTyped' BY <1>5, <2>2, Words DEF Compose, MessageTyped
    <2> QED BY <1>5, <2>1, <2>3 DEF Compose, peerRows, OriginTyped, QueueTyped, AnswerTyped, PostsTyped
  <1> QED BY <1>1, <1>2, <1>3, <1>4, <1>5

LEMMA AnswerStepTyped ==
    ASSUME Typed, AnswerArrives \/ AnswerAcked \/ AnswerFails \/ Settle \/ Deadline
    PROVE  Typed'
  <1> USE DEF Typed
  <1>1. work.kind \in Kinds /\ work.kind \in Messages BY Words DEF WorkTyped
  <1>2. ASSUME AnswerArrives PROVE Typed'
    <2>1. WorkTyped' BY <1>2, GotoTyped, Words DEF AnswerArrives
    <2> QED BY <1>1, <1>2, <2>1, StoreTyped
            DEF AnswerArrives, peerRows, QueueTyped, AnswerTyped, MessageTyped, PostsTyped
  <1>3. ASSUME AnswerAcked PROVE Typed'
    <2>1. WorkTyped' BY <1>3, GotoTyped, Words DEF AnswerAcked
    <2>2. MessageTyped' BY <1>1, <1>3, MarkedTyped, Words DEF AnswerAcked
    <2> QED BY <1>3, <2>1, <2>2 DEF AnswerAcked, peerRows, OriginTyped, QueueTyped, AnswerTyped, PostsTyped
  <1>4. ASSUME AnswerFails PROVE Typed'
    <2>1. WorkTyped' BY <1>4, GotoTyped, Words DEF AnswerFails
    <2>2. MessageTyped' BY <1>1, <1>4, MarkedTyped, Words DEF AnswerFails
    <2>3. late' \in SUBSET Messages BY <1>1, <1>4, GivesUpTyped DEF AnswerFails
    <2> QED BY <1>4, <2>1, <2>2, <2>3 DEF AnswerFails, peerRows, OriginTyped, QueueTyped, AnswerTyped, PostsTyped
  <1>5. ASSUME Settle PROVE Typed'
    <2>1. WorkTyped' BY <1>5, IdleTyped DEF Settle, WorkTyped
    <2>2. Settlement \in Kinds BY <1>1, Words DEF Settlement
    <2>3. queue' \in {"none", "queued", "leased", "lapsed", "waiting", "completed", "failed"}
      BY <1>5, <2>2, Words DEF Settle, QueueTyped
    <2> QED BY <1>5, <2>1, <2>3 DEF Settle, OriginTyped, QueueTyped, AnswerTyped, MessageTyped, PostsTyped
  <1>6. ASSUME Deadline PROVE Typed'
    <2>1. WorkTyped' BY <1>6, IdleTyped DEF Deadline, WorkTyped
    <2>2. late' \in SUBSET Messages BY <1>1, <1>6, GivesUpTyped DEF Deadline
    <2> QED BY <1>6, <2>1, <2>2 DEF Deadline, OriginTyped, QueueTyped, AnswerTyped, MessageTyped, PostsTyped
  <1> QED BY <1>2, <1>3, <1>4, <1>5, <1>6

LEMMA RecoveryTyped ==
    ASSUME Typed,
           Expire \/ Recover \/ RestoreWaiting \/ Reconcile \/ Lapse \/ RunGoesOn \/ CrashPeer
    PROVE  Typed'
  <1> USE DEF Typed
  <1>1. ASSUME Expire \/ RestoreWaiting \/ Lapse \/ RunGoesOn PROVE Typed'
    BY <1>1 DEF Expire, RestoreWaiting, Lapse, RunGoesOn, Terminal, Kinds,
                OriginTyped, QueueTyped, AnswerTyped, MessageTyped, WorkTyped, PostsTyped
  <1>2. ASSUME Recover PROVE Typed'
    <2>1. (IF answer.last = "none" THEN "failed" ELSE answer.last) \in Kinds
      BY DEF AnswerTyped, Results, Kinds, Terminal
    <2>2. WorkTyped' BY <1>2, <2>1, TakesTyped, Words DEF Recover
    <2>3. tries' \in 0..MaxTries BY <1>2 DEF Recover, QueueTyped
    <2> QED BY <1>2, <2>2, <2>3 DEF Recover, OriginTyped, QueueTyped, AnswerTyped, MessageTyped, PostsTyped
  <1>3. ASSUME Reconcile PROVE Typed'
    <2>1. Reported \subseteq Kinds BY <1>3 DEF Reconcile, Reported, Kinds, Terminal
    <2>2. WorkTyped' BY <1>3, <2>1, TakesTyped, Words DEF Reconcile
    <2> QED BY <1>3, <2>2 DEF Reconcile, OriginTyped, QueueTyped, AnswerTyped, MessageTyped, PostsTyped
  <1>4. ASSUME CrashPeer PROVE Typed'
    <2>1. WorkTyped' BY <1>4, IdleTyped DEF CrashPeer, WorkTyped
    <2>2. crashes' \in 0..MaxCrash BY <1>4 DEF CrashPeer, QueueTyped
    <2> QED BY <1>4, <2>1, <2>2 DEF CrashPeer, OriginTyped, QueueTyped, AnswerTyped, MessageTyped, PostsTyped
  <1> QED BY <1>1, <1>2, <1>3, <1>4

LEMMA TypedNext == ASSUME Typed, [Next]_vars PROVE Typed'
  <1>1. CASE UNCHANGED vars
    BY <1>1 DEF vars, Typed, OriginTyped, QueueTyped, AnswerTyped, MessageTyped, WorkTyped, PostsTyped
  <1> QED BY <1>1, OriginStepTyped, ResendTyped, ExecuteTyped, AnswerStepTyped, RecoveryTyped
          DEF Next, WorkerStep

(***************************************************************************)
(* The rows, the posts and the worker keep their types.                    *)
(***************************************************************************)
THEOREM TypeCorrect == Spec => []TypeOK
  <1>1. Typed /\ [Next]_vars => Typed' BY TypedNext
  <1> QED BY <1>1, TypedInit, Parts, PTL DEF Spec

-----------------------------------------------------------------------------
(* The inductive invariant.                                                *)

(* What anybody has said of the work, or is about to say, other than "failed". *)
Said(k) ==
    \/ k \in answer.known \/ k = answer.last \/ k = work.kind \/ k = resend.kind
    \/ k \in late \/ k \in stored \/ k = origin.result \/ message[k] # "absent"

Backed ==
    /\ Said("waiting") => run # "none"
    /\ Said("completed") => run = "completed"

Counted == (run = "none" => begun = 0) /\ (run # "none" => begun = 1)

(* A queue row that can be claimed has no run behind it, and none comes back to it. *)
Unstarted ==
    /\ queue \in {"none", "queued"} => run = "none" /\ answer.last = "none" /\ work.step = "idle"
    /\ work.step = "claimed" => run = "none" /\ answer.last = "none" /\ queue = "leased"
    /\ work.step = "graph" => run = "running" /\ answer.last = "none"

(* The origin's status is its result, once there is one. *)
Recorded ==
    /\ origin.result # "none" => origin.status = origin.result
    /\ origin.status = "completed" => origin.result = "completed"

(* What was acknowledged had been stored. *)
Delivered ==
    /\ \A k \in Kinds : message[k] = "sent" => k \in stored
    /\ work.step = "answered" => work.kind \in stored
    /\ resend.step = "answered" => resend.kind \in stored

(* The peer keeps one verdict, if any, and after it nothing else. *)
Kept ==
    /\ answer.last = "none" => answer.known = {}
    /\ answer.last = "waiting" => answer.known = {"waiting"}
    /\ answer.last \in Terminal => answer.last \in answer.known /\ answer.known \subseteq {"waiting", answer.last}

(* The worker carries the latest answer, and only it moves a waiting row on. *)
Carried ==
    /\ queue = "waiting" => answer.last = "waiting" /\ work.step = "idle"
    /\ work.step = "record" /\ answer.last \in Terminal => work.kind = answer.last
    /\ work.step \in {"compose", "post", "answered", "delivered", "undelivered"} => work.kind = answer.last

Inv == Typed /\ Backed /\ Counted /\ Unstarted /\ Recorded /\ Delivered /\ Kept /\ Carried

-----------------------------------------------------------------------------
(* Nobody says a thing that was not said before, but for a run that ended. *)

NothingNew == \A k \in {"waiting", "completed"} : Said(k)' => Said(k)

LEMMA NewsOfStore ==
    ASSUME Typed, NEW k \in Kinds, Store(k)
    PROVE  stored' \subseteq stored \union {k} /\ origin'.result \in {origin.result, k}
  BY DEF Typed, OriginTyped, Store

LEMMA NewsOfOrigin ==
    ASSUME Typed, OriginStep \/ CrashOrigin \/ (\E k \in Kinds : LateAnswer(k))
    PROVE  NothingNew
  <1> USE DEF Typed, NothingNew, Said
  <1>1. ASSUME NEW status PROVE Concluded(status).result = origin.result
    BY DEF Concluded, OriginTyped
  <1>2. "assign" \notin {"waiting", "completed"} OBVIOUS
  <1>3. CASE Dispatch
    <2>1. origin'.result = origin.result BY <1>1, <1>3 DEF Dispatch, OriginTyped
    <2>2. \A k \in {"waiting", "completed"} : message'[k] = message[k]
      BY <1>2, <1>3 DEF Dispatch, MessageTyped, Messages, Kinds, Terminal
    <2> QED BY <1>3, <2>1, <2>2 DEF Dispatch, peerRows
  <1>4. CASE RequestArrives BY <1>4 DEF RequestArrives
  <1>5. CASE RequestAcked
    <2>1. \A k \in {"waiting", "completed"} : message'[k] = message[k]
      BY <1>2, <1>5 DEF RequestAcked, Marked, MessageTyped, Messages, Kinds, Terminal
    <2> QED BY <1>1, <1>5, <2>1 DEF RequestAcked, peerRows
  <1>6. CASE RequestFails
    <2>1. \A k \in {"waiting", "completed"} : message'[k] = message[k]
      BY <1>2, <1>6 DEF RequestFails, Marked, MessageTyped, Messages, Kinds, Terminal
    <2>2. \A k \in {"waiting", "completed"} : k \in late' => k \in late
      BY <1>2, <1>6 DEF RequestFails, GivesUp
    <2> QED BY <1>1, <1>6, <2>1, <2>2 DEF RequestFails, peerRows
  <1>7. CASE LateRequest BY <1>7 DEF LateRequest
  <1>8. CASE CrashOrigin
    <2>1. \A k \in {"waiting", "completed"} : k \in late' => k \in late
      BY <1>2, <1>8 DEF CrashOrigin, GivesUp
    <2> QED BY <1>8, <2>1 DEF CrashOrigin, peerRows
  <1>9. ASSUME NEW j \in Kinds, LateAnswer(j) PROVE NothingNew
    BY <1>9, NewsOfStore DEF LateAnswer, peerRows
  <1> QED BY <1>3, <1>4, <1>5, <1>6, <1>7, <1>8, <1>9 DEF OriginStep

LEMMA NewsOfResend == ASSUME Typed, ResendStep PROVE NothingNew
  <1> USE DEF Typed, NothingNew, Said
  <1>1. ASSUME NEW j \in Kinds, Resend(j) PROVE NothingNew
    BY <1>1 DEF Resend, peerRows
  <1>2. CASE ResendArrives BY <1>2, NewsOfStore DEF ResendArrives, peerRows, PostsTyped
  <1>3. CASE ResendAcked
    <2>1. \A k \in {"waiting", "completed"} : message'[k] # message[k] => k = resend.kind
      BY <1>3 DEF ResendAcked, Marked, MessageTyped, Messages, Kinds, Terminal
    <2> QED BY <1>3, <2>1 DEF ResendAcked, peerRows, PostsTyped
  <1>4. CASE ResendFails
    <2>1. \A k \in {"waiting", "completed"} : message'[k] # message[k] => k = resend.kind
      BY <1>4 DEF ResendFails, Marked, MessageTyped, Messages, Kinds, Terminal
    <2>2. late' \subseteq late \union {resend.kind} BY <1>4 DEF ResendFails, GivesUp
    <2> QED BY <1>4, <2>1, <2>2 DEF ResendFails, peerRows, PostsTyped
  <1> QED BY <1>1, <1>2, <1>3, <1>4 DEF ResendStep

LEMMA NewsOfWorker ==
    ASSUME Typed,
           Claim \/ StartGraph \/ Record \/ Compose \/ AnswerArrives \/ AnswerAcked \/ AnswerFails
             \/ Settle \/ Deadline \/ Expire \/ Recover \/ RestoreWaiting
             \/ Lapse \/ RunGoesOn \/ CrashPeer
    PROVE  NothingNew
  <1> USE DEF Typed, NothingNew, Said
  <1>1. work.kind \in Kinds BY DEF WorkTyped
  <1>2. Idle.kind = "failed" BY DEF Idle
  <1>3. CASE Claim BY <1>3 DEF Claim
  <1>4. CASE StartGraph BY <1>4 DEF StartGraph, Goto, WorkTyped
  <1>5. CASE Record BY <1>5 DEF Record, Goto, WorkTyped
  <1>6. CASE Compose
    <2>1. \A k \in {"waiting", "completed"} : message'[k] # message[k] => k = work.kind
      BY <1>6 DEF Compose, MessageTyped, Messages, Kinds, Terminal
    <2>2. work'.kind = work.kind BY <1>6 DEF Compose, Goto, WorkTyped
    <2> QED BY <1>6, <2>1, <2>2 DEF Compose, peerRows
  <1>7. CASE AnswerArrives
    <2>1. work'.kind = work.kind BY <1>7 DEF AnswerArrives, Goto, WorkTyped
    <2> QED BY <1>1, <1>7, <2>1, NewsOfStore DEF AnswerArrives, peerRows
  <1>8. CASE AnswerAcked
    <2>1. \A k \in {"waiting", "completed"} : message'[k] # message[k] => k = work.kind
      BY <1>8 DEF AnswerAcked, Marked, MessageTyped, Messages, Kinds, Terminal
    <2>2. work'.kind = work.kind BY <1>8 DEF AnswerAcked, Goto, WorkTyped
    <2> QED BY <1>8, <2>1, <2>2 DEF AnswerAcked, peerRows
  <1>9. CASE AnswerFails
    <2>1. \A k \in {"waiting", "completed"} : message'[k] # message[k] => k = work.kind
      BY <1>9 DEF AnswerFails, Marked, MessageTyped, Messages, Kinds, Terminal
    <2>2. work'.kind = work.kind BY <1>9 DEF AnswerFails, Goto, WorkTyped
    <2>3. late' \subseteq late \union {work.kind} BY <1>9 DEF AnswerFails, GivesUp
    <2> QED BY <1>9, <2>1, <2>2, <2>3 DEF AnswerFails, peerRows
  <1>10. CASE Settle BY <1>2, <1>10 DEF Settle
  <1>11. CASE Deadline
    <2>1. late' \subseteq late \union {work.kind} BY <1>11 DEF Deadline, GivesUp
    <2> QED BY <1>2, <1>11, <2>1 DEF Deadline
  <1>12. CASE Expire \/ RestoreWaiting \/ Lapse \/ RunGoesOn
    BY <1>12 DEF Expire, RestoreWaiting, Lapse, RunGoesOn
  <1>13. CASE Recover BY <1>13 DEF Recover, Takes
  <1>14. CASE CrashPeer
    <2>1. late' \subseteq late \union {work.kind, resend.kind} BY <1>14 DEF CrashPeer
    <2>2. resend'.kind = resend.kind BY <1>14 DEF CrashPeer, PostsTyped
    <2> QED BY <1>2, <1>14, <2>1, <2>2 DEF CrashPeer
  <1> QED BY <1>3, <1>4, <1>5, <1>6, <1>7, <1>8, <1>9, <1>10, <1>11, <1>12, <1>13, <1>14

-----------------------------------------------------------------------------
(* The steps that leave the run alone, and what they do to the queue. *)

LEMMA SaidKeeps ==
    ASSUME Backed, NothingNew, run' = run
    PROVE  Backed'
  BY DEF Backed, NothingNew

LEMMA ConcludedStep ==
    ASSUME Typed, Recorded, NEW status \in {"sent", "failed"}, origin' = Concluded(status)
    PROVE  Recorded'
  BY DEF Typed, OriginTyped, Recorded, Concluded

LEMMA StoreStep ==
    ASSUME Typed, Recorded, NEW k \in Kinds, Store(k)
    PROVE  /\ Recorded'
           /\ stored \subseteq stored'
           /\ ~Refuses(k) => k \in stored'
  BY DEF Typed, OriginTyped, Recorded, Store, Refuses

(* An arrived request changes only a queue row that was not there. *)
LEMMA AcceptStep ==
    ASSUME Accept, Unstarted, Carried, UNCHANGED <<run, answer, work>>
    PROVE  Unstarted' /\ Carried'
  BY DEF Accept, Unstarted, Carried

LEMMA OriginInv ==
    ASSUME Inv, OriginStep \/ CrashOrigin \/ (\E k \in Kinds : LateAnswer(k))
    PROVE  Inv'
  <1> USE DEF Inv
  <1>1. Typed' BY OriginStepTyped
  <1>2. run' = run /\ begun' = begun /\ answer' = answer /\ work' = work /\ resend' = resend
    BY DEF OriginStep, Dispatch, RequestArrives, RequestAcked, RequestFails, LateRequest,
           CrashOrigin, LateAnswer, peerRows
  <1>3. Backed' BY <1>2, NewsOfOrigin, SaidKeeps
  <1>4. Counted' /\ Kept' BY <1>2 DEF Counted, Kept
  <1>5. Unstarted' /\ Carried'
    <2>1. Accept \/ queue' = queue
      BY DEF OriginStep, Dispatch, RequestArrives, RequestAcked, RequestFails, LateRequest,
             CrashOrigin, LateAnswer, peerRows
    <2>2. CASE Accept BY <1>2, <2>2, AcceptStep
    <2>3. CASE queue' = queue BY <1>2, <2>3 DEF Unstarted, Carried
    <2> QED BY <2>1, <2>2, <2>3
  <1>6. Recorded'
    <2>1. CASE Dispatch
      <3>1. CASE origin' = Concluded("sent") BY <3>1, ConcludedStep
      <3>2. CASE origin.status = "none" /\ origin' = [origin EXCEPT !.status = "queued"]
        BY <3>2 DEF Typed, OriginTyped, Recorded, Kinds, Terminal, Results
      <3>3. CASE origin' = origin BY <3>3 DEF Recorded
      <3> QED BY <2>1, <3>1, <3>2, <3>3 DEF Dispatch
    <2>2. CASE RequestAcked BY <2>2, ConcludedStep DEF RequestAcked
    <2>3. CASE RequestFails
      <3>1. CASE origin' = Concluded("failed") BY <3>1, ConcludedStep
      <3>2. CASE origin' = origin BY <3>2 DEF Recorded
      <3> QED BY <2>3, <3>1, <3>2 DEF RequestFails
    <2>4. ASSUME NEW k \in Kinds, LateAnswer(k) PROVE Recorded' BY <2>4, StoreStep DEF LateAnswer
    <2>5. CASE RequestArrives \/ LateRequest \/ CrashOrigin
      BY <2>5 DEF RequestArrives, LateRequest, CrashOrigin, Recorded
    <2> QED BY <2>1, <2>2, <2>3, <2>4, <2>5 DEF OriginStep
  <1>7. Delivered'
    <2>1. stored \subseteq stored'
      BY StoreStep DEF OriginStep, Dispatch, RequestArrives, RequestAcked, RequestFails, LateRequest,
                       CrashOrigin, LateAnswer
    <2>2. \A k \in Kinds : message'[k] = message[k]
      <3>1. "assign" \notin Kinds BY DEF Kinds, Terminal
      <3> QED BY <3>1 DEF OriginStep, Dispatch, RequestArrives, RequestAcked, RequestFails, LateRequest,
                          CrashOrigin, LateAnswer, Marked, Typed, MessageTyped, Messages
    <2> QED BY <1>2, <2>1, <2>2 DEF Delivered
  <1> QED BY <1>1, <1>3, <1>4, <1>5, <1>6, <1>7

LEMMA ResendInv == ASSUME Inv, ResendStep PROVE Inv'
  <1> USE DEF Inv
  <1>1. Typed' BY ResendTyped
  <1>2. run' = run /\ begun' = begun /\ answer' = answer /\ work' = work /\ queue' = queue
    BY DEF ResendStep, Resend, ResendArrives, ResendAcked, ResendFails, peerRows
  <1>3. Backed' BY <1>2, NewsOfResend, SaidKeeps
  <1>4. Counted' /\ Kept' /\ Unstarted' /\ Carried' BY <1>2 DEF Counted, Kept, Unstarted, Carried
  <1>5. resend.kind \in Kinds BY DEF Typed, PostsTyped
  <1>6. Recorded'
    <2>1. CASE ResendArrives BY <1>5, <2>1, StoreStep DEF ResendArrives
    <2> QED BY <2>1 DEF ResendStep, Resend, ResendAcked, ResendFails, Recorded
  <1>7. Delivered'
    <2>1. ASSUME NEW k \in Kinds, Resend(k) PROVE Delivered'
      BY <2>1, <1>2 DEF Resend, Delivered
    <2>2. CASE ResendArrives
      <3>1. resend.kind \in stored' /\ stored \subseteq stored' BY <1>5, <2>2, StoreStep DEF ResendArrives
      <3>2. resend'.kind = resend.kind BY <2>2 DEF ResendArrives, Typed, PostsTyped
      <3> QED BY <1>2, <2>2, <3>1, <3>2 DEF ResendArrives, Delivered
    <2>3. CASE ResendAcked
      <3>1. \A k \in Kinds : message'[k] = "sent" => message[k] = "sent" \/ k = resend.kind
        BY <2>3 DEF ResendAcked, Marked, Typed, MessageTyped, Messages
      <3>2. resend'.step = "idle" /\ resend.kind \in stored
        BY <2>3 DEF ResendAcked, Delivered, Typed, PostsTyped
      <3> QED BY <1>2, <2>3, <3>1, <3>2 DEF ResendAcked, Delivered
    <2>4. CASE ResendFails
      <3>1. \A k \in Kinds : message'[k] = "sent" => message[k] = "sent"
        BY <2>4 DEF ResendFails, Marked, Typed, MessageTyped, Messages
      <3>2. resend'.step = "idle" BY <2>4 DEF ResendFails, Typed, PostsTyped
      <3> QED BY <1>2, <2>4, <3>1, <3>2 DEF ResendFails, Delivered
    <2> QED BY <2>1, <2>2, <2>3, <2>4 DEF ResendStep
  <1> QED BY <1>1, <1>3, <1>4, <1>6, <1>7

(* A step that touches neither the origin nor the messages. *)
LEMMA DeliveredRests ==
    ASSUME Inv, UNCHANGED <<origin, stored, message>>,
           resend' = resend \/ resend'.step = "idle",
           work'.step # "answered"
    PROVE  Delivered' /\ Recorded'
  BY DEF Inv, Delivered, Recorded

LEMMA ExecuteInv ==
    ASSUME Inv, Claim \/ StartGraph \/ (\E k \in Kinds : GraphEnds(k)) \/ Record \/ Compose
    PROVE  Inv'
  <1> USE DEF Inv
  <1>1. Typed' BY ExecuteTyped
  <1>2. ASSUME Claim PROVE Inv'
    <2>1. Backed' BY <1>2, NewsOfWorker, SaidKeeps DEF Claim
    <2>2. Delivered' /\ Recorded' BY <1>2, DeliveredRests DEF Claim
    <2> QED BY <1>1, <1>2, <2>1, <2>2 DEF Claim, Counted, Unstarted, Kept, Carried
  <1>3. ASSUME StartGraph PROVE Inv'
    <2>1. run = "none" /\ run' = "running" BY <1>3 DEF StartGraph, Unstarted
    <2>2. Backed' BY <1>3, <2>1, NewsOfWorker DEF Backed, NothingNew
    <2>3. work'.step = "graph" BY <1>3 DEF StartGraph, Goto, Typed, WorkTyped
    <2>4. Delivered' /\ Recorded' BY <1>3, <2>3, DeliveredRests DEF StartGraph
    <2>5. Counted' BY <1>3, <2>1 DEF StartGraph, Counted
    <2>6. Unstarted' BY <1>3, <2>1, <2>3 DEF StartGraph, Unstarted
    <2>7. Kept' /\ Carried' BY <1>3, <2>3 DEF StartGraph, Kept, Carried
    <2> QED BY <1>1, <2>2, <2>4, <2>5, <2>6, <2>7
  <1>4. ASSUME NEW k \in Kinds, GraphEnds(k) PROVE Inv'
    <2>1. run = "running" /\ run' = k /\ answer.last = "none" BY <1>4 DEF GraphEnds, Unstarted
    <2>2. \A j \in {"waiting", "completed"} : Said(j)' => Said(j) \/ j = k
      BY <1>4 DEF GraphEnds, Said
    <2>3. Backed' BY <2>1, <2>2 DEF Backed, Kinds, Terminal
    <2>4. Delivered' /\ Recorded' BY <1>4, DeliveredRests DEF GraphEnds
    <2>5. Counted' BY <1>4, <2>1 DEF GraphEnds, Counted, Kinds, Terminal
    <2>6. Unstarted' /\ Kept' /\ Carried'
      BY <1>4, <2>1 DEF GraphEnds, Unstarted, Kept, Carried, Terminal
    <2> QED BY <1>1, <2>3, <2>4, <2>5, <2>6
  <1>5. ASSUME Record PROVE Inv'
    <2>1. Backed' BY <1>5, NewsOfWorker, SaidKeeps DEF Record
    <2>2. work' = [step |-> "compose", kind |-> work.kind, task |-> work.task]
      BY <1>5 DEF Record, Goto, Typed, WorkTyped
    <2>3. Delivered' /\ Recorded' BY <1>5, <2>2, DeliveredRests DEF Record
    <2>4. work.kind \in Kinds /\ answer.last \in Kinds \union {"none"} /\ answer.known \subseteq Kinds
      BY DEF Typed, WorkTyped, AnswerTyped, Results
    <2>5. Kept' /\ work.kind = answer'.last
      <3>1. CASE work.kind \in answer.known
        BY <1>5, <2>4, <3>1 DEF Record, Kept, Carried, Terminal, Kinds
      <3>2. CASE work.kind \notin answer.known
        BY <1>5, <2>4, <3>2 DEF Record, Kept, Carried, Terminal, Kinds
      <3> QED BY <3>1, <3>2
    <2>6. Counted' BY <1>5 DEF Record, Counted
    <2>7. Unstarted' /\ Carried' BY <1>5, <2>2, <2>5 DEF Record, Unstarted, Carried
    <2> QED BY <1>1, <2>1, <2>3, <2>5, <2>6, <2>7
  <1>6. ASSUME Compose PROVE Inv'
    <2>1. Backed' BY <1>6, NewsOfWorker, SaidKeeps DEF Compose, peerRows
    <2>2. work'.kind = work.kind /\ work'.step \in {"delivered", "post"} /\ work.step = "compose"
      BY <1>6 DEF Compose, Goto, Typed, WorkTyped
    <2>3. \A k \in Kinds : message'[k] = "sent" => message[k] = "sent"
      BY <1>6 DEF Compose, Typed, MessageTyped, Messages
    <2>4. Delivered' /\ Recorded' BY <1>6, <2>2, <2>3 DEF Compose, Delivered, Recorded
    <2>5. Counted' /\ Kept' BY <1>6 DEF Compose, peerRows, Counted, Kept
    <2>6. Unstarted' /\ Carried' BY <1>6, <2>2 DEF Compose, peerRows, Unstarted, Carried
    <2> QED BY <1>1, <2>1, <2>4, <2>5, <2>6
  <1> QED BY <1>2, <1>3, <1>4, <1>5, <1>6

LEMMA AnswerInv ==
    ASSUME Inv, AnswerArrives \/ AnswerAcked \/ AnswerFails \/ Settle \/ Deadline
    PROVE  Inv'
  <1> USE DEF Inv
  <1>1. Typed' BY AnswerStepTyped
  <1>2. work.kind \in Kinds BY DEF Typed, WorkTyped
  <1>3. ASSUME AnswerArrives PROVE Inv'
    <2>1. Backed' BY <1>3, NewsOfWorker, SaidKeeps DEF AnswerArrives, peerRows
    <2>2. work'.kind = work.kind /\ work'.step = "answered"
      BY <1>3 DEF AnswerArrives, Goto, Typed, WorkTyped
    <2>3. Recorded' /\ stored \subseteq stored' /\ work.kind \in stored'
      BY <1>2, <1>3, StoreStep DEF AnswerArrives
    <2>4. Delivered' BY <1>3, <2>2, <2>3 DEF AnswerArrives, Delivered
    <2>5. Counted' /\ Kept' /\ Unstarted' /\ Carried'
      BY <1>3, <2>2 DEF AnswerArrives, peerRows, Counted, Kept, Unstarted, Carried
    <2> QED BY <1>1, <2>1, <2>3, <2>4, <2>5
  <1>4. ASSUME AnswerAcked PROVE Inv'
    <2>1. Backed' BY <1>4, NewsOfWorker, SaidKeeps DEF AnswerAcked, peerRows
    <2>2. work'.kind = work.kind /\ work'.step = "delivered"
      BY <1>4 DEF AnswerAcked, Goto, Typed, WorkTyped
    <2>3. \A k \in Kinds : message'[k] = "sent" => message[k] = "sent" \/ k = work.kind
      BY <1>4 DEF AnswerAcked, Marked, Typed, MessageTyped, Messages
    <2>4. Delivered' /\ Recorded' BY <1>4, <2>2, <2>3 DEF AnswerAcked, Delivered, Recorded
    <2>5. Counted' /\ Kept' /\ Unstarted' /\ Carried'
      BY <1>4, <2>2 DEF AnswerAcked, peerRows, Counted, Kept, Unstarted, Carried
    <2> QED BY <1>1, <2>1, <2>4, <2>5
  <1>5. ASSUME AnswerFails PROVE Inv'
    <2>1. Backed' BY <1>5, NewsOfWorker, SaidKeeps DEF AnswerFails, peerRows
    <2>2. work'.kind = work.kind /\ work'.step = "undelivered" /\ work.step \in {"post", "answered"}
      BY <1>5 DEF AnswerFails, Goto, Typed, WorkTyped, Posting
    <2>3. \A k \in Kinds : message'[k] = "sent" => message[k] = "sent"
      BY <1>5 DEF AnswerFails, Marked, Typed, MessageTyped, Messages
    <2>4. Delivered' /\ Recorded' BY <1>5, <2>2, <2>3 DEF AnswerFails, Delivered, Recorded
    <2>5. Counted' /\ Kept' /\ Unstarted' /\ Carried'
      BY <1>5, <2>2 DEF AnswerFails, peerRows, Counted, Kept, Unstarted, Carried
    <2> QED BY <1>1, <2>1, <2>4, <2>5
  <1>6. work' = Idle => work'.step = "idle" BY DEF Idle
  <1>7. ASSUME Settle PROVE Inv'
    <2>1. Backed' BY <1>7, NewsOfWorker, SaidKeeps DEF Settle
    <2>2. Delivered' /\ Recorded' BY <1>6, <1>7, DeliveredRests DEF Settle
    <2>3. Settlement \in Kinds /\ (Settlement = "waiting" => answer.last = "waiting")
      BY <1>2, <1>7 DEF Settle, Settlement, Settling, Carried, Kinds, Terminal
    <2>4. queue \notin {"none", "queued"} BY <1>7 DEF Settle, Settling, Unstarted
    <2>5. queue' \notin {"none", "queued"} /\ (queue' = "waiting" => answer.last = "waiting")
      BY <1>7, <2>3, <2>4 DEF Settle, Settling, Carried, Kinds, Terminal
    <2>6. Unstarted' /\ Carried' BY <1>6, <1>7, <2>5 DEF Settle, Unstarted, Carried
    <2>7. Counted' /\ Kept' BY <1>7 DEF Settle, Counted, Kept
    <2> QED BY <1>1, <2>1, <2>2, <2>6, <2>7
  <1>8. ASSUME Deadline PROVE Inv'
    <2>1. NothingNew BY <1>8, NewsOfWorker
    <2>2. Backed' BY <1>8, <2>1 DEF Deadline, Backed, NothingNew
    <2>3. Delivered' /\ Recorded' BY <1>6, <1>8, DeliveredRests DEF Deadline
    <2>4. queue \notin {"none", "queued"} BY <1>8 DEF Deadline, Posting, Unstarted
    <2>5. Unstarted' /\ Carried' BY <1>6, <1>8, <2>4 DEF Deadline, Posting, Unstarted, Carried
    <2>6. Counted' /\ Kept' BY <1>8 DEF Deadline, Counted, Kept
    <2> QED BY <1>1, <2>2, <2>3, <2>5, <2>6
  <1> QED BY <1>3, <1>4, <1>5, <1>7, <1>8

LEMMA RecoveryInv ==
    ASSUME Inv, Expire \/ Recover \/ RestoreWaiting \/ Reconcile \/ Lapse \/ RunGoesOn \/ CrashPeer
    PROVE  Inv'
  <1> USE DEF Inv
  <1>1. Typed' BY RecoveryTyped
  <1>2. ASSUME Expire \/ RestoreWaiting \/ Lapse PROVE Inv'
    <2>1. Backed' BY <1>2, NewsOfWorker, SaidKeeps DEF Expire, RestoreWaiting, Lapse
    <2>2. Delivered' /\ Recorded' BY <1>2 DEF Expire, RestoreWaiting, Lapse, Delivered, Recorded
    <2>3. Counted' /\ Kept' /\ Unstarted' /\ Carried'
      BY <1>2 DEF Expire, RestoreWaiting, Lapse, Counted, Kept, Unstarted, Carried
    <2> QED BY <1>1, <2>1, <2>2, <2>3
  <1>3. ASSUME RunGoesOn PROVE Inv'
    <2>1. NothingNew BY <1>3, NewsOfWorker
    <2>2. Backed' BY <1>3, <2>1 DEF RunGoesOn, Backed, NothingNew, Terminal
    <2>3. Delivered' /\ Recorded' BY <1>3 DEF RunGoesOn, Delivered, Recorded
    <2>4. Counted' /\ Kept' BY <1>3 DEF RunGoesOn, Counted, Kept, Terminal
    <2>5. Unstarted' /\ Carried' BY <1>3 DEF RunGoesOn, Unstarted, Carried
    <2> QED BY <1>1, <2>2, <2>3, <2>4, <2>5
  <1>4. ASSUME Recover PROVE Inv'
    <2>1. Backed' BY <1>4, NewsOfWorker, SaidKeeps DEF Recover
    <2>2. work'.step = "record" /\ (answer.last # "none" => work'.kind = answer.last)
      BY <1>4 DEF Recover, Takes
    <2>3. Delivered' /\ Recorded' BY <1>4, <2>2, DeliveredRests DEF Recover
    <2>4. Counted' /\ Kept' BY <1>4 DEF Recover, Counted, Kept
    <2>5. Unstarted' /\ Carried' BY <1>4, <2>2 DEF Recover, Unstarted, Carried, Terminal
    <2> QED BY <1>1, <2>1, <2>3, <2>4, <2>5
  <1>5. ASSUME Reconcile PROVE Inv'
    <2>1. work'.step = "record" /\ work'.kind \in {run, "failed"} /\ run \in Terminal
      BY <1>5 DEF Reconcile, Reported, Takes
    <2>2. \A k \in {"waiting", "completed"} : Said(k)' => Said(k) \/ k = run
      BY <1>5, <2>1 DEF Reconcile, Said
    <2>3. Backed' BY <1>5, <2>1, <2>2 DEF Reconcile, Backed, Terminal
    <2>4. Delivered' /\ Recorded' BY <1>5, <2>1, DeliveredRests DEF Reconcile
    <2>5. Counted' /\ Kept' BY <1>5 DEF Reconcile, Counted, Kept
    <2>6. Unstarted' /\ Carried' BY <1>5, <2>1 DEF Reconcile, Unstarted, Carried, Terminal
    <2> QED BY <1>1, <2>3, <2>4, <2>5, <2>6
  <1>6. ASSUME CrashPeer PROVE Inv'
    <2>1. NothingNew BY <1>6, NewsOfWorker
    <2>2. Backed' BY <1>6, <2>1 DEF CrashPeer, Backed, NothingNew
    <2>3. work'.step = "idle" /\ resend'.step = "idle"
      BY <1>6 DEF CrashPeer, Idle, Typed, PostsTyped
    <2>4. Delivered' /\ Recorded' BY <1>6, <2>3, DeliveredRests DEF CrashPeer
    <2>5. Counted' /\ Kept' BY <1>6 DEF CrashPeer, Counted, Kept
    <2>6. Unstarted' /\ Carried' BY <1>6, <2>3 DEF CrashPeer, Unstarted, Carried
    <2> QED BY <1>1, <2>2, <2>4, <2>5, <2>6
  <1> QED BY <1>2, <1>3, <1>4, <1>5, <1>6

LEMMA InvInit == Init => Inv
  <1> SUFFICES ASSUME Init PROVE Inv OBVIOUS
  <1>1. Typed BY TypedInit
  <1>2. \A k \in Kinds : message[k] = "absent" /\ k # "none" BY DEF Init, Messages, Kinds, Terminal
  <1>3. ~Said("waiting") /\ ~Said("completed")
    BY <1>2 DEF Init, Said, Idle, Kinds, Terminal
  <1>4. Delivered BY <1>2 DEF Init, Delivered, Idle
  <1>5. Unstarted /\ Carried BY DEF Init, Unstarted, Carried, Idle
  <1>6. Kept /\ Counted /\ Recorded BY DEF Init, Kept, Counted, Recorded, Terminal
  <1> QED BY <1>1, <1>3, <1>4, <1>5, <1>6 DEF Inv, Backed

LEMMA InvNext == ASSUME Inv, [Next]_vars PROVE Inv'
  <1>1. CASE UNCHANGED vars
    <2>1. Typed' BY <1>1, TypedNext DEF Inv
    <2> QED BY <1>1, <2>1 DEF vars, Inv, Backed, Said, Counted, Unstarted, Recorded, Delivered, Kept, Carried
  <1> QED BY <1>1, OriginInv, ResendInv, ExecuteInv, AnswerInv, RecoveryInv DEF Next, WorkerStep

(***************************************************************************)
(* What the peer holds to be delivered the origin has stored, and the peer *)
(* never keeps two verdicts.                                               *)
(***************************************************************************)
THEOREM Agreement == Spec => []EnginesAgree
  <1>1. Inv /\ [Next]_vars => Inv' BY InvNext
  <1>2. Inv => EnginesAgree
    BY DEF Inv, EnginesAgree, Delivered, Kept, Typed, AnswerTyped, Results, Kinds, Terminal
  <1> QED BY <1>1, <1>2, InvInit, PTL DEF Spec

(***************************************************************************)
(* The origin says "completed" only of a run that completed.               *)
(***************************************************************************)
THEOREM CompletedTruth == Spec => []CompletedRan
  <1>1. Inv /\ [Next]_vars => Inv' BY InvNext
  <1>2. Inv => CompletedRan BY DEF Inv, CompletedRan, Recorded, Backed, Said
  <1> QED BY <1>1, <1>2, InvInit, PTL DEF Spec

-----------------------------------------------------------------------------
(* The refinement: which steps map to which step of the promise.           *)

LEMMA PromiseInit == Init => Promise!Init
  BY DEF Init, Promise!Init

(* Storing a result reports it, if anything. *)
LEMMA StoreReports ==
    ASSUME Inv, NEW k \in Kinds, Store(k), k # "failed" => run # "none", begun' = begun
    PROVE  Promise!Next \/ UNCHANGED <<begun, origin.result>>
  <1> USE DEF Inv
  <1>1. CASE UNCHANGED <<origin, stored>> BY <1>1
  <1>2. CASE ~Refuses(k) /\ k \notin stored /\ origin' = [status |-> k, result |-> k]
    <2>1. origin.result \notin Terminal
      BY <1>2 DEF Refuses, Recorded, Store, Terminal
    <2>2. k # "failed" => begun = 1 BY DEF Counted
    <2>3. Promise!Report(k)
      BY <1>2, <2>1, <2>2 DEF Promise!Report, Promise!Verdicts, Terminal
    <2> QED BY <2>3 DEF Promise!Next, Promise!Verdicts, Kinds, Terminal
  <1> QED BY <1>1, <1>2 DEF Store

LEMMA OriginReports ==
    ASSUME Inv, OriginStep \/ CrashOrigin \/ (\E k \in Kinds : LateAnswer(k))
    PROVE  Promise!Next \/ UNCHANGED <<begun, origin.result>>
  <1>1. begun' = begun
    BY DEF OriginStep, Dispatch, RequestArrives, RequestAcked, RequestFails, LateRequest,
           CrashOrigin, LateAnswer, peerRows
  <1>2. ASSUME NEW status PROVE Concluded(status).result = origin.result
    BY DEF Inv, Typed, Concluded, OriginTyped
  <1>3. CASE OriginStep \/ CrashOrigin
    <2>1. origin'.result = origin.result
      BY <1>2, <1>3 DEF OriginStep, Dispatch, RequestArrives, RequestAcked, RequestFails, LateRequest,
                       CrashOrigin, Inv, Typed, OriginTyped
    <2> QED BY <1>1, <2>1
  <1>4. ASSUME NEW k \in Kinds, LateAnswer(k) PROVE Promise!Next \/ UNCHANGED <<begun, origin.result>>
    <2>1. k # "failed" => run # "none" BY <1>4 DEF LateAnswer, Inv, Backed, Said, Kinds, Terminal
    <2> QED BY <1>1, <1>4, <2>1, StoreReports DEF LateAnswer
  <1> QED BY <1>3, <1>4

LEMMA PeerReports ==
    ASSUME Inv, WorkerStep \/ ResendStep \/ Lapse \/ RunGoesOn \/ CrashPeer
    PROVE  Promise!Next \/ UNCHANGED <<begun, origin.result>>
  <1>1. CASE StartGraph
    <2>1. begun = 0 /\ begun' = 1 /\ origin' = origin
      BY <1>1 DEF StartGraph, Inv, Unstarted, Counted
    <2> QED BY <2>1 DEF Promise!Next, Promise!Begin
  <1>2. CASE AnswerArrives
    <2>1. work.kind \in Kinds BY DEF Inv, Typed, WorkTyped
    <2>2. work.kind # "failed" => run # "none" BY <2>1 DEF Inv, Backed, Said, Kinds, Terminal
    <2> QED BY <1>2, <2>1, <2>2, StoreReports DEF AnswerArrives, peerRows
  <1>3. CASE ResendArrives
    <2>1. resend.kind \in Kinds BY DEF Inv, Typed, PostsTyped
    <2>2. resend.kind # "failed" => run # "none" BY <2>1 DEF Inv, Backed, Said, Kinds, Terminal
    <2> QED BY <1>3, <2>1, <2>2, StoreReports DEF ResendArrives, peerRows
  <1>4. CASE ~(StartGraph \/ AnswerArrives \/ ResendArrives)
    BY <1>4 DEF WorkerStep, ResendStep, Claim, GraphEnds, Record, Compose, AnswerAcked, AnswerFails,
                Settle, Deadline, Expire, Recover, RestoreWaiting, Reconcile, Resend, ResendAcked,
                ResendFails, Lapse, RunGoesOn, CrashPeer, peerRows
  <1> QED BY <1>1, <1>2, <1>3, <1>4

(***************************************************************************)
(* The protocol implements the promise: every step of it begins the work,  *)
(* reports it, or is invisible to the engine that gave the task.           *)
(***************************************************************************)
THEOREM Implements == Spec => KeepsPromise
  <1>1. Inv /\ [Next]_vars => Inv' BY InvNext
  <1>2. Inv /\ [Next]_vars => [Promise!Next]_<<begun, origin.result>>
    <2> SUFFICES ASSUME Inv, [Next]_vars
                 PROVE  Promise!Next \/ UNCHANGED <<begun, origin.result>>
      OBVIOUS
    <2>1. CASE UNCHANGED vars BY <2>1 DEF vars
    <2> QED BY <2>1, OriginReports, PeerReports DEF Next
  <1> QED BY <1>1, <1>2, InvInit, PromiseInit, PTL DEF Spec, KeepsPromise, Promise!Spec
=============================================================================
