-------------------------- MODULE MCApprovalResume --------------------------
(***************************************************************************)
(* Three worlds, one per behaviour: a chat in which everything happens     *)
(* that the configuration names, a chat that is not paused and whose       *)
(* continuations end in one go, and an RPA execution that may be paused.   *)
(***************************************************************************)
EXTENDS ApprovalResume

VARIABLE world

Quiet == INSTANCE ApprovalResume WITH Yields <- {}

Robot == INSTANCE ApprovalResume WITH Yields <- {"pause"}, Rpa <- TRUE

WorldInit ==
    \/ Init /\ world \in {"open", "quiet"}
    \/ Robot!Init /\ world = "robot"

WorldNext ==
    /\ \/ world = "open" /\ Next
       \/ world = "quiet" /\ Quiet!Next
       \/ world = "robot" /\ Robot!Next
    /\ UNCHANGED world

(* Where a continuation may stop half way its delivery is never finished. *)
WorldFairness ==
    /\ WF_vars(world = "quiet" /\ \E a \in Approval : Quiet!Sweep(a))
    /\ WF_vars(world = "quiet" /\ Quiet!Routing)
    /\ WF_vars(world = "quiet" /\ (Quiet!Working \/ Quiet!Leaving))

WorldSpec == WorldInit /\ [][WorldNext]_<<vars, world>> /\ WorldFairness

(***************************************************************************)
(* A decision that sends a quiet chat on is taken up.                      *)
(***************************************************************************)
QuietTakenUp ==
    \A a \in Approval :
        world = "quiet" /\ delivery[a].state = "pending" ~> delivery[a].state # "pending" \/ Excused(a)
=============================================================================
