---------------------------- MODULE MCLaneCrews ----------------------------
(***************************************************************************)
(* Two crews on the session lane, one per behaviour: the mixed one of the   *)
(* configuration, and three blocking executors.  Crewed bounds the second. *)
(***************************************************************************)
EXTENDS MCSessionLane

VARIABLE crew

Executors == INSTANCE SessionLane
    WITH Executor <- Invocation, Maintenance <- {}, Chat <- {}, SetupRaises <- FALSE

Crewed == {"r1", "r2", "r3"}

CrewInit == Init /\ crew \in {"mixed", "executors"}

CrewNext ==
    /\ \/ crew = "mixed" /\ Next
       \/ /\ crew = "executors"
          /\ \/ \E i \in Crewed : Executors!Step(i)
             \/ Executors!BeginEdit \/ Executors!EndEdit \/ Executors!Restart
    /\ UNCHANGED crew

(* Only where no chat takes part: a chat's failed setup keeps the lane for good. *)
CrewFairness ==
    /\ WF_vars(crew = "executors" /\ Executors!EndEdit)
    /\ \A i \in Crewed : WF_vars(crew = "executors" /\ Executors!Step(i))

CrewSpec == CrewInit /\ [][CrewNext]_<<vars, crew>> /\ CrewFairness

(***************************************************************************)
(* Among executors no wakeup is lost.                                      *)
(***************************************************************************)
ExecutorsProceed ==
    \A i \in Crewed : crew = "executors" /\ pc[i] = "parked" ~> pc[i] = "gone"
=============================================================================
