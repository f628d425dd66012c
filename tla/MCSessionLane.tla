--------------------------- MODULE MCSessionLane ---------------------------
(* Values for SessionLane: every invocation a run of its own, or resumed runs. *)
EXTENDS SessionLane

OwnRun == [i \in Invocation |-> i]

(* r2 is a second invocation, a resume, of the run of r1. *)
ResumedRun == [i \in Invocation |-> IF i = "r2" THEN "r1" ELSE i]
=============================================================================
