----------------------------- MODULE TaskPromise -----------------------------
(***************************************************************************)
(* What a task given to a neighbour promises the engine that gave it: the  *)
(* work begins at most once, it may be reported as waiting for a person,   *)
(* it ends in one verdict, and a completed verdict has work behind it.     *)
(***************************************************************************)
EXTENDS Naturals

VARIABLES
    begun,     \* how many times the neighbour began the work
    verdict    \* what the giver has been told

Verdicts == {"completed", "failed"}

Init == begun = 0 /\ verdict = "none"

Begin ==
    /\ begun = 0 /\ begun' = 1
    /\ UNCHANGED verdict

Report(v) ==
    /\ verdict \notin Verdicts
    /\ v # "failed" => begun = 1
    /\ verdict' = v
    /\ UNCHANGED begun

Next == Begin \/ \E v \in Verdicts \union {"waiting"} : Report(v)

Spec == Init /\ [][Next]_<<begun, verdict>>
=============================================================================
