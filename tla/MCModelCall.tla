---------------------------- MODULE MCModelCall ----------------------------
(***************************************************************************)
(* Two worlds, one per behaviour: many calls that meet the circuit alone,  *)
(* as with no budget configured, and a few that pass the budget as well.   *)
(***************************************************************************)
EXTENDS ModelCall

CONSTANT Budgeted    \* the calls that are made where there is a budget

VARIABLE limited

WorldInit ==
    /\ limited \in BOOLEAN
    /\ Init
    /\ BudgetInit(IF limited THEN Budgeted ELSE {})

WorldNext ==
    /\ \/ limited /\ CallNext
       \/ ~limited /\ Next /\ UNCHANGED <<hold, ledger, day, stage, up>>
    /\ UNCHANGED limited

WorldSpec == WorldInit /\ [][WorldNext]_<<allVars, limited>> /\ CallFairness
=============================================================================
