----------------------------- MODULE ModelCall -----------------------------
(***************************************************************************)
(* A model invocation from its admission to its settlement: the telemetry  *)
(* callback reserves budget, acquires a permit of the provider's circuit   *)
(* and marks the reservation dispatched before the provider is called; the *)
(* terminal callback charges the ledger and settles the permit.  The       *)
(* engine may die between any two of these transactions; its successor     *)
(* recovers what it left before any call is admitted.                      *)
(*                                                                         *)
(* One provider, one run and one unit (tokens); all calls are estimated    *)
(* alike.  The circuit is ProviderCircuit's, action by action.             *)
(***************************************************************************)
EXTENDS ProviderCircuit

CONSTANTS
    Estimate,      \* estimated_tokens of a call
    Usage,         \* what a provider may report
    DailyLimit,    \* globalDailyTokenLimit
    RunLimit,      \* runMaxTokens
    LastDay        \* bound on midnights

ASSUME BudgetAssumption ==
    /\ Estimate \in Nat \ {0} /\ Usage \subseteq Nat
    /\ DailyLimit \in Nat \ {0} /\ RunLimit \in Nat \ {0} /\ LastDay \in Nat

VARIABLES
    hold,     \* the model_budget_reservations rows
    ledger,   \* usage_ledger: the tokens of each day, all scopes together
    day,      \* today's bucket
    stage,    \* where the callback of each invocation stands
    up        \* an engine runs; what is left of a dead one ends without a word

circuits == <<circuit, permit, call, aged>>
budget == <<hold, ledger>>
allVars == <<circuit, permit, call, aged, hold, ledger, day, stage, up>>

Day == 0..LastDay

Hold == [state : {"absent", "reserved", "in_flight", "settled", "unknown", "released"},
         day : Day, used : Usage \union {0}]

Idle == {"new", "stuck", "done"}

Stages == {"new", "reserved", "permitted", "refused", "dispatched", "recorded", "stuck", "done"}

CallTypeOK ==
    /\ TypeOK
    /\ hold \in [Attempt -> Hold]
    /\ ledger \in [Day -> Nat]
    /\ day \in Day
    /\ stage \in [Attempt -> Stages]
    /\ up \in BOOLEAN

(* The budget, and the calls that will be made under it. *)
BudgetInit(calls) ==
    /\ hold = [a \in Attempt |-> [state |-> "absent", day |-> 0, used |-> 0]]
    /\ ledger = [d \in Day |-> 0]
    /\ day = 0
    /\ stage = [a \in Attempt |-> IF a \in calls THEN "new" ELSE "done"]
    /\ up = TRUE

CallInit == Init /\ BudgetInit(Attempt)

Goto(a, step) == stage' = [stage EXCEPT ![a] = step]

-----------------------------------------------------------------------------
(* reserve(): usage and holds are read in the transaction that inserts.    *)

In(states) == {a \in Attempt : hold[a].state \in states}

(***************************************************************************)
(* SUM(f) over S, counted out: one pair for each unit.  A cardinality and  *)
(* not a fold, so that the theorems on finite sets tell how it changes.    *)
(***************************************************************************)
Total(f, S) == Cardinality(UNION {{x} \X (1..f[x]) : x \in S})

Spent(calls) == Total([a \in Attempt |-> hold[a].used], calls)

(* Calls that are out count on any day, calls of unknown usage on the day of their reservation. *)
HeldToday ==
    Estimate * Cardinality(In({"reserved", "in_flight"})
                           \union {a \in In({"unknown"}) : hold[a].day = day})

HeldByRun ==
    Estimate * Cardinality(In({"reserved", "in_flight", "unknown"})) + Spent(In({"settled"}))

AffordableOnLedger ==  \* slip: the calls of others that are out are not seen
    /\ ledger[day] + Estimate <= DailyLimit
    /\ Spent(In({"settled"})) + Estimate <= RunLimit

Affordable ==
    /\ ledger[day] + HeldToday + Estimate <= DailyLimit
    /\ HeldByRun + Estimate <= RunLimit

Reserve(a) ==
    /\ up /\ stage[a] = "new" /\ Affordable
    /\ hold' = [hold EXCEPT ![a] = [state |-> "reserved", day |-> day, used |-> 0]]
    /\ Goto(a, "reserved")
    /\ UNCHANGED <<circuits, ledger, day, up>>

(* ModelGovernanceInterventionRequired: a person is asked about the budget. *)
Overdrawn(a) ==
    /\ up /\ stage[a] = "new" /\ ~Affordable
    /\ Goto(a, "done")
    /\ UNCHANGED <<circuits, budget, day, up>>

-----------------------------------------------------------------------------
(* _admit() after the reservation, and release().                          *)

ReleasedForFree(h) ==  \* slip: a call that was dispatched is taken for unused
    IF h.state \in {"reserved", "in_flight"} THEN [h EXCEPT !.state = "released"] ELSE h

ReleasedByReason(h) ==  \* slip: the statement's state and reason are swapped
    IF h.state \in {"reserved", "in_flight"} THEN [h EXCEPT !.state = "not_dispatched"] ELSE h

ReleasedIfSent(h) ==  \* slip: what was never dispatched is left as it is
    IF h.state = "in_flight" THEN [h EXCEPT !.state = "unknown"] ELSE h

Released(h) ==
    CASE h.state = "reserved"  -> [h EXCEPT !.state = "released"]
      [] h.state = "in_flight" -> [h EXCEPT !.state = "unknown"]
      [] OTHER -> h

Release(a) == hold' = [hold EXCEPT ![a] = Released(hold[a])]

Acquire(a) ==
    /\ up /\ stage[a] = "reserved"
    /\ AdmitWhileClosed(a) \/ AdmitProbe(a)
    /\ Goto(a, "permitted")
    /\ UNCHANGED <<budget, day, up>>

(* ProviderCircuitOpen. *)
CircuitRefuses(a) ==
    /\ up /\ stage[a] = "reserved"
    /\ Refuse(a)
    /\ Goto(a, "refused")
    /\ UNCHANGED <<budget, day, up>>

Dispatch(a) ==
    /\ up /\ stage[a] = "permitted"
    /\ hold' = [hold EXCEPT ![a].state = "in_flight"]
    /\ Goto(a, "dispatched")
    /\ UNCHANGED <<circuits, ledger, day, up>>

(* acquire() cannot reach the database. *)
AcquireFails(a) ==
    /\ up /\ stage[a] = "reserved"
    /\ Goto(a, "refused")
    /\ UNCHANGED <<circuits, budget, day, up>>

(* mark_dispatched() fails: the permit is given back, then the reservation. *)
DispatchFails(a) ==
    /\ up /\ stage[a] = "permitted"
    /\ Settle(a, "released")
    /\ Goto(a, "refused")
    /\ UNCHANGED <<budget, day, up>>

Withdraw(a) ==
    /\ up /\ stage[a] = "refused"
    /\ Release(a)
    /\ Goto(a, "done")
    /\ UNCHANGED <<circuits, ledger, day, up>>

(* The permit or the reservation cannot be given back either: the row waits for a restart. *)
WithdrawFails(a) ==
    /\ up /\ stage[a] \in {"permitted", "refused"}
    /\ IF stage[a] = "permitted" THEN Lose(a) ELSE UNCHANGED circuits
    /\ Goto(a, "stuck")
    /\ UNCHANGED <<budget, day, up>>

-----------------------------------------------------------------------------
(* _record_invocation(): the terminal callback, once for each start.       *)

ChargeLedger(a, used) == ledger' = [ledger EXCEPT ![day] = @ + used]

(* settlement(): the row and the ledger move in one transaction. *)
Charge(a, used) ==
    /\ up /\ stage[a] = "dispatched"
    /\ hold' = [hold EXCEPT ![a].state = "settled", ![a].used = used]
    /\ ChargeLedger(a, used)
    /\ Goto(a, "recorded")
    /\ UNCHANGED <<circuits, day, up>>

(* The provider reported no usage: the estimate stays held. *)
ChargeUnknown(a) ==
    /\ up /\ stage[a] = "dispatched"
    /\ hold' = [hold EXCEPT ![a].state = "unknown"]
    /\ Goto(a, "recorded")
    /\ UNCHANGED <<circuits, ledger, day, up>>

(* The transaction is rolled back; the release that follows may fail too. *)
AccountingFails(a) ==
    /\ up /\ stage[a] = "dispatched"
    /\ Release(a) \/ UNCHANGED hold
    /\ Goto(a, "recorded")
    /\ UNCHANGED <<circuits, ledger, day, up>>

(* finish() or release() of the permit. *)
Report(a, outcome) ==
    /\ up /\ stage[a] = "recorded"
    /\ Settle(a, outcome)
    /\ Goto(a, "done")
    /\ UNCHANGED <<budget, day, up>>

ReportFails(a) ==
    /\ up /\ stage[a] = "recorded"
    /\ Lose(a)
    /\ Goto(a, "done")
    /\ UNCHANGED <<budget, day, up>>

-----------------------------------------------------------------------------
(* A crash, its calls one by one, and the start of the next engine.        *)

Crash ==
    /\ up /\ up' = FALSE
    /\ \E a \in Attempt : stage[a] \notin {"new", "done"}
    /\ UNCHANGED <<circuits, budget, day, stage>>

Die(a) ==
    /\ ~up /\ stage[a] \notin Idle
    /\ IF call[a] = "calling" THEN Lose(a) ELSE UNCHANGED circuits
    /\ Goto(a, "done")
    /\ UNCHANGED <<budget, day, up>>

RecoverFrees ==  \* slip: whatever the dead engine left open is given back
    /\ ~up /\ \A a \in Attempt : stage[a] \in Idle
    /\ hold' = [a \in Attempt |-> IF hold[a].state \in {"reserved", "in_flight"}
                                  THEN [hold[a] EXCEPT !.state = "released"] ELSE hold[a]]
    /\ up' = TRUE
    /\ UNCHANGED <<circuits, ledger, day, stage>>

(* recover_orphans(), before any model worker runs. *)
Recover ==
    /\ ~up /\ \A a \in Attempt : stage[a] \in Idle
    /\ hold' = [a \in Attempt |-> Released(hold[a])]
    /\ up' = TRUE
    /\ UNCHANGED <<circuits, ledger, day, stage>>

Midnight ==
    /\ day < LastDay /\ day' = day + 1
    /\ UNCHANGED <<circuits, budget, stage, up>>

ClockStep ==
    /\ CooldownPasses \/ LeaseLapses \/ \E a \in Attempt : LeavesWindow(a)
    /\ UNCHANGED <<budget, day, stage, up>>

InvocationStep(a) ==
    \/ Reserve(a) \/ Overdrawn(a) \/ Acquire(a) \/ CircuitRefuses(a) \/ AcquireFails(a)
    \/ Dispatch(a) \/ DispatchFails(a) \/ Withdraw(a) \/ WithdrawFails(a)
    \/ \E used \in Usage : Charge(a, used)
    \/ ChargeUnknown(a) \/ AccountingFails(a)
    \/ \E outcome \in Outcomes : Report(a, outcome)
    \/ ReportFails(a) \/ Die(a)

CallNext ==
    \/ \E a \in Attempt : InvocationStep(a)
    \/ Crash \/ Recover \/ Midnight \/ ClockStep

(* A call under way goes on and ends, as its timeouts see to; a crashed engine is started again. *)
CallFairness ==
    /\ Fairness
    /\ \A a \in Attempt : WF_allVars(stage[a] \notin Idle /\ InvocationStep(a))
    /\ WF_allVars(Recover)

CallSafe == CallInit /\ [][CallNext]_allVars
CallSpec == CallInit /\ [][CallNext]_allVars /\ CallFairness

-----------------------------------------------------------------------------
(***************************************************************************)
(* Each call is accounted for once.  One that may have reached the         *)
(* provider is paid for or held: while its callback lives, and afterwards  *)
(* wherever its permit was settled with an outcome, no failing transaction *)
(* or recovery turns it into free budget (DispatchedStaysHeld speaks of    *)
(* the calls that a crash kills before that).  And the ledger shows what   *)
(* the settled calls used, each once and none that is still held as well.  *)
(***************************************************************************)
AccountedOnce ==
    /\ \A a \in Attempt :
          /\ stage[a] \in {"dispatched", "recorded"} => hold[a].state \in {"in_flight", "settled", "unknown"}
          /\ permit[a].state \in Outcomes \ {"released"} => hold[a].state \notin {"reserved", "released"}
    /\ Total(ledger, Day) = Spent(In({"settled"}))

(***************************************************************************)
(* What a dispatched call may have cost is given up by nobody, neither by  *)
(* a late or failing callback nor by the engine that starts after a crash: *)
(* its reservation is held until it is paid for, and paid for once.        *)
(***************************************************************************)
DispatchedStaysHeld ==
    [][\A a \in Attempt :
          /\ hold[a].state \in {"in_flight", "unknown"} => hold'[a].state \in {"in_flight", "unknown", "settled"}
          /\ hold[a].state = "settled" => hold'[a] = hold[a]]_allVars

(***************************************************************************)
(* Two callers that check the limit at the same time cannot both pass it:  *)
(* the day and the run exceed their limits only by what providers report   *)
(* beyond the estimate.                                                    *)
(***************************************************************************)
Overrun == Total([a \in Attempt |-> IF hold[a].used > Estimate THEN hold[a].used - Estimate ELSE 0],
                 In({"settled"}))

WithinLimits ==
    /\ ledger[day] + HeldToday <= DailyLimit + Overrun
    /\ HeldByRun <= RunLimit + Overrun

(***************************************************************************)
(* A reservation whose call was never dispatched goes back to the budget   *)
(* in the end, whatever refused or killed its admission, or is left for    *)
(* the next start of the engine, and for nothing else, when the database   *)
(* fails under its release.  (A call reserves once, so that in the end no  *)
(* row is reserved.)                                                       *)
(***************************************************************************)
ReservationReturns == <>[](\A a \in In({"reserved"}) : up /\ stage[a] = "stuck")
=============================================================================
