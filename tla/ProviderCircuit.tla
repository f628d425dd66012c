--------------------------- MODULE ProviderCircuit ---------------------------
(***************************************************************************)
(* The durable circuit breaker of one model provider.  A call acquires a   *)
(* permit of the circuit's current generation before it is dispatched and  *)
(* settles it afterwards; every change of the circuit starts a generation, *)
(* so that what stragglers of an earlier one report counts for nothing.    *)
(*                                                                         *)
(* Time is three facts: whether open_until lies ahead, whether the lease   *)
(* of the probe lies ahead, and which settled calls the health window has  *)
(* left behind.  Each action is one BEGIN IMMEDIATE transaction.           *)
(***************************************************************************)
EXTENDS Naturals, FiniteSets

CONSTANTS
    Attempt,              \* the permit ids, one for each model invocation
    NoAttempt,
    MinimumSamples,       \* providerFailureThreshold
    RateNum, RateDen      \* providerErrorRateThreshold, as a fraction

ASSUME CircuitAssumption ==
    /\ NoAttempt \notin Attempt
    /\ MinimumSamples \in Nat \ {0} /\ RateNum \in Nat /\ RateDen \in Nat \ {0}

VARIABLES
    circuit,   \* the provider_circuit_state row
    permit,    \* the provider_circuit_attempts rows
    call,      \* where the invocation behind each permit is
    aged       \* permits that finished before the health window

vars == <<circuit, permit, call, aged>>

Outcomes == {"success", "failure", "neutral", "released"}

Circuit == [state : {"closed", "open", "half_open"}, generation : Nat,
            cooling : BOOLEAN,                             \* now < open_until
            probe : Attempt \union {NoAttempt}, leased : BOOLEAN]

Permit == [state : Outcomes \union {"absent", "pending", "expired", "stale"},
           generation : Nat, probe : BOOLEAN]

TypeOK ==
    /\ circuit \in Circuit
    /\ permit \in [Attempt -> Permit]
    /\ call \in [Attempt -> {"new", "calling", "gone"}]
    /\ aged \in SUBSET Attempt

Init ==
    /\ circuit = [state |-> "closed", generation |-> 0, cooling |-> FALSE,
                  probe |-> NoAttempt, leased |-> FALSE]
    /\ permit = [a \in Attempt |-> [state |-> "absent", generation |-> 0, probe |-> FALSE]]
    /\ call = [a \in Attempt |-> "new"]
    /\ aged = {}

-----------------------------------------------------------------------------
(* _view: who may try.                                                     *)

ProbeOutstanding == circuit.state = "half_open"  \* slip: the lease is not looked at

ProbeInFlight == circuit.state = "half_open" /\ circuit.leased

AllowsAttempt == circuit.state = "closed" \/ (~ProbeInFlight /\ ~circuit.cooling)

(* The circuit after its change to a state, in a generation of its own. *)
Turned(state, cooling) ==
    [state |-> state, generation |-> circuit.generation + 1, cooling |-> cooling,
     probe |-> NoAttempt, leased |-> FALSE]

(* The circuit with its new probe; the cooldown of an earlier opening stays. *)
Probing(a) ==
    [state |-> "half_open", generation |-> circuit.generation + 1, cooling |-> circuit.cooling,
     probe |-> a, leased |-> TRUE]

-----------------------------------------------------------------------------
(* acquire(): a first attempt with this id.                                *)

Leave(a) == call' = [call EXCEPT ![a] = "gone"]

AdmitWhileClosed(a) ==
    /\ call[a] = "new" /\ circuit.state = "closed"
    /\ permit' = [permit EXCEPT ![a] = [state |-> "pending", generation |-> circuit.generation,
                                        probe |-> FALSE]]
    /\ call' = [call EXCEPT ![a] = "calling"]
    /\ UNCHANGED <<circuit, aged>>

LeavePending(b) == permit[b].state  \* slip: the probe that is replaced stays pending

(* The state of a permit once a new probe has taken over from a lapsed one. *)
Replaced(b) ==
    IF b = circuit.probe /\ permit[b].state = "pending" THEN "expired" ELSE permit[b].state

(* Past the cooldown, or ahead of it for a connection test that a person starts. *)
AdmitProbe(a) ==
    /\ call[a] = "new" /\ circuit.state # "closed"
    /\ \E explicit \in BOOLEAN : AllowsAttempt \/ (explicit /\ ~ProbeInFlight)
    /\ circuit' = Probing(a)
    /\ permit' = [b \in Attempt |->
                    IF b = a THEN [state |-> "pending", generation |-> circuit.generation + 1, probe |-> TRUE]
                    ELSE [permit[b] EXCEPT !.state = Replaced(b)]]
    /\ call' = [call EXCEPT ![a] = "calling"]
    /\ UNCHANGED aged

(* ProviderCircuitOpen: the invocation goes on to another model. *)
Refuse(a) ==
    /\ call[a] = "new" /\ ~AllowsAttempt
    /\ Leave(a)
    /\ UNCHANGED <<circuit, permit, aged>>

(***************************************************************************)
(* _settle(): finish() or release() of a permit.  What counts is current.  *)
(***************************************************************************)
CurrentInAnyGeneration(a) ==  \* slip: the generation of a permit is not compared
    \/ ~permit[a].probe
    \/ circuit.probe = a /\ circuit.leased

Current(a) ==
    /\ permit[a].generation = circuit.generation
    /\ \/ ~permit[a].probe /\ circuit.state = "closed"
       \/ permit[a].probe /\ circuit.probe = a /\ circuit.leased

(* acquire() with an id that already has a permit: the same answer, or none any more. *)
AcquireAgain(a) ==
    /\ call[a] = "calling"
    /\ permit[a].state # "pending" \/ permit[a].generation # circuit.generation
       \/ (permit[a].probe /\ ~(circuit.probe = a /\ circuit.leased))
    /\ Leave(a)
    /\ UNCHANGED <<circuit, permit, aged>>

Counted(a, state) ==
    {b \in Attempt : permit[b].generation = circuit.generation /\ b # a /\ b \notin aged
                     /\ permit[b].state = state}

(* The failures of this generation in the window, a's own included, are too many. *)
TooManyFailures(a) ==
    LET errors == Cardinality(Counted(a, "failure")) + 1
        events == errors + Cardinality(Counted(a, "success"))
    IN  events >= MinimumSamples /\ errors * RateDen >= RateNum * events

AfterProbeUnlessFailed(outcome) ==  \* slip: a refusal by policy counts as recovery
    IF outcome # "failure" THEN Turned("closed", FALSE) ELSE Turned("open", TRUE)

AfterProbe(outcome) ==
    IF outcome = "success" THEN Turned("closed", FALSE)
    ELSE Turned("open", outcome = "failure" \/ circuit.cooling)

AfterCall(a, outcome) ==
    IF outcome = "failure" /\ TooManyFailures(a) THEN Turned("open", TRUE) ELSE circuit

(* Late reports of an expired probe find their permit settled and change nothing. *)
Settle(a, outcome) ==
    /\ call[a] = "calling"
    /\ Leave(a)
    /\ IF permit[a].state # "pending"
       THEN UNCHANGED <<circuit, permit>>
       ELSE IF ~Current(a)
       THEN /\ permit' = [permit EXCEPT ![a].state = "stale"]
            /\ UNCHANGED circuit
       ELSE /\ permit' = [permit EXCEPT ![a].state = outcome]
            /\ circuit' = IF permit[a].probe THEN AfterProbe(outcome) ELSE AfterCall(a, outcome)
    /\ UNCHANGED aged

(* The engine dies under the call, or its settlement fails: nothing is reported. *)
Lose(a) ==
    /\ call[a] = "calling"
    /\ Leave(a)
    /\ UNCHANGED <<circuit, permit, aged>>

-----------------------------------------------------------------------------
(* The wall clock.                                                         *)

CooldownPasses ==
    /\ circuit.cooling
    /\ circuit' = [circuit EXCEPT !.cooling = FALSE]
    /\ UNCHANGED <<permit, call, aged>>

LeaseLapses ==
    /\ circuit.leased
    /\ circuit' = [circuit EXCEPT !.leased = FALSE]
    /\ UNCHANGED <<permit, call, aged>>

LeavesWindow(a) ==
    /\ permit[a].state \in {"success", "failure"} /\ a \notin aged
    /\ aged' = aged \union {a}
    /\ UNCHANGED <<circuit, permit, call>>

CallStep(a) ==
    \/ AdmitWhileClosed(a) \/ AdmitProbe(a) \/ Refuse(a) \/ AcquireAgain(a) \/ Lose(a)
    \/ \E outcome \in Outcomes : Settle(a, outcome)

Next ==
    \/ \E a \in Attempt : CallStep(a) \/ LeavesWindow(a)
    \/ CooldownPasses \/ LeaseLapses

Spec == Init /\ [][Next]_vars

(* Nobody needs to call: only time has to pass. *)
Fairness == WF_vars(CooldownPasses) /\ WF_vars(LeaseLapses)

FairSpec == Spec /\ Fairness

-----------------------------------------------------------------------------
(***************************************************************************)
(* At most one probe is out at a time: a probe whose lease has lapsed is   *)
(* written off before another one is admitted.                             *)
(***************************************************************************)
OneProbe ==
    \A a, b \in Attempt :
        /\ permit[a].probe /\ permit[a].state = "pending"
        /\ permit[b].probe /\ permit[b].state = "pending"
        => a = b

(***************************************************************************)
(* A circuit that has been open is closed only on the success of a probe,  *)
(* that of the generation before: neither a late answer of a call that was *)
(* dispatched before the circuit opened nor the answer of a probe that was *)
(* replaced or released lets the traffic back.                             *)
(***************************************************************************)
ClosedIsProven ==
    circuit.state = "closed" /\ circuit.generation > 0 =>
        \E a \in Attempt : /\ permit[a].probe /\ permit[a].state = "success"
                           /\ permit[a].generation + 1 = circuit.generation

(***************************************************************************)
(* A circuit is open on account of the generation before alone: its probe  *)
(* did not succeed, or it had as many settled calls as the threshold asks. *)
(* Stragglers of older generations shut nobody out.                        *)
(***************************************************************************)
OpenIsEarned ==
    circuit.state = "open" =>
        LET before == {a \in Attempt : permit[a].generation + 1 = circuit.generation}
        IN  \/ \E a \in before : permit[a].probe /\ permit[a].state \in Outcomes \ {"success"}
            \/ Cardinality({a \in before : permit[a].state \in {"success", "failure"}}) >= MinimumSamples

(***************************************************************************)
(* A provider is not shut out for good: when its probe is lost with the    *)
(* engine, a further call is allowed once the lease has lapsed.            *)
(***************************************************************************)
CircuitReopens == circuit.state # "closed" ~> AllowsAttempt
=============================================================================
