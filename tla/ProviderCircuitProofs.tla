------------------------ MODULE ProviderCircuitProofs ------------------------
(***************************************************************************)
(* What holds of the circuit for every set of invocations and every        *)
(* threshold: its types, one probe at a time, and that nothing but the     *)
(* success of a current probe closes it and nothing but the generation     *)
(* before opens it.                                                        *)
(***************************************************************************)
EXTENDS ProviderCircuit, FiniteSetTheorems, TLAPS

(***************************************************************************)
(* A circuit that admits a probe is again a circuit row.                   *)
(***************************************************************************)
LEMMA ProbeAdmittedTyped ==
    ASSUME NEW a \in Attempt, circuit \in Circuit
    PROVE  Probing(a) \in Circuit
<1>1. circuit.generation + 1 \in Nat /\ circuit.cooling \in BOOLEAN
  BY DEF Circuit
<1>2. "half_open" \in {"closed", "open", "half_open"} /\ TRUE \in BOOLEAN
  OBVIOUS
<1> QED BY <1>1, <1>2 DEF Circuit, Probing

(***************************************************************************)
(* Every step keeps the types of the rows and of the invocations.          *)
(***************************************************************************)
LEMMA TypeStep == TypeOK /\ [Next]_vars => TypeOK'
<1> SUFFICES ASSUME TypeOK, [Next]_vars PROVE TypeOK'
  OBVIOUS
<1> USE CircuitAssumption DEF TypeOK, Circuit, Permit, Outcomes
<1>1. ASSUME NEW a \in Attempt, AdmitWhileClosed(a) PROVE TypeOK'
  BY <1>1 DEF AdmitWhileClosed
<1>2. ASSUME NEW a \in Attempt, AdmitProbe(a) PROVE TypeOK'
  <2>1. circuit' \in Circuit
    BY <1>2, ProbeAdmittedTyped DEF AdmitProbe
  <2>5. aged' = aged /\ call' = [call EXCEPT ![a] = "calling"]
    BY <1>2 DEF AdmitProbe
  <2>6. call' \in [Attempt -> {"new", "calling", "gone"}]
    BY <2>5
  <2>2. \A b \in Attempt : [permit[b] EXCEPT !.state = Replaced(b)] \in Permit
    BY DEF Replaced
  <2>3. [state |-> "pending", generation |-> circuit.generation + 1, probe |-> TRUE] \in Permit
    OBVIOUS
  <2>4. permit' \in [Attempt -> Permit]
    BY <1>2, <2>2, <2>3 DEF AdmitProbe
  <2> QED BY <2>1, <2>4, <2>5, <2>6
<1>3. ASSUME NEW a \in Attempt, Refuse(a) PROVE TypeOK'
  BY <1>3 DEF Refuse, Leave
<1>4. ASSUME NEW a \in Attempt, AcquireAgain(a) PROVE TypeOK'
  BY <1>4 DEF AcquireAgain, Leave
<1>5. ASSUME NEW a \in Attempt, Lose(a) PROVE TypeOK'
  BY <1>5 DEF Lose, Leave
<1>6. ASSUME NEW a \in Attempt, NEW outcome \in Outcomes, Settle(a, outcome) PROVE TypeOK'
  <2>1. call' \in [Attempt -> {"new", "calling", "gone"}] /\ aged' = aged
    BY <1>6 DEF Settle, Leave
  <2>2. AfterProbe(outcome) \in Circuit /\ AfterCall(a, outcome) \in Circuit
    BY DEF AfterProbe, AfterCall, Turned
  <2>3. circuit' \in Circuit
    BY <1>6, <2>2 DEF Settle
  <2>4. permit' \in [Attempt -> Permit]
    BY <1>6 DEF Settle
  <2> QED BY <2>1, <2>3, <2>4
<1>7. ASSUME NEW a \in Attempt, LeavesWindow(a) PROVE TypeOK'
  BY <1>7 DEF LeavesWindow
<1>8. CASE CooldownPasses
  BY <1>8 DEF CooldownPasses
<1>9. CASE LeaseLapses
  BY <1>9 DEF LeaseLapses
<1>10. CASE UNCHANGED vars
  BY <1>10 DEF vars
<1> QED
  BY <1>1, <1>2, <1>3, <1>4, <1>5, <1>6, <1>7, <1>8, <1>9, <1>10 DEF Next, CallStep

(***************************************************************************)
(* The rows of the circuit and of the permits keep their types, whatever   *)
(* the number of invocations.                                              *)
(***************************************************************************)
THEOREM TypeCorrect == Spec => []TypeOK
<1>1. Init => TypeOK
  BY CircuitAssumption DEF Init, TypeOK, Circuit, Permit, Outcomes
<1> QED BY <1>1, TypeStep, PTL DEF Spec

(***************************************************************************)
(* The strengthening: a pending probe is the circuit's own, of the present *)
(* generation; there is none while the circuit is closed or open; and a    *)
(* permit is never of a later generation than the circuit.                 *)
(***************************************************************************)
ProbeIsCurrent ==
    \A a \in Attempt : permit[a].probe /\ permit[a].state = "pending" =>
        circuit.state = "half_open" /\ circuit.probe = a /\ permit[a].generation = circuit.generation

UnusedCallIsNew == \A a \in Attempt : call[a] = "new" => permit[a].state = "absent"

CircuitInv == TypeOK /\ ProbeIsCurrent /\ UnusedCallIsNew /\ ClosedIsProven

(***************************************************************************)
(* Every step keeps the strengthening.                                     *)
(***************************************************************************)
LEMMA CircuitStep == CircuitInv /\ [Next]_vars => CircuitInv'
<1> SUFFICES ASSUME CircuitInv, [Next]_vars PROVE CircuitInv'
  OBVIOUS
<1>0. TypeOK /\ TypeOK'
  BY TypeStep DEF CircuitInv
<1> USE <1>0, CircuitAssumption
<1>a. circuit.generation \in Nat /\ \A a \in Attempt : permit[a].generation \in Nat
  BY DEF TypeOK, Circuit, Permit
<1> USE DEF CircuitInv, ProbeIsCurrent, UnusedCallIsNew, ClosedIsProven
<1>1. ASSUME NEW a \in Attempt, AdmitWhileClosed(a) PROVE CircuitInv'
  <2>1. /\ circuit' = circuit /\ call' = [call EXCEPT ![a] = "calling"]
        /\ permit' = [permit EXCEPT ![a] = [state |-> "pending", generation |-> circuit.generation,
                                            probe |-> FALSE]]
        /\ permit[a].state = "absent" /\ circuit.state = "closed"
    BY <1>1 DEF AdmitWhileClosed
  <2>2. /\ permit'[a].probe = FALSE /\ call'[a] = "calling"
        /\ \A b \in Attempt \ {a} : permit'[b] = permit[b] /\ call'[b] = call[b]
    BY <2>1 DEF TypeOK
  <2>3. ProbeIsCurrent' /\ UnusedCallIsNew'
    BY <2>1, <2>2
  <2>4. ClosedIsProven'
    <3>1. ASSUME circuit.generation > 0 PROVE ClosedIsProven'
      <4>1. PICK b \in Attempt : /\ permit[b].probe /\ permit[b].state = "success"
                                 /\ permit[b].generation + 1 = circuit.generation
        BY <2>1, <3>1
      <4>2. b # a
        BY <2>1, <4>1
      <4> QED BY <4>1, <4>2, <2>1, <2>2
    <3> QED BY <2>1, <3>1
  <2> QED BY <2>3, <2>4
<1>2. ASSUME NEW a \in Attempt, AdmitProbe(a) PROVE CircuitInv'
  <2>1. /\ circuit'.state = "half_open" /\ circuit'.probe = a
        /\ circuit'.generation = circuit.generation + 1
    BY <1>2 DEF AdmitProbe, Probing
  <2>2. permit'[a] = [state |-> "pending", generation |-> circuit.generation + 1, probe |-> TRUE]
    BY <1>2 DEF AdmitProbe
  <2>3. \A b \in Attempt \ {a} : permit'[b] = [permit[b] EXCEPT !.state = Replaced(b)]
    BY <1>2 DEF AdmitProbe
  <2>4. \A b \in Attempt \ {a} : permit'[b].state = Replaced(b) /\ permit'[b].probe = permit[b].probe
    BY <2>3 DEF TypeOK, Permit
  <2>5. ASSUME NEW b \in Attempt \ {a} PROVE ~(permit'[b].probe /\ permit'[b].state = "pending")
    BY <2>4 DEF Replaced
  <2>6. ProbeIsCurrent'
    BY <2>1, <2>2, <2>5
  <2>7. call' = [call EXCEPT ![a] = "calling"]
    BY <1>2 DEF AdmitProbe
  <2>8. UnusedCallIsNew'
    BY <2>7, <2>4 DEF Replaced, TypeOK
  <2> QED BY <2>1, <2>6, <2>8
<1>3. ASSUME NEW a \in Attempt, call' = [call EXCEPT ![a] = "gone"], permit' = permit, circuit' = circuit
      PROVE CircuitInv'
  BY <1>3 DEF TypeOK
<1>4. ASSUME NEW a \in Attempt, NEW outcome \in Outcomes, Settle(a, outcome) PROVE CircuitInv'
  <2>1. call[a] = "calling" /\ call' = [call EXCEPT ![a] = "gone"]
    BY <1>4 DEF Settle, Leave
  <2>2. ASSUME permit' = permit, circuit' = circuit PROVE CircuitInv'
    BY <2>1, <2>2, <1>3
  <2>3. ASSUME permit[a].state = "pending", permit' = [permit EXCEPT ![a].state = "stale"], circuit' = circuit
        PROVE CircuitInv'
    <3>1. /\ permit'[a].state = "stale"
          /\ \A b \in Attempt \ {a} : permit'[b] = permit[b]
      BY <2>3 DEF TypeOK
    <3>2. ProbeIsCurrent' /\ UnusedCallIsNew'
      BY <2>1, <2>3, <3>1 DEF TypeOK
    <3>3. ClosedIsProven'
      <4>1. ASSUME circuit.state = "closed", circuit.generation > 0 PROVE ClosedIsProven'
        <5>1. PICK b \in Attempt : /\ permit[b].probe /\ permit[b].state = "success"
                                   /\ permit[b].generation + 1 = circuit.generation
          BY <4>1
        <5>2. b # a
          BY <2>3, <5>1
        <5> QED BY <5>1, <5>2, <2>3, <3>1
      <4> QED BY <2>3, <4>1
    <3> QED BY <3>2, <3>3
  <2>4. ASSUME permit[a].state = "pending", Current(a), permit' = [permit EXCEPT ![a].state = outcome],
               circuit' = IF permit[a].probe THEN AfterProbe(outcome) ELSE AfterCall(a, outcome)
        PROVE CircuitInv'
    <3>0. outcome # "pending" /\ outcome # "absent"
      BY DEF Outcomes
    <3>1. /\ permit'[a] = [permit[a] EXCEPT !.state = outcome]
          /\ \A b \in Attempt \ {a} : permit'[b] = permit[b]
      BY <2>4 DEF TypeOK
    <3>2. /\ permit'[a].state = outcome /\ permit'[a].probe = permit[a].probe
          /\ permit'[a].generation = permit[a].generation
      BY <3>1 DEF TypeOK, Permit
    <3>3. UnusedCallIsNew'
      BY <2>1, <3>1, <3>0 DEF TypeOK
    <3>4. ASSUME permit[a].probe PROVE ProbeIsCurrent' /\ ClosedIsProven'
      <4>1. permit[a].generation = circuit.generation /\ circuit.probe = a
        BY <2>4, <3>4 DEF Current
      <4>2. \A b \in Attempt : ~(permit'[b].probe /\ permit'[b].state = "pending")
        <5>1. ASSUME NEW b \in Attempt \ {a} PROVE ~(permit[b].probe /\ permit[b].state = "pending")
          BY <4>1
        <5>2. permit'[a].state # "pending"
          BY <3>0, <3>2
        <5>3. ASSUME NEW b \in Attempt \ {a} PROVE ~(permit'[b].probe /\ permit'[b].state = "pending")
          BY <5>1, <3>1
        <5> QED BY <5>2, <5>3
      <4>3. circuit' = AfterProbe(outcome)
        BY <2>4, <3>4
      <4>4. ASSUME outcome = "success" PROVE ClosedIsProven'
        <5>1. circuit'.generation = circuit.generation + 1
          BY <4>3, <4>4 DEF AfterProbe, Turned
        <5>2. permit'[a].probe /\ permit'[a].state = "success" /\ permit'[a].generation = circuit.generation
          BY <4>1, <3>2, <3>4, <4>4
        <5> QED BY <5>1, <5>2
      <4>5. ASSUME outcome # "success" PROVE ClosedIsProven'
        BY <4>3, <4>5 DEF AfterProbe, Turned
      <4> QED BY <4>2, <4>4, <4>5
    <3>5. ASSUME ~permit[a].probe PROVE ProbeIsCurrent' /\ ClosedIsProven'
      <4>1. circuit.state = "closed"
        BY <2>4, <3>5 DEF Current
      <4>2. \A b \in Attempt : ~(permit'[b].probe /\ permit'[b].state = "pending")
        BY <4>1, <3>1, <3>2, <3>5
      <4>3. circuit' = Turned("open", TRUE) \/ circuit' = circuit
        BY <2>4, <3>5 DEF AfterCall
      <4>4. ASSUME circuit' = circuit PROVE ClosedIsProven'
        <5>1. ASSUME circuit.generation > 0 PROVE ClosedIsProven'
          <6>1. PICK b \in Attempt : /\ permit[b].probe /\ permit[b].state = "success"
                                     /\ permit[b].generation + 1 = circuit.generation
            BY <4>1, <5>1
          <6>2. b # a
            BY <3>5, <6>1
          <6>3. permit'[b] = permit[b] /\ circuit'.generation = circuit.generation
            BY <6>2, <4>4, <3>1
          <6> QED BY <6>1, <6>3
        <5> QED BY <4>4, <5>1
      <4>5. ASSUME circuit' = Turned("open", TRUE) PROVE ClosedIsProven'
        <5>1. circuit'.state = "open"
          BY <4>5 DEF Turned
        <5> QED BY <5>1
      <4> QED BY <4>2, <4>3, <4>4, <4>5
    <3> QED BY <3>3, <3>4, <3>5
  <2> QED BY <1>4, <2>2, <2>3, <2>4 DEF Settle
<1>5. ASSUME permit' = permit, call' = call, circuit'.state = circuit.state,
             circuit'.generation = circuit.generation, circuit'.probe = circuit.probe
      PROVE CircuitInv'
  BY <1>5
<1>6. ASSUME NEW a \in Attempt, Refuse(a) \/ AcquireAgain(a) \/ Lose(a) PROVE CircuitInv'
  BY <1>3, <1>6 DEF Refuse, AcquireAgain, Lose, Leave
<1>7. ASSUME NEW a \in Attempt, LeavesWindow(a) PROVE CircuitInv'
  BY <1>5, <1>7 DEF LeavesWindow
<1>8. CASE CooldownPasses \/ LeaseLapses
  BY <1>5, <1>8 DEF CooldownPasses, LeaseLapses, TypeOK, Circuit
<1>9. CASE UNCHANGED vars
  BY <1>5, <1>9 DEF vars
<1> QED
  BY <1>1, <1>2, <1>4, <1>6, <1>7, <1>8, <1>9 DEF Next, CallStep

(***************************************************************************)
(* The strengthening holds at every moment.                                *)
(***************************************************************************)
LEMMA CircuitAlways == Spec => []CircuitInv
<1>1. Init => CircuitInv
  BY CircuitAssumption DEF Init, CircuitInv, ProbeIsCurrent, UnusedCallIsNew, ClosedIsProven,
       TypeOK, Circuit, Permit, Outcomes
<1> QED BY <1>1, CircuitStep, PTL DEF Spec

(***************************************************************************)
(* Two probes are never pending at once: acquire() writes off the lapsed   *)
(* one in the transaction that admits the next.                            *)
(***************************************************************************)
THEOREM ProbesAlone == Spec => []OneProbe
<1>1. CircuitInv => OneProbe
  BY DEF CircuitInv, ProbeIsCurrent, OneProbe
<1> QED BY <1>1, CircuitAlways, PTL

(***************************************************************************)
(* A circuit that was open is closed by the success of the probe of the    *)
(* generation before, and by nothing else.                                 *)
(***************************************************************************)
THEOREM ClosedByProbe == Spec => []ClosedIsProven
<1>1. CircuitInv => ClosedIsProven
  BY DEF CircuitInv
<1> QED BY <1>1, CircuitAlways, PTL

-----------------------------------------------------------------------------
(***************************************************************************)
(* Why a circuit is open.  The set that OpenIsEarned counts has a          *)
(* cardinality because only finitely many permits exist at any moment,     *)
(* however many invocations may still come.                                *)
(***************************************************************************)
Issued == {a \in Attempt : permit[a].state # "absent"}

FinitelyIssued == IsFiniteSet(Issued)

Before == {a \in Attempt : permit[a].generation + 1 = circuit.generation}

Sampled == {a \in Before : permit[a].state \in {"success", "failure"}}

ProbeMissed == \E a \in Before : permit[a].probe /\ permit[a].state \in Outcomes \ {"success"}

EarnedInv == CircuitInv /\ FinitelyIssued /\ OpenIsEarned

(* OpenIsEarned, by the names of its sets. *)
LEMMA Earned == OpenIsEarned <=> (circuit.state = "open" => ProbeMissed \/ Cardinality(Sampled) >= MinimumSamples)
  BY DEF OpenIsEarned, ProbeMissed, Sampled, Before

(* The same for the next state. *)
LEMMA EarnedNext ==
    OpenIsEarned' <=> (circuit'.state = "open" => ProbeMissed' \/ Cardinality(Sampled') >= MinimumSamples)
  BY DEF OpenIsEarned, ProbeMissed, Sampled, Before

(* Each step of an invocation or of the clock issues one permit at most. *)
LEMMA IssuedStep == CircuitInv /\ FinitelyIssued /\ [Next]_vars => FinitelyIssued'
<1> SUFFICES ASSUME CircuitInv, FinitelyIssued, [Next]_vars PROVE FinitelyIssued'
  OBVIOUS
<1>0. TypeOK
  BY DEF CircuitInv
<1>1. ASSUME NEW a \in Attempt, Issued' \subseteq Issued \union {a} PROVE FinitelyIssued'
  <2>1. IsFiniteSet(Issued \union {a})
    BY FS_AddElement DEF FinitelyIssued
  <2> QED BY <2>1, <1>1, FS_Subset DEF FinitelyIssued
<1>2. ASSUME permit' = permit PROVE FinitelyIssued'
  <2>1. Issued' = Issued
    BY <1>2 DEF Issued
  <2> QED BY <2>1 DEF FinitelyIssued
<1>3. ASSUME NEW a \in Attempt, AdmitWhileClosed(a) PROVE FinitelyIssued'
  <2>1. \A b \in Attempt \ {a} : permit'[b] = permit[b]
    BY <1>3 DEF AdmitWhileClosed, TypeOK
  <2> QED BY <2>1, <1>1 DEF Issued
<1>4. ASSUME NEW a \in Attempt, AdmitProbe(a) PROVE FinitelyIssued'
  <2>1. \A b \in Attempt \ {a} : permit'[b] = [permit[b] EXCEPT !.state = Replaced(b)]
    BY <1>4 DEF AdmitProbe
  <2>2. \A b \in Attempt \ {a} : permit[b].state = "absent" => permit'[b].state = "absent"
    BY <2>1, <1>0 DEF Replaced, TypeOK, Permit
  <2> QED BY <2>2, <1>1 DEF Issued
<1>5. ASSUME NEW a \in Attempt, NEW outcome \in Outcomes, Settle(a, outcome) PROVE FinitelyIssued'
  <2>1. \A b \in Attempt \ {a} : permit'[b] = permit[b]
    BY <1>5, <1>0 DEF Settle, TypeOK
  <2> QED BY <2>1, <1>1 DEF Issued
<1>6. ASSUME NEW a \in Attempt, Refuse(a) \/ AcquireAgain(a) \/ Lose(a) \/ LeavesWindow(a) PROVE FinitelyIssued'
  BY <1>2, <1>6 DEF Refuse, AcquireAgain, Lose, LeavesWindow
<1>7. CASE CooldownPasses \/ LeaseLapses \/ UNCHANGED vars
  BY <1>2, <1>7 DEF CooldownPasses, LeaseLapses, vars
<1> QED
  BY <1>3, <1>4, <1>5, <1>6, <1>7 DEF Next, CallStep

(***************************************************************************)
(* A circuit that stays open keeps its reason: no settled permit changes.  *)
(***************************************************************************)
LEMMA StillEarned ==
    ASSUME OpenIsEarned, circuit.state = "open", circuit'.generation = circuit.generation,
           \A b \in Attempt : /\ permit'[b].generation = permit[b].generation
                              /\ permit'[b].probe = permit[b].probe
                              /\ \/ permit'[b].state = permit[b].state
                                 \/ permit'[b].state = "stale" /\ permit[b].state = "pending"
    PROVE  OpenIsEarned'
<1>1. Before' = Before
  BY DEF Before
<1>2. Sampled' = Sampled
  BY <1>1 DEF Sampled, Before
<1>3. ProbeMissed => ProbeMissed'
  BY <1>1 DEF ProbeMissed, Before, Outcomes
<1> QED BY <1>2, <1>3, Earned, EarnedNext

(***************************************************************************)
(* The failure that opens a closed circuit brings the settled calls of its *)
(* generation to the number the threshold asks for.                        *)
(***************************************************************************)
LEMMA OpenedByFailures ==
    ASSUME EarnedInv, FinitelyIssued', NEW a \in Attempt, TooManyFailures(a),
           permit[a].generation = circuit.generation,
           permit' = [permit EXCEPT ![a].state = "failure"],
           circuit'.generation = circuit.generation + 1
    PROVE  Cardinality(Sampled') >= MinimumSamples
<1> DEFINE F == Counted(a, "failure")
           S == Counted(a, "success")
<1>0. TypeOK
  BY DEF EarnedInv, CircuitInv
<1>1. IsFiniteSet(Issued) /\ IsFiniteSet(Issued')
  BY DEF EarnedInv, FinitelyIssued
<1>2. F \subseteq Issued /\ S \subseteq Issued
  BY DEF Counted, Issued
<1>3. IsFiniteSet(F) /\ IsFiniteSet(S) /\ Cardinality(F) \in Nat /\ Cardinality(S) \in Nat
  BY <1>1, <1>2, FS_Subset, FS_CardinalityType
<1>4. F \cap S = {} /\ a \notin F \union S
  BY DEF Counted
<1>5. IsFiniteSet(F \union S) /\ Cardinality(F \union S) = Cardinality(F) + Cardinality(S)
  <2>1. Cardinality(F \cap S) = 0
    BY <1>4, FS_EmptySet
  <2>2. IsFiniteSet(F \union S) /\ Cardinality(F \union S) = Cardinality(F) + Cardinality(S) - Cardinality(F \cap S)
    BY <1>3, FS_Union
  <2> QED BY <2>1, <2>2, <1>3
<1> DEFINE FS == F \union S
           All == FS \union {a}
<1>6. IsFiniteSet(All) /\ Cardinality(All) = Cardinality(F) + Cardinality(S) + 1
  <2> HIDE DEF F, S
  <2>1. a \notin FS
    BY <1>4
  <2>2. IsFiniteSet(FS) /\ Cardinality(FS) = Cardinality(F) + Cardinality(S)
    BY <1>5
  <2> HIDE DEF FS
  <2>3. IsFiniteSet(All) /\ Cardinality(All) = Cardinality(FS) + 1
    BY <2>1, <2>2, FS_AddElement
  <2> QED BY <2>2, <2>3, <1>3
<1>7. All \subseteq Sampled'
  <2>1. /\ permit'[a].state = "failure" /\ permit'[a].generation = permit[a].generation
        /\ \A b \in Attempt \ {a} : permit'[b] = permit[b]
    BY <1>0 DEF TypeOK, Permit
  <2> QED BY <2>1 DEF Counted, Sampled, Before
<1>8. Sampled' \subseteq Issued'
  BY DEF Sampled, Before, Issued
<1>9. IsFiniteSet(Sampled') /\ Cardinality(All) <= Cardinality(Sampled') /\ Cardinality(Sampled') \in Nat
  <2> HIDE DEF All
  <2>1. IsFiniteSet(Sampled')
    BY <1>1, <1>8, FS_Subset
  <2> QED BY <2>1, <1>7, FS_Subset, FS_CardinalityType
<1>10. Cardinality(F) + 1 + Cardinality(S) >= MinimumSamples
  BY DEF TooManyFailures
<1> HIDE DEF F, S, FS, All
<1> QED BY <1>3, <1>6, <1>9, <1>10, CircuitAssumption

(***************************************************************************)
(* Every step keeps the reason an open circuit has.                        *)
(***************************************************************************)
LEMMA EarnedStep == EarnedInv /\ [Next]_vars => EarnedInv'
<1> SUFFICES ASSUME EarnedInv, [Next]_vars PROVE EarnedInv'
  OBVIOUS
<1>0. CircuitInv' /\ FinitelyIssued' /\ TypeOK
  BY CircuitStep, IssuedStep DEF EarnedInv, CircuitInv
<1> SUFFICES OpenIsEarned'
  BY <1>0 DEF EarnedInv
<1>a. OpenIsEarned /\ CircuitInv
  BY DEF EarnedInv
<1>1. ASSUME circuit'.state # "open" PROVE OpenIsEarned'
  BY <1>1, EarnedNext
<1>2. ASSUME permit' = permit, circuit'.state = circuit.state, circuit'.generation = circuit.generation
      PROVE  OpenIsEarned'
  BY <1>1, <1>2, <1>a, StillEarned
<1>3. ASSUME NEW a \in Attempt, AdmitWhileClosed(a) PROVE OpenIsEarned'
  BY <1>1, <1>3 DEF AdmitWhileClosed
<1>4. ASSUME NEW a \in Attempt, AdmitProbe(a) PROVE OpenIsEarned'
  BY <1>1, <1>4 DEF AdmitProbe, Probing
<1>5. ASSUME NEW a \in Attempt, Refuse(a) \/ AcquireAgain(a) \/ Lose(a) \/ LeavesWindow(a) PROVE OpenIsEarned'
  BY <1>2, <1>5 DEF Refuse, AcquireAgain, Lose, LeavesWindow
<1>6. CASE CooldownPasses \/ LeaseLapses
  BY <1>2, <1>6, <1>0 DEF CooldownPasses, LeaseLapses, TypeOK, Circuit
<1>7. CASE UNCHANGED vars
  BY <1>2, <1>7 DEF vars
<1>8. ASSUME NEW a \in Attempt, NEW outcome \in Outcomes, Settle(a, outcome) PROVE OpenIsEarned'
  <2>1. CASE permit[a].state # "pending"
    BY <1>2, <1>8, <2>1 DEF Settle
  <2>2. CASE permit[a].state = "pending" /\ ~Current(a)
    <3>1. circuit' = circuit /\ permit' = [permit EXCEPT ![a].state = "stale"]
      BY <1>8, <2>2 DEF Settle
    <3>2. \A b \in Attempt : /\ permit'[b].generation = permit[b].generation
                             /\ permit'[b].probe = permit[b].probe
                             /\ \/ permit'[b].state = permit[b].state
                                \/ permit'[b].state = "stale" /\ permit[b].state = "pending"
      BY <3>1, <2>2, <1>0 DEF TypeOK, Permit
    <3> QED BY <3>1, <3>2, <1>1, <1>a, StillEarned
  <2>3. CASE permit[a].state = "pending" /\ Current(a)
    <3>1. /\ permit' = [permit EXCEPT ![a].state = outcome]
          /\ circuit' = IF permit[a].probe THEN AfterProbe(outcome) ELSE AfterCall(a, outcome)
      BY <1>8, <2>3 DEF Settle
    <3>2. permit[a].generation = circuit.generation
      BY <2>3 DEF Current
    <3>3. /\ permit'[a].state = outcome /\ permit'[a].probe = permit[a].probe
          /\ permit'[a].generation = permit[a].generation
      BY <3>1, <1>0 DEF TypeOK, Permit
    <3>4. CASE permit[a].probe
      <4>1. CASE outcome = "success"
        <5>1. circuit'.state = "closed"
          BY <3>1, <3>4, <4>1 DEF AfterProbe, Turned
        <5> QED BY <5>1, <1>1
      <4>2. CASE outcome # "success"
        <5>1. circuit'.generation = circuit.generation + 1
          BY <3>1, <3>4, <4>2 DEF AfterProbe, Turned
        <5>2. ProbeMissed'
          BY <5>1, <3>2, <3>3, <3>4, <4>2 DEF ProbeMissed, Before
        <5> QED BY <5>2, EarnedNext
      <4> QED BY <4>1, <4>2
    <3>5. CASE ~permit[a].probe
      <4>1. circuit.state = "closed"
        BY <2>3, <3>5 DEF Current
      <4>2. CASE outcome = "failure" /\ TooManyFailures(a)
        <5>1. circuit'.generation = circuit.generation + 1
          BY <3>1, <3>5, <4>2 DEF AfterCall, Turned
        <5>2. Cardinality(Sampled') >= MinimumSamples
          BY <5>1, <3>1, <3>2, <4>2, <1>0, OpenedByFailures
        <5> QED BY <5>2, EarnedNext
      <4>3. CASE ~(outcome = "failure" /\ TooManyFailures(a))
        <5>1. circuit' = circuit
          BY <3>1, <3>5, <4>3 DEF AfterCall
        <5> QED BY <5>1, <4>1, <1>1
      <4> QED BY <4>2, <4>3
    <3> QED BY <3>4, <3>5
  <2> QED BY <2>1, <2>2, <2>3
<1> QED
  BY <1>3, <1>4, <1>5, <1>6, <1>7, <1>8 DEF Next, CallStep

(* The reason of an open circuit is there at every moment. *)
LEMMA EarnedAlways == Spec => []EarnedInv
<1>1. Init => EarnedInv
  <2> SUFFICES ASSUME Init PROVE EarnedInv
    OBVIOUS
  <2>1. CircuitInv
    BY CircuitAssumption DEF Init, CircuitInv, ProbeIsCurrent, UnusedCallIsNew, ClosedIsProven,
         TypeOK, Circuit, Permit, Outcomes
  <2>2. Issued = {}
    BY DEF Init, Issued
  <2>3. FinitelyIssued
    BY <2>2, FS_EmptySet DEF FinitelyIssued
  <2>4. OpenIsEarned
    BY Earned DEF Init
  <2> QED BY <2>1, <2>3, <2>4 DEF EarnedInv
<1> QED BY <1>1, EarnedStep, PTL DEF Spec

(***************************************************************************)
(* A circuit is open because the probe of the generation before failed or  *)
(* was released, or because that generation had as many settled calls as   *)
(* providerFailureThreshold asks: late reports of older generations, which *)
(* _settle() writes down as stale, never shut the provider out.            *)
(***************************************************************************)
THEOREM OpenedByGeneration == Spec => []OpenIsEarned
<1>1. EarnedInv => OpenIsEarned
  BY DEF EarnedInv
<1> QED BY <1>1, EarnedAlways, PTL
=============================================================================
