--------------------------- MODULE ModelCallProofs ---------------------------
(***************************************************************************)
(* Proofs about ModelCall, for every set of calls, every estimate and      *)
(* every limit.  The circuit inside an invocation behaves as the circuit   *)
(* alone, so that what is proved of the one holds of the other; each call  *)
(* is accounted for once; and calls that check a limit at the same time    *)
(* do not pass it together.                                                *)
(***************************************************************************)
EXTENDS ModelCall, ProviderCircuitProofs

-----------------------------------------------------------------------------
(***************************************************************************)
(* Counting out a sum.                                                     *)
(***************************************************************************)
Units(f, S) == UNION {{x} \X (1..f[x]) : x \in S}

(* Finitely many calls that used a number of tokens each used finitely many. *)
LEMMA UnitsFinite ==
    ASSUME NEW f, NEW S, IsFiniteSet(S), \A x \in S : f[x] \in Nat
    PROVE  IsFiniteSet(Units(f, S))
<1> DEFINE Rows == {{x} \X (1..f[x]) : x \in S}
           row == [x \in S |-> {x} \X (1..f[x])]
<1>1. row \in Surjection(S, Rows)
  BY DEF Surjection
<1>2. IsFiniteSet(Rows)
  <2> HIDE DEF row, Rows
  <2> QED BY <1>1, FS_Surjection
<1>3. ASSUME NEW T \in Rows PROVE IsFiniteSet(T)
  <2>1. PICK x \in S : T = {x} \X (1..f[x])
    OBVIOUS
  <2>2. IsFiniteSet({x})
    BY FS_Singleton
  <2>3. f[x] \in Int /\ 1 \in Int
    OBVIOUS
  <2>4. IsFiniteSet(1..f[x])
    BY <2>3, FS_Interval
  <2> QED BY <2>1, <2>2, <2>4, FS_Product
<1>4. IsFiniteSet(UNION Rows)
  <2> HIDE DEF Rows
  <2> QED BY <1>2, <1>3, FS_UNION
<1> QED BY <1>4 DEF Units

(* A sum over finitely many natural numbers is a natural number. *)
LEMMA TotalNatural ==
    ASSUME NEW f, NEW S, IsFiniteSet(S), \A x \in S : f[x] \in Nat
    PROVE  Total(f, S) \in Nat
<1>1. IsFiniteSet(Units(f, S))
  BY UnitsFinite
<1> QED BY <1>1, FS_CardinalityType DEF Total, Units

(* An empty sum. *)
LEMMA TotalEmpty == ASSUME NEW f PROVE Total(f, {}) = 0
<1>1. UNION {{x} \X (1..f[x]) : x \in {}} = {}
  OBVIOUS
<1> QED BY <1>1, FS_EmptySet DEF Total

(* A sum depends on the summands alone. *)
LEMMA TotalAgrees ==
    ASSUME NEW f, NEW g, NEW S, \A x \in S : f[x] = g[x]
    PROVE  Total(f, S) = Total(g, S)
<1>1. {{x} \X (1..f[x]) : x \in S} = {{x} \X (1..g[x]) : x \in S}
  OBVIOUS
<1> QED BY <1>1 DEF Total

(* A summand more. *)
LEMMA TotalAdd ==
    ASSUME NEW f, NEW S, IsFiniteSet(S), \A x \in S : f[x] \in Nat,
           NEW y, y \notin S, f[y] \in Nat
    PROVE  Total(f, S \union {y}) = Total(f, S) + f[y]
<1> DEFINE new == {y} \X (1..f[y])
           old == Units(f, S)
<1>1. Units(f, S \union {y}) = old \union new
  BY DEF Units
<1>2. old \cap new = {}
  BY DEF Units
<1>3. IsFiniteSet(old)
  BY UnitsFinite
<1>4. IsFiniteSet(new) /\ Cardinality(new) = f[y]
  <2>1. IsFiniteSet({y}) /\ Cardinality({y}) = 1
    BY FS_Singleton
  <2>2. IsFiniteSet(1..f[y]) /\ Cardinality(1..f[y]) = f[y]
    BY FS_Interval
  <2> DEFINE I == 1..f[y]
  <2>3. IsFiniteSet(new) /\ Cardinality(new) = Cardinality({y}) * Cardinality(I)
    BY <2>1, <2>2, FS_Product
  <2> QED BY <2>1, <2>2, <2>3
<1> HIDE DEF old, new
<1>5. Cardinality(old \union new) = Cardinality(old) + Cardinality(new) - Cardinality(old \cap new)
  BY <1>3, <1>4, FS_Union
<1>6. Cardinality(old \cap new) = 0
  BY <1>2, FS_EmptySet
<1>7. Cardinality(old) \in Nat
  BY <1>3, FS_CardinalityType
<1>8. Cardinality(old \union new) = Cardinality(old) + f[y]
  BY <1>4, <1>5, <1>6, <1>7
<1>9. Total(f, S \union {y}) = Cardinality(Units(f, S \union {y})) /\ Total(f, S) = Cardinality(old)
  BY DEF Total, Units, old
<1> QED BY <1>1, <1>8, <1>9

-----------------------------------------------------------------------------
(***************************************************************************)
(* An invocation moves the circuit as the circuit's own actions do, or not *)
(* at all.                                                                 *)
(***************************************************************************)
LEMMA CircuitMoves == [CallNext]_allVars => [Next]_vars
<1> SUFFICES ASSUME [CallNext]_allVars PROVE [Next]_vars
  OBVIOUS
<1>1. ASSUME UNCHANGED circuits PROVE UNCHANGED vars
  BY <1>1 DEF circuits, vars
<1>2. ASSUME NEW a \in Attempt, InvocationStep(a) PROVE [Next]_vars
  <2>1. CASE Reserve(a) \/ Overdrawn(a) \/ AcquireFails(a) \/ Dispatch(a) \/ Withdraw(a)
             \/ (\E used \in Usage : Charge(a, used)) \/ ChargeUnknown(a) \/ AccountingFails(a)
    BY <1>1, <2>1 DEF Reserve, Overdrawn, AcquireFails, Dispatch, Withdraw, Charge, ChargeUnknown,
                      AccountingFails
  <2>2. CASE Acquire(a) \/ CircuitRefuses(a)
    BY <2>2 DEF Acquire, CircuitRefuses, Next, CallStep
  <2>3. CASE DispatchFails(a)
    <3>1. "released" \in Outcomes
      BY DEF Outcomes
    <3> QED BY <2>3, <3>1 DEF DispatchFails, Next, CallStep
  <2>4. CASE \E outcome \in Outcomes : Report(a, outcome)
    BY <2>4 DEF Report, Next, CallStep
  <2>5. CASE WithdrawFails(a) \/ ReportFails(a) \/ Die(a)
    BY <1>1, <2>5 DEF WithdrawFails, ReportFails, Die, Next, CallStep
  <2> QED BY <1>2, <2>1, <2>2, <2>3, <2>4, <2>5 DEF InvocationStep
<1>3. CASE Crash \/ Recover \/ Midnight \/ UNCHANGED allVars
  BY <1>1, <1>3 DEF Crash, Recover, Midnight, allVars, circuits
<1>4. CASE ClockStep
  BY <1>4 DEF ClockStep, Next
<1> QED BY <1>2, <1>3, <1>4 DEF CallNext

(***************************************************************************)
(* The circuit of the invocations is the circuit by itself: the budget,    *)
(* the failing transactions, a crash and the recovery add no step to it.   *)
(***************************************************************************)
THEOREM CallRefinesCircuit == CallSafe => Spec
<1>1. CallInit => Init
  BY DEF CallInit
<1> QED BY <1>1, CircuitMoves, PTL DEF CallSafe, Spec

(***************************************************************************)
(* What the circuit promises, it promises to the calls that pass a budget  *)
(* before and after it: one probe at a time, closed by a probe, and open   *)
(* on account of the generation before.                                    *)
(***************************************************************************)
THEOREM CallsKeepCircuit == CallSafe => [](OneProbe /\ ClosedIsProven /\ OpenIsEarned)
  BY CallRefinesCircuit, ProbesAlone, ClosedByProbe, OpenedByGeneration, PTL

-----------------------------------------------------------------------------
(***************************************************************************)
(* Types.                                                                  *)
(***************************************************************************)
LEMMA Words ==
    /\ 0 \in Day /\ 0 \in Usage \union {0} /\ Usage \union {0} \subseteq Nat
    /\ {"new", "reserved", "permitted", "refused", "dispatched", "recorded", "stuck", "done"} \subseteq Stages
    /\ \A d \in Day : d \in Nat
  BY BudgetAssumption DEF Day, Stages

(* What release() makes of a row is a row. *)
LEMMA ReleasedTyped ==
    ASSUME NEW h \in Hold
    PROVE  /\ Released(h) \in Hold /\ Released(h).day = h.day /\ Released(h).used = h.used
           /\ Released(h).state = IF h.state = "reserved" THEN "released"
                                   ELSE IF h.state = "in_flight" THEN "unknown" ELSE h.state
<1>1. CASE h.state = "reserved"
  BY <1>1 DEF Released, Hold
<1>2. CASE h.state = "in_flight"
  BY <1>2 DEF Released, Hold
<1>3. CASE h.state \notin {"reserved", "in_flight"}
  <2>1. Released(h) = h
    BY <1>3 DEF Released
  <2> QED BY <2>1, <1>3
<1> QED BY <1>1, <1>2, <1>3

(* The budget's part of CallTypeOK. *)
BudgetTyped ==
    /\ hold \in [Attempt -> Hold]
    /\ ledger \in [Day -> Nat]
    /\ day \in Day
    /\ stage \in [Attempt -> Stages]
    /\ up \in BOOLEAN

LEMMA CallTypeParts == CallTypeOK <=> TypeOK /\ BudgetTyped
  BY DEF CallTypeOK, BudgetTyped

(* Every step keeps the types of the budget. *)
LEMMA BudgetTypeStep == BudgetTyped /\ [CallNext]_allVars => BudgetTyped'
<1> SUFFICES ASSUME BudgetTyped, [CallNext]_allVars PROVE BudgetTyped'
  OBVIOUS
<1> USE Words DEF BudgetTyped
<1>1. ASSUME NEW a \in Attempt, NEW step \in Stages, Goto(a, step) PROVE stage' \in [Attempt -> Stages]
  BY <1>1 DEF Goto
<1>2. ASSUME NEW a \in Attempt, Release(a) PROVE hold' \in [Attempt -> Hold]
  <2>1. Released(hold[a]) \in Hold
    BY ReleasedTyped
  <2> QED BY <1>2, <2>1 DEF Release
<1>3. ASSUME NEW a \in Attempt, InvocationStep(a) PROVE BudgetTyped'
  <2>1. CASE Reserve(a)
    <3>1. [state |-> "reserved", day |-> day, used |-> 0] \in Hold
      BY DEF Hold
    <3> QED BY <2>1, <3>1, <1>1 DEF Reserve
  <2>2. CASE Overdrawn(a) \/ Acquire(a) \/ CircuitRefuses(a) \/ AcquireFails(a) \/ DispatchFails(a)
             \/ WithdrawFails(a) \/ (\E outcome \in Outcomes : Report(a, outcome)) \/ ReportFails(a) \/ Die(a)
    <3>1. \E step \in {"done", "permitted", "refused", "stuck"} : Goto(a, step)
      BY <2>2 DEF Overdrawn, Acquire, CircuitRefuses, AcquireFails, DispatchFails, WithdrawFails, Report,
                  ReportFails, Die
    <3>2. UNCHANGED <<hold, ledger, day, up>>
      BY <2>2 DEF Overdrawn, Acquire, CircuitRefuses, AcquireFails, DispatchFails, WithdrawFails, Report,
                  ReportFails, Die, budget
    <3> QED BY <3>1, <3>2, <1>1
  <2>3. CASE Dispatch(a)
    <3>1. [hold[a] EXCEPT !.state = "in_flight"] \in Hold
      BY DEF Hold
    <3> QED BY <2>3, <3>1, <1>1 DEF Dispatch
  <2>4. CASE Withdraw(a)
    BY <2>4, <1>1, <1>2 DEF Withdraw
  <2>5. ASSUME NEW used \in Usage, Charge(a, used) PROVE BudgetTyped'
    <3>1. hold' = [hold EXCEPT ![a].state = "settled", ![a].used = used]
      BY <2>5 DEF Charge
    <3>2. hold' \in [Attempt -> Hold]
      BY <3>1 DEF Hold
    <3>3. ledger' \in [Day -> Nat]
      <4>1. ledger[day] + used \in Nat
        OBVIOUS
      <4> QED BY <2>5, <4>1 DEF Charge, ChargeLedger
    <3> QED BY <2>5, <3>2, <3>3, <1>1 DEF Charge
  <2>6. CASE ChargeUnknown(a)
    <3>1. [hold[a] EXCEPT !.state = "unknown"] \in Hold
      BY DEF Hold
    <3> QED BY <2>6, <3>1, <1>1 DEF ChargeUnknown
  <2>7. CASE AccountingFails(a)
    BY <2>7, <1>1, <1>2 DEF AccountingFails
  <2> QED BY <1>3, <2>1, <2>2, <2>3, <2>4, <2>5, <2>6, <2>7 DEF InvocationStep
<1>4. CASE Recover
  <2>1. \A a \in Attempt : Released(hold[a]) \in Hold
    BY ReleasedTyped
  <2> QED BY <1>4, <2>1 DEF Recover
<1>5. CASE Midnight
  <2>1. day + 1 \in Day
    BY <1>5, BudgetAssumption DEF Midnight, Day
  <2> QED BY <1>5, <2>1 DEF Midnight, budget
<1>6. CASE Crash \/ ClockStep \/ UNCHANGED allVars
  BY <1>6 DEF Crash, ClockStep, allVars, budget
<1> QED BY <1>3, <1>4, <1>5, <1>6 DEF CallNext

(* An empty budget has its types. *)
LEMMA BudgetInitTyped == CallInit => BudgetTyped
  BY Words, BudgetAssumption DEF CallInit, BudgetInit, BudgetTyped, Hold

(***************************************************************************)
(* The circuit, the reservations, the ledger and the stage of each         *)
(* callback keep their types through refusals, failing transactions,       *)
(* crashes and recoveries.                                                 *)
(***************************************************************************)
THEOREM CallTypeCorrect == CallSafe => []CallTypeOK
<1>1. CallSafe => []BudgetTyped
  BY BudgetInitTyped, BudgetTypeStep, PTL DEF CallSafe
<1>2. CallSafe => []TypeOK
  BY CallRefinesCircuit, TypeCorrect, PTL
<1> QED BY <1>1, <1>2, CallTypeParts, PTL

-----------------------------------------------------------------------------
(***************************************************************************)
(* What the stage of a callback says of its reservation, and what a permit *)
(* with an answer says of it: the provider was called, so the row is paid  *)
(* for or held.                                                            *)
(***************************************************************************)
Answers == {"success", "failure", "neutral"}

Out == {"in_flight", "settled", "unknown"}

Unsent == {"new", "reserved", "permitted", "refused", "stuck"}

HoldOK(a) ==
    /\ stage[a] = "new" => hold[a].state = "absent"
    /\ stage[a] \in {"reserved", "permitted", "refused"} => hold[a].state = "reserved"
    /\ stage[a] = "dispatched" => hold[a].state = "in_flight"
    /\ stage[a] = "recorded" => hold[a].state \in Out
    /\ stage[a] \in Unsent => permit[a].state \notin Answers
    /\ permit[a].state \in Answers => hold[a].state \in Out

HoldsFollow == \A a \in Attempt : HoldOK(a)

(* A permit gets its answer when its own call settles it, and in no other way. *)
LEMMA AnswerFrame ==
    ASSUME TypeOK, [Next]_vars, NEW b \in Attempt,
           \A outcome \in Answers : ~Settle(b, outcome), permit'[b].state \in Answers
    PROVE  permit[b].state \in Answers
<1>1. ASSUME permit'[b] = permit[b] PROVE permit[b].state \in Answers
  BY <1>1
<1>2. ASSUME NEW a \in Attempt, AdmitWhileClosed(a) PROVE permit[b].state \in Answers
  BY <1>2 DEF AdmitWhileClosed, TypeOK, Answers
<1>3. ASSUME NEW a \in Attempt, AdmitProbe(a) PROVE permit[b].state \in Answers
  <2>1. a # b
    BY <1>3 DEF AdmitProbe, Answers
  <2>2. permit'[b] = [permit[b] EXCEPT !.state = Replaced(b)]
    BY <1>3, <2>1 DEF AdmitProbe
  <2>3. permit'[b].state = Replaced(b)
    BY <2>2 DEF TypeOK, Permit
  <2> QED BY <2>3 DEF Replaced, Answers
<1>4. ASSUME NEW a \in Attempt, NEW outcome \in Outcomes, Settle(a, outcome) PROVE permit[b].state \in Answers
  <2>1. CASE a # b
    BY <1>1, <1>4, <2>1 DEF Settle, TypeOK
  <2>2. CASE a = b
    <3>1. outcome = "released"
      BY <1>4, <2>2 DEF Outcomes, Answers
    <3>2. permit' = permit \/ (\E s \in {"stale", "released"} : permit' = [permit EXCEPT ![a].state = s])
      BY <1>4, <3>1 DEF Settle
    <3> QED BY <2>2, <3>2 DEF TypeOK, Permit, Answers
  <2> QED BY <2>1, <2>2
<1>5. ASSUME NEW a \in Attempt, Refuse(a) \/ AcquireAgain(a) \/ Lose(a) \/ LeavesWindow(a)
      PROVE permit[b].state \in Answers
  BY <1>1, <1>5 DEF Refuse, AcquireAgain, Lose, LeavesWindow
<1>6. CASE CooldownPasses \/ LeaseLapses \/ UNCHANGED vars
  BY <1>1, <1>6 DEF CooldownPasses, LeaseLapses, vars
<1> QED BY <1>2, <1>3, <1>4, <1>5, <1>6 DEF Next, CallStep

(* An invocation settles its own permit alone. *)
LEMMA OthersUnanswered ==
    ASSUME TypeOK, BudgetTyped, [Next]_vars, NEW a \in Attempt, NEW b \in Attempt, b # a,
           \/ UNCHANGED call
           \/ \E s \in {"calling", "gone"} : call' = [call EXCEPT ![a] = s]
    PROVE  permit'[b].state \in Answers => permit[b].state \in Answers
<1>1. call'[b] = call[b]
  BY DEF TypeOK
<1>2. \A outcome \in Answers : ~Settle(b, outcome)
  BY <1>1 DEF Settle, Leave, TypeOK
<1> QED BY <1>2, AnswerFrame

(* An action of one call writes the stage and the reservation of that call. *)
OwnRows(a) ==
    /\ \A b \in Attempt \ {a} : stage'[b] = stage[b] /\ hold'[b] = hold[b]
    /\ \/ UNCHANGED call
       \/ \E s \in {"calling", "gone"} : call' = [call EXCEPT ![a] = s]

LEMMA OwnRowsOnly ==
    ASSUME TypeOK, BudgetTyped, NEW a \in Attempt, InvocationStep(a)
    PROVE  OwnRows(a)
<1>1. ASSUME NEW step, Goto(a, step) PROVE \A b \in Attempt \ {a} : stage'[b] = stage[b]
  BY <1>1 DEF Goto, BudgetTyped
<1>2. ASSUME UNCHANGED hold \/ Release(a) PROVE \A b \in Attempt \ {a} : hold'[b] = hold[b]
  BY <1>2 DEF Release, BudgetTyped
<1>3. CASE Reserve(a) \/ Dispatch(a) \/ ChargeUnknown(a) \/ (\E used \in Usage : Charge(a, used))
  <2>1. \A b \in Attempt \ {a} : hold'[b] = hold[b]
    BY <1>3 DEF Reserve, Dispatch, ChargeUnknown, Charge, BudgetTyped
  <2> QED BY <1>1, <1>3, <2>1 DEF Reserve, Dispatch, ChargeUnknown, Charge, circuits, OwnRows
<1>4. CASE Overdrawn(a) \/ AcquireFails(a) \/ Withdraw(a) \/ AccountingFails(a)
  BY <1>1, <1>2, <1>4 DEF Overdrawn, AcquireFails, Withdraw, AccountingFails, circuits, budget, OwnRows
<1>5. CASE Acquire(a) \/ CircuitRefuses(a) \/ DispatchFails(a)
  BY <1>1, <1>2, <1>5 DEF Acquire, CircuitRefuses, DispatchFails, AdmitWhileClosed, AdmitProbe, Refuse,
                          Settle, Leave, budget, OwnRows
<1>6. CASE (\E outcome \in Outcomes : Report(a, outcome)) \/ ReportFails(a) \/ WithdrawFails(a) \/ Die(a)
  BY <1>1, <1>2, <1>6 DEF Report, ReportFails, WithdrawFails, Die, Settle, Lose, Leave, circuits, budget, OwnRows
<1> QED BY <1>3, <1>4, <1>5, <1>6 DEF InvocationStep

(* A step of one call leaves what is known of the others as it is. *)
LEMMA OthersFollow ==
    ASSUME TypeOK, BudgetTyped, HoldsFollow, [CallNext]_allVars, NEW a \in Attempt, InvocationStep(a),
           NEW b \in Attempt, b # a
    PROVE  HoldOK(b)'
<1>1. OwnRows(a)
  BY OwnRowsOnly
<1>2. permit'[b].state \in Answers => permit[b].state \in Answers
  BY <1>1, CircuitMoves, OthersUnanswered DEF OwnRows
<1>3. stage'[b] = stage[b] /\ hold'[b] = hold[b]
  BY <1>1 DEF OwnRows
<1> QED BY <1>2, <1>3 DEF HoldsFollow, HoldOK

(* A call that does not leave settles nothing; one that gives its permit back answers nothing. *)
LEMMA NoAnswerThen ==
    ASSUME TypeOK, NEW a \in Attempt,
           \/ UNCHANGED circuits
           \/ AdmitWhileClosed(a) \/ AdmitProbe(a) \/ Refuse(a) \/ Lose(a)
           \/ Settle(a, "released")
    PROVE  permit'[a].state \in Answers => permit[a].state \in Answers
<1>1. CASE UNCHANGED circuits \/ Refuse(a) \/ Lose(a)
  BY <1>1 DEF circuits, Refuse, Lose
<1>2. CASE AdmitWhileClosed(a)
  BY <1>2 DEF AdmitWhileClosed, TypeOK, Answers
<1>3. CASE AdmitProbe(a)
  BY <1>3 DEF AdmitProbe, Answers
<1>4. CASE Settle(a, "released")
  <2>1. permit' = permit \/ (\E s \in {"stale", "released"} : permit' = [permit EXCEPT ![a].state = s])
    BY <1>4 DEF Settle
  <2> QED BY <2>1 DEF TypeOK, Permit, Answers
<1> QED BY <1>1, <1>2, <1>3, <1>4

(* Every step keeps the reservation of each call in line with its stage. *)
LEMMA HoldStep ==
    TypeOK /\ BudgetTyped /\ HoldsFollow /\ [CallNext]_allVars => HoldsFollow'
<1> SUFFICES ASSUME TypeOK, BudgetTyped, HoldsFollow, [CallNext]_allVars PROVE HoldsFollow'
  OBVIOUS
<1>1. ASSUME NEW a \in Attempt, InvocationStep(a) PROVE HoldsFollow'
  <2> SUFFICES HoldOK(a)'
    BY <1>1, OthersFollow DEF HoldsFollow
  <2>0. HoldOK(a) /\ hold[a] \in Hold
    BY DEF HoldsFollow, BudgetTyped
  <2>a. ASSUME NEW step, Goto(a, step) PROVE stage'[a] = step
    BY <2>a DEF Goto, BudgetTyped
  <2>b. ASSUME Release(a) PROVE hold'[a] = Released(hold[a])
    BY <2>b DEF Release, BudgetTyped
  <2>1. CASE Reserve(a)
    <3>1. hold'[a].state = "reserved" /\ stage'[a] = "reserved" /\ permit' = permit
      BY <2>1, <2>a DEF Reserve, BudgetTyped, circuits
    <3>2. stage[a] = "new"
      BY <2>1 DEF Reserve
    <3> QED BY <3>1, <3>2, <2>0 DEF HoldOK, Unsent, Out
  <2>2. CASE Overdrawn(a) \/ AcquireFails(a)
    <3>1. /\ hold' = hold /\ permit' = permit
          /\ \/ stage[a] = "new" /\ stage'[a] = "done"
             \/ stage[a] = "reserved" /\ stage'[a] = "refused"
      BY <2>2, <2>a DEF Overdrawn, AcquireFails, circuits, budget
    <3> QED BY <3>1, <2>0 DEF HoldOK, Unsent, Out
  <2>3. CASE Acquire(a) \/ CircuitRefuses(a) \/ DispatchFails(a) \/ WithdrawFails(a)
    <3>1. permit'[a].state \in Answers => permit[a].state \in Answers
      BY <2>3, NoAnswerThen DEF Acquire, CircuitRefuses, DispatchFails, WithdrawFails
    <3>2. /\ hold' = hold
          /\ \/ stage[a] = "reserved" /\ stage'[a] \in {"permitted", "refused"}
             \/ stage[a] \in {"permitted", "refused"} /\ stage'[a] \in {"refused", "stuck"}
      BY <2>3, <2>a DEF Acquire, CircuitRefuses, DispatchFails, WithdrawFails, budget
    <3> QED BY <3>1, <3>2, <2>0 DEF HoldOK, Unsent, Out
  <2>4. CASE Dispatch(a)
    <3>1. hold'[a].state = "in_flight" /\ stage'[a] = "dispatched" /\ permit' = permit
      BY <2>4, <2>a DEF Dispatch, BudgetTyped, Hold, circuits
    <3> QED BY <3>1, <2>0 DEF HoldOK, Unsent, Out
  <2>5. CASE Withdraw(a)
    <3>1. stage[a] = "refused" /\ stage'[a] = "done" /\ permit' = permit
      BY <2>5, <2>a DEF Withdraw, circuits
    <3> QED BY <3>1, <2>0 DEF HoldOK, Unsent, Out
  <2>6. CASE (\E used \in Usage : Charge(a, used)) \/ ChargeUnknown(a)
    <3>1. hold'[a].state \in {"settled", "unknown"} /\ stage'[a] = "recorded" /\ permit' = permit
      BY <2>6, <2>a DEF Charge, ChargeUnknown, BudgetTyped, Hold, circuits
    <3> QED BY <3>1, <2>0 DEF HoldOK, Unsent, Out
  <2>7. CASE AccountingFails(a)
    <3>1. stage[a] = "dispatched" /\ stage'[a] = "recorded" /\ permit' = permit
      BY <2>7, <2>a DEF AccountingFails, circuits
    <3>2. hold'[a] = hold[a] \/ hold'[a] = Released(hold[a])
      BY <2>7, <2>b DEF AccountingFails
    <3>3. hold'[a].state \in {"in_flight", "unknown"}
      BY <3>1, <3>2, <2>0, ReleasedTyped DEF HoldOK
    <3> QED BY <3>1, <3>3, <2>0 DEF HoldOK, Unsent, Out
  <2>8. CASE (\E outcome \in Outcomes : Report(a, outcome)) \/ ReportFails(a)
    <3>1. stage[a] = "recorded" /\ stage'[a] = "done" /\ hold' = hold
      BY <2>8, <2>a DEF Report, ReportFails, budget
    <3> QED BY <3>1, <2>0 DEF HoldOK, Unsent, Out
  <2>9. CASE Die(a)
    <3>1. stage'[a] = "done" /\ hold' = hold /\ permit' = permit
      BY <2>9, <2>a DEF Die, Lose, circuits, budget
    <3> QED BY <3>1, <2>0 DEF HoldOK, Unsent, Out
  <2> QED BY <1>1, <2>1, <2>2, <2>3, <2>4, <2>5, <2>6, <2>7, <2>8, <2>9 DEF InvocationStep
<1>2. CASE Recover
  <2>1. permit' = permit /\ stage' = stage /\ \A a \in Attempt : hold'[a] = Released(hold[a])
    BY <1>2 DEF Recover, circuits
  <2>2. ASSUME NEW a \in Attempt PROVE HoldOK(a)'
    <3>1. HoldOK(a) /\ hold[a] \in Hold /\ stage[a] \in {"new", "stuck", "done"}
      BY <1>2 DEF HoldsFollow, BudgetTyped, Recover, Idle
    <3>2. hold'[a].state = IF hold[a].state = "reserved" THEN "released"
                           ELSE IF hold[a].state = "in_flight" THEN "unknown" ELSE hold[a].state
      BY <2>1, <3>1, ReleasedTyped
    <3> QED BY <2>1, <3>1, <3>2 DEF HoldOK, Unsent, Out
  <2> QED BY <2>2 DEF HoldsFollow
<1>3. CASE Crash \/ Midnight \/ ClockStep \/ UNCHANGED allVars
  <2>1. permit' = permit /\ hold' = hold /\ stage' = stage
    BY <1>3 DEF Crash, Midnight, ClockStep, CooldownPasses, LeaseLapses, LeavesWindow, allVars, circuits, budget
  <2> QED BY <2>1 DEF HoldsFollow, HoldOK
<1> QED BY <1>1, <1>2, <1>3 DEF CallNext

(* What the callbacks know of their reservations holds at every moment. *)
LEMMA HoldsAlways == CallSafe => [](TypeOK /\ BudgetTyped /\ HoldsFollow)
<1>1. CallInit => HoldsFollow
  BY DEF CallInit, Init, BudgetInit, HoldsFollow, HoldOK, Unsent, Answers
<1>2. CallSafe => []CallTypeOK
  BY CallTypeCorrect
<1>3. CallSafe => [](TypeOK /\ BudgetTyped)
  BY <1>2, CallTypeParts, PTL
<1> QED BY <1>1, <1>3, HoldStep, PTL DEF CallSafe

-----------------------------------------------------------------------------
(***************************************************************************)
(* The budget as three sums.  Whatever happens to a reservation is one of  *)
(* three things: it is taken while the limits allow it, it is paid for, or *)
(* it eases: it holds what it held, or less.                               *)
(***************************************************************************)
Today == In({"reserved", "in_flight"}) \union {a \in In({"unknown"}) : hold[a].day = day}

Run == In({"reserved", "in_flight", "unknown"})

Paid == In({"settled"})

Held == {a \in Attempt : hold[a].state # "absent"}

Used == [a \in Attempt |-> hold[a].used]

Excess == [a \in Attempt |-> IF hold[a].used > Estimate THEN hold[a].used - Estimate ELSE 0]

FinitelyHeld == IsFiniteSet(Held)

Booked == Total(ledger, Day) = Spent(In({"settled"}))

NothingAhead == (\A d \in Day : d > day => ledger[d] = 0) /\ (\A a \in Attempt : hold[a].day <= day)

SumInv == FinitelyHeld /\ Booked /\ NothingAhead /\ WithinLimits

Takes(a) ==
    /\ hold[a].state = "absent" /\ Affordable
    /\ hold' = [hold EXCEPT ![a] = [state |-> "reserved", day |-> day, used |-> 0]]
    /\ UNCHANGED <<ledger, day>>

Pays(a, used) ==
    /\ hold[a].state = "in_flight"
    /\ hold' = [hold EXCEPT ![a].state = "settled", ![a].used = used]
    /\ ledger' = [ledger EXCEPT ![day] = @ + used]
    /\ UNCHANGED day

EasesRow(h, g) ==
    /\ g.day = h.day /\ g.used = h.used
    /\ \/ g.state = h.state
       \/ h.state = "reserved" /\ g.state \in {"released", "in_flight"}
       \/ h.state = "in_flight" /\ g.state = "unknown"

Eases ==
    /\ \A a \in Attempt : EasesRow(hold[a], hold'[a])
    /\ UNCHANGED ledger
    /\ day' = day \/ (day' \in Day /\ day' = day + 1)

(* Every step of the system takes, pays or eases. *)
LEMMA BudgetMoves ==
    ASSUME BudgetTyped, HoldsFollow, [CallNext]_allVars
    PROVE  \/ Eases
           \/ \E a \in Attempt : Takes(a) \/ (\E used \in Usage : Pays(a, used))
<1>1. ASSUME UNCHANGED <<hold, ledger, day>> PROVE Eases
  BY <1>1 DEF Eases, EasesRow
<1>2. ASSUME NEW a \in Attempt, EasesRow(hold[a], hold'[a]), UNCHANGED <<ledger, day>>,
             \A b \in Attempt \ {a} : hold'[b] = hold[b]
      PROVE  Eases
  BY <1>2 DEF Eases, EasesRow
<1>3. ASSUME NEW a \in Attempt PROVE EasesRow(hold[a], Released(hold[a]))
  BY ReleasedTyped DEF EasesRow, BudgetTyped
<1>4. ASSUME NEW a \in Attempt, Release(a), UNCHANGED <<ledger, day>> PROVE Eases
  <2>1. hold'[a] = Released(hold[a]) /\ \A b \in Attempt \ {a} : hold'[b] = hold[b]
    BY <1>4 DEF Release, BudgetTyped
  <2> QED BY <1>2, <1>3, <1>4, <2>1
<1>5. ASSUME NEW a \in Attempt, NEW s \in {"in_flight", "unknown"}, hold' = [hold EXCEPT ![a].state = s],
             \/ hold[a].state = "reserved" /\ s = "in_flight"
             \/ hold[a].state = "in_flight" /\ s = "unknown",
             UNCHANGED <<ledger, day>>
      PROVE  Eases
  <2>1. hold'[a] = [hold[a] EXCEPT !.state = s] /\ \A b \in Attempt \ {a} : hold'[b] = hold[b]
    BY <1>5 DEF BudgetTyped
  <2>2. EasesRow(hold[a], hold'[a])
    BY <1>5, <2>1 DEF EasesRow, BudgetTyped, Hold
  <2> QED BY <1>2, <1>5, <2>1, <2>2
<1>6. ASSUME NEW a \in Attempt, InvocationStep(a)
      PROVE  Eases \/ Takes(a) \/ (\E used \in Usage : Pays(a, used))
  <2>0. HoldOK(a)
    BY DEF HoldsFollow
  <2>1. CASE Reserve(a)
    BY <2>0, <2>1 DEF Reserve, Takes, HoldOK
  <2>2. CASE Overdrawn(a) \/ Acquire(a) \/ CircuitRefuses(a) \/ AcquireFails(a) \/ DispatchFails(a)
             \/ WithdrawFails(a) \/ (\E outcome \in Outcomes : Report(a, outcome)) \/ ReportFails(a) \/ Die(a)
    BY <1>1, <2>2 DEF Overdrawn, Acquire, CircuitRefuses, AcquireFails, DispatchFails, WithdrawFails, Report,
                      ReportFails, Die, budget
  <2>3. CASE Dispatch(a)
    <3>1. hold[a].state = "reserved"
      BY <2>0, <2>3 DEF Dispatch, HoldOK
    <3> QED BY <1>5, <2>3, <3>1 DEF Dispatch
  <2>4. CASE Withdraw(a) \/ AccountingFails(a)
    BY <1>1, <1>4, <2>4 DEF Withdraw, AccountingFails
  <2>5. ASSUME NEW used \in Usage, Charge(a, used) PROVE Pays(a, used)
    BY <2>0, <2>5 DEF Charge, ChargeLedger, Pays, HoldOK
  <2>6. CASE ChargeUnknown(a)
    <3>1. hold[a].state = "in_flight"
      BY <2>0, <2>6 DEF ChargeUnknown, HoldOK
    <3> QED BY <1>5, <2>6, <3>1 DEF ChargeUnknown
  <2> QED BY <1>6, <2>1, <2>2, <2>3, <2>4, <2>5, <2>6 DEF InvocationStep
<1>7. CASE Recover
  <2>1. \A a \in Attempt : hold'[a] = Released(hold[a])
    BY <1>7 DEF Recover
  <2> QED BY <1>3, <1>7, <2>1 DEF Recover, Eases
<1>8. CASE Midnight
  <2>1. day' \in Day
    BY <1>8, BudgetAssumption DEF Midnight, BudgetTyped, Day
  <2> QED BY <1>8, <2>1 DEF Midnight, Eases, EasesRow, budget
<1>9. CASE Crash \/ ClockStep \/ UNCHANGED allVars
  BY <1>1, <1>9 DEF Crash, ClockStep, allVars, budget
<1> QED BY <1>6, <1>7, <1>8, <1>9 DEF CallNext

(* The definitions the limits are stated with, by the names of their sets. *)
LEMMA Sums ==
    /\ HeldToday = Estimate * Cardinality(Today)
    /\ HeldByRun = Estimate * Cardinality(Run) + Total(Used, Paid)
    /\ Spent(In({"settled"})) = Total(Used, Paid)
    /\ Overrun = Total(Excess, Paid)
  BY DEF HeldToday, HeldByRun, Spent, Overrun, Today, Run, Paid, Used, Excess

(* The same for the next state. *)
LEMMA SumsNext ==
    /\ HeldToday' = Estimate * Cardinality(Today')
    /\ HeldByRun' = Estimate * Cardinality(Run') + Total(Used', Paid')
    /\ Spent(In({"settled"}))' = Total(Used', Paid')
    /\ Overrun' = Total(Excess', Paid')
  BY DEF HeldToday, HeldByRun, Spent, Overrun, Today, Run, Paid, Used, Excess, Total

(* Holding fewer calls holds fewer tokens. *)
LEMMA Scaled ==
    ASSUME NEW m \in Nat, NEW n \in Nat
    PROVE  /\ Estimate * m \in Nat
           /\ m <= n => Estimate * m <= Estimate * n
           /\ Estimate * (m + 1) = Estimate * m + Estimate
  BY BudgetAssumption

(* Finitely many rows are counted, and each counts a natural number. *)
LEMMA Parts ==
    ASSUME BudgetTyped, FinitelyHeld
    PROVE  /\ IsFiniteSet(Today) /\ IsFiniteSet(Run) /\ IsFiniteSet(Paid)
           /\ Cardinality(Today) \in Nat /\ Cardinality(Run) \in Nat
           /\ Total(Used, Paid) \in Nat /\ Total(Excess, Paid) \in Nat
           /\ \A a \in Attempt : Used[a] = hold[a].used /\ Used[a] \in Nat /\ Excess[a] \in Nat
<1>1. Today \subseteq Held /\ Run \subseteq Held /\ Paid \subseteq Held /\ Paid \subseteq Attempt
  BY DEF Today, Run, Paid, Held, In
<1>2. IsFiniteSet(Today) /\ IsFiniteSet(Run) /\ IsFiniteSet(Paid)
  BY <1>1, FS_Subset DEF FinitelyHeld
<1>3. \A a \in Attempt : hold[a].used \in Nat
  BY Words DEF BudgetTyped, Hold
<1>4. \A a \in Attempt : Used[a] = hold[a].used /\ Used[a] \in Nat /\ Excess[a] \in Nat
  BY <1>3, BudgetAssumption DEF Used, Excess
<1>5. \A a \in Paid : Used[a] \in Nat /\ Excess[a] \in Nat
  BY <1>1, <1>4
<1>6. Total(Used, Paid) \in Nat /\ Total(Excess, Paid) \in Nat
  BY <1>2, <1>5, TotalNatural
<1> QED BY <1>2, <1>4, <1>6, FS_CardinalityType

(* A step that eases the budget breaks neither the sum nor a limit. *)
LEMMA EaseKeeps ==
    ASSUME BudgetTyped, BudgetTyped', SumInv, Eases
    PROVE  SumInv'
<1>0. FinitelyHeld /\ Booked /\ NothingAhead /\ WithinLimits
  BY DEF SumInv
<1>1. \A a \in Attempt : /\ hold'[a].day = hold[a].day /\ hold'[a].used = hold[a].used
                          /\ \/ hold'[a].state = hold[a].state
                             \/ hold[a].state = "reserved" /\ hold'[a].state \in {"released", "in_flight"}
                             \/ hold[a].state = "in_flight" /\ hold'[a].state = "unknown"
  BY DEF Eases, EasesRow
<1>2. ledger' = ledger /\ day \in Nat /\ (day' = day \/ (day' \in Day /\ day' = day + 1))
  BY Words DEF Eases, BudgetTyped
<1>3. FinitelyHeld'
  <2>1. Held' \subseteq Held
    BY <1>1 DEF Held
  <2> QED BY <1>0, <2>1, FS_Subset DEF FinitelyHeld
<1>4. NothingAhead'
  <2>1. \A a \in Attempt : hold[a].day \in Nat
    BY Words DEF BudgetTyped, Hold
  <2> QED BY <1>0, <1>1, <1>2, <2>1, Words DEF NothingAhead
<1>5. Today' \subseteq Today /\ Run' \subseteq Run /\ Paid' = Paid
  <2>1. Run' \subseteq Run /\ Paid' = Paid
    BY <1>1 DEF Run, Paid, In
  <2>2. ASSUME NEW a \in Attempt, hold'[a].state = "unknown", hold'[a].day = day', hold[a].state = "unknown"
        PROVE  hold[a].day = day
    <3>1. hold[a].day \in Nat /\ hold[a].day <= day
      BY <1>0, Words DEF NothingAhead, BudgetTyped, Hold
    <3> QED BY <2>2, <3>1, <1>1, <1>2
  <2>3. Today' \subseteq Today
    BY <1>1, <2>2 DEF Today, In
  <2> QED BY <2>1, <2>3
<1>6. Cardinality(Today') <= Cardinality(Today) /\ Cardinality(Run') <= Cardinality(Run)
  BY <1>0, <1>5, Parts, FS_Subset
<1>7. Total(Used', Paid') = Total(Used, Paid) /\ Total(Excess', Paid') = Total(Excess, Paid)
  <2>1. \A a \in Paid : Used'[a] = Used[a] /\ Excess'[a] = Excess[a]
    BY <1>1 DEF Used, Excess, Paid, In
  <2> QED BY <2>1, <1>5, TotalAgrees
<1>8. Booked'
  BY <1>0, <1>2, <1>7, Sums, SumsNext DEF Booked, Total
<1>9. ledger'[day'] <= ledger[day] /\ ledger'[day'] \in Nat /\ ledger[day] \in Nat
  <2>1. ledger[day] \in Nat
    BY DEF BudgetTyped
  <2>2. day' = day \/ ledger[day'] = 0
    BY <1>0, <1>2 DEF NothingAhead
  <2> QED BY <1>2, <2>1, <2>2
<1>10. /\ Cardinality(Today) \in Nat /\ Cardinality(Run) \in Nat
       /\ Cardinality(Today') \in Nat /\ Cardinality(Run') \in Nat
       /\ Total(Used, Paid) \in Nat /\ Total(Excess, Paid) \in Nat
  <2>1. IsFiniteSet(Today) /\ IsFiniteSet(Run)
    BY <1>0, Parts
  <2>2. IsFiniteSet(Today') /\ IsFiniteSet(Run')
    BY <2>1, <1>5, FS_Subset
  <2> QED BY <1>0, <2>2, Parts, FS_CardinalityType
<1>11. /\ Estimate * Cardinality(Today') <= Estimate * Cardinality(Today)
       /\ Estimate * Cardinality(Run') <= Estimate * Cardinality(Run)
       /\ Estimate * Cardinality(Today) \in Nat /\ Estimate * Cardinality(Run) \in Nat
       /\ Estimate * Cardinality(Today') \in Nat /\ Estimate * Cardinality(Run') \in Nat
  BY <1>6, <1>10, Scaled
<1>12. WithinLimits'
  BY <1>0, <1>7, <1>9, <1>10, <1>11, Sums, SumsNext, BudgetAssumption DEF WithinLimits
<1> QED BY <1>3, <1>4, <1>8, <1>12 DEF SumInv

(* A reservation that the limits allow, and that no other caller sees later than this step. *)
LEMMA TakeKeeps ==
    ASSUME BudgetTyped, BudgetTyped', SumInv, NEW a \in Attempt, Takes(a)
    PROVE  SumInv'
<1>0. FinitelyHeld /\ Booked /\ NothingAhead /\ WithinLimits /\ Affordable
  BY DEF SumInv, Takes
<1>1. /\ hold[a].state = "absent" /\ hold'[a].state = "reserved" /\ hold'[a].day = day
      /\ \A b \in Attempt \ {a} : hold'[b] = hold[b]
      /\ ledger' = ledger /\ day' = day /\ day \in Nat
  BY Words DEF Takes, BudgetTyped
<1>2. /\ Held' = Held \union {a} /\ Today' = Today \union {a} /\ Run' = Run \union {a} /\ Paid' = Paid
      /\ a \notin Today /\ a \notin Run /\ a \notin Paid
  BY <1>1 DEF Held, Today, Run, Paid, In
<1>3. FinitelyHeld'
  BY <1>0, <1>2, FS_AddElement DEF FinitelyHeld
<1>4. NothingAhead'
  BY <1>0, <1>1 DEF NothingAhead
<1>5. Total(Used', Paid') = Total(Used, Paid) /\ Total(Excess', Paid') = Total(Excess, Paid)
  <2>1. \A b \in Paid : Used'[b] = Used[b] /\ Excess'[b] = Excess[b]
    BY <1>1, <1>2 DEF Used, Excess, Paid, In
  <2> QED BY <2>1, <1>2, TotalAgrees
<1>6. Booked'
  BY <1>0, <1>1, <1>5, Sums, SumsNext DEF Booked, Total
<1>7. /\ Cardinality(Today) \in Nat /\ Cardinality(Run) \in Nat
      /\ Total(Used, Paid) \in Nat /\ Total(Excess, Paid) \in Nat
      /\ Cardinality(Today') = Cardinality(Today) + 1 /\ Cardinality(Run') = Cardinality(Run) + 1
  BY <1>0, <1>2, Parts, FS_AddElement
<1>8. /\ Estimate * Cardinality(Today') = Estimate * Cardinality(Today) + Estimate
      /\ Estimate * Cardinality(Run') = Estimate * Cardinality(Run) + Estimate
      /\ Estimate * Cardinality(Today) \in Nat /\ Estimate * Cardinality(Run) \in Nat
  BY <1>7, Scaled
<1>9. ledger[day] \in Nat
  BY DEF BudgetTyped
<1>10. WithinLimits'
  BY <1>0, <1>1, <1>5, <1>7, <1>8, <1>9, Sums, SumsNext, BudgetAssumption DEF WithinLimits, Affordable
<1> QED BY <1>3, <1>4, <1>6, <1>10 DEF SumInv

(* The ledger grows by what its day is charged with. *)
LEMMA LedgerGrows ==
    ASSUME BudgetTyped, NEW used \in Nat, ledger' = [ledger EXCEPT ![day] = @ + used]
    PROVE  Total(ledger', Day) = Total(ledger, Day) + used
<1> DEFINE others == Day \ {day}
           was == ledger[day]
<1>1. IsFiniteSet(Day)
  <2>1. 0 \in Int /\ LastDay \in Int
    BY BudgetAssumption
  <2> QED BY <2>1, FS_Interval DEF Day
<1>2. IsFiniteSet(others) /\ day \notin others /\ Day = others \union {day}
  BY <1>1, FS_RemoveElement DEF BudgetTyped
<1>3. /\ \A d \in others : ledger[d] \in Nat /\ ledger'[d] = ledger[d] /\ ledger'[d] \in Nat
      /\ was \in Nat /\ ledger'[day] = was + used /\ ledger'[day] \in Nat
  BY DEF BudgetTyped
<1> HIDE DEF others, was
<1>4. Total(ledger, others \union {day}) = Total(ledger, others) + ledger[day]
  BY <1>2, <1>3, TotalAdd DEF was
<1>5. Total(ledger', others \union {day}) = Total(ledger', others) + ledger'[day]
  BY <1>2, <1>3, TotalAdd
<1>6. Total(ledger', others) = Total(ledger, others) /\ Total(ledger, others) \in Nat
  BY <1>2, <1>3, TotalAgrees, TotalNatural
<1>7. Total(ledger', Day) = Total(ledger', others) + ledger'[day]
  BY <1>2, <1>5
<1>8. Total(ledger, Day) = Total(ledger, others) + was
  BY <1>2, <1>4 DEF was
<1> QED BY <1>3, <1>6, <1>7, <1>8

(* A payment moves the call from what is held to what is spent, in one transaction. *)
LEMMA PayKeeps ==
    ASSUME BudgetTyped, BudgetTyped', SumInv, NEW a \in Attempt, NEW used \in Usage, Pays(a, used)
    PROVE  SumInv'
<1>0. FinitelyHeld /\ Booked /\ NothingAhead /\ WithinLimits /\ used \in Nat
  BY BudgetAssumption DEF SumInv
<1>1. /\ hold[a].state = "in_flight" /\ hold'[a].state = "settled" /\ hold'[a].used = used
      /\ hold'[a].day = hold[a].day
      /\ \A b \in Attempt \ {a} : hold'[b] = hold[b]
  BY DEF Pays, BudgetTyped, Hold
<1>2. ledger' = [ledger EXCEPT ![day] = @ + used] /\ day' = day /\ day \in Nat
  BY Words DEF Pays, BudgetTyped
<1>3. /\ Held' = Held /\ Today = Today' \union {a} /\ Run = Run' \union {a} /\ Paid' = Paid \union {a}
      /\ a \notin Today' /\ a \notin Run' /\ a \notin Paid /\ Paid \subseteq Attempt
  BY <1>1, <1>2 DEF Held, Today, Run, Paid, In
<1>4. FinitelyHeld'
  BY <1>0, <1>3 DEF FinitelyHeld
<1>5. NothingAhead'
  BY <1>0, <1>1, <1>2 DEF NothingAhead, BudgetTyped
<1>6. /\ IsFiniteSet(Today') /\ IsFiniteSet(Run') /\ IsFiniteSet(Paid)
      /\ Cardinality(Today') \in Nat /\ Cardinality(Run') \in Nat
      /\ Total(Used, Paid) \in Nat /\ Total(Excess, Paid) \in Nat
  <2>1. IsFiniteSet(Today) /\ IsFiniteSet(Run) /\ IsFiniteSet(Paid)
    BY <1>0, Parts
  <2>2. IsFiniteSet(Today') /\ IsFiniteSet(Run')
    BY <1>3, <2>1, FS_Subset
  <2> QED BY <1>0, <2>1, <2>2, Parts, FS_CardinalityType
<1>7. Cardinality(Today) = Cardinality(Today') + 1 /\ Cardinality(Run) = Cardinality(Run') + 1
  BY <1>3, <1>6, FS_AddElement
<1>8. /\ Estimate * Cardinality(Today) = Estimate * Cardinality(Today') + Estimate
      /\ Estimate * Cardinality(Run) = Estimate * Cardinality(Run') + Estimate
      /\ Estimate * Cardinality(Today') \in Nat /\ Estimate * Cardinality(Run') \in Nat
  BY <1>6, <1>7, Scaled
<1> DEFINE over == IF used > Estimate THEN used - Estimate ELSE 0
<1>9. over \in Nat /\ used <= Estimate + over
  BY <1>0, BudgetAssumption
<1>10. /\ \A b \in Paid : Used'[b] = Used[b] /\ Excess'[b] = Excess[b]
       /\ Used'[a] = used /\ Excess'[a] = over
  BY <1>1, <1>3 DEF Used, Excess
<1>11. \A b \in Paid : Used[b] \in Nat /\ Excess[b] \in Nat
  BY <1>0, <1>3, Parts
<1> HIDE DEF over
<1>12. Total(Used', Paid') = Total(Used, Paid) + used
  <2>1. Total(Used', Paid) = Total(Used, Paid)
    BY <1>10, TotalAgrees
  <2>2. Total(Used', Paid \union {a}) = Total(Used', Paid) + Used'[a]
    BY <1>0, <1>3, <1>6, <1>10, <1>11, TotalAdd
  <2> QED BY <2>1, <2>2, <1>3, <1>10
<1>13. Total(Excess', Paid') = Total(Excess, Paid) + over
  <2>1. Total(Excess', Paid) = Total(Excess, Paid)
    BY <1>10, TotalAgrees
  <2>2. Total(Excess', Paid \union {a}) = Total(Excess', Paid) + Excess'[a]
    BY <1>3, <1>6, <1>9, <1>10, <1>11, TotalAdd
  <2> QED BY <2>1, <2>2, <1>3, <1>10
<1>14. Booked'
  <2>1. Total(ledger', Day) = Total(ledger, Day) + used
    BY <1>0, <1>2, LedgerGrows
  <2>2. Total(ledger, Day) = Total(Used, Paid)
    BY <1>0, Sums DEF Booked
  <2>3. Booked' <=> Total(ledger', Day) = Total(Used', Paid')
    BY SumsNext DEF Booked, Total
  <2> QED BY <2>1, <2>2, <2>3, <1>12
<1>15. WithinLimits'
  <2>1. ledger[day] \in Nat /\ ledger'[day'] = ledger[day] + used
    BY <1>2 DEF BudgetTyped
  <2> QED BY <2>1, <1>0, <1>6, <1>8, <1>9, <1>12, <1>13, Sums, SumsNext, BudgetAssumption DEF WithinLimits
<1> QED BY <1>4, <1>5, <1>14, <1>15 DEF SumInv

(***************************************************************************)
(* The sums hold at every moment.                                          *)
(***************************************************************************)
LEMMA SumsAlways == CallSafe => []SumInv
<1>1. CallInit => SumInv
  <2> SUFFICES ASSUME CallInit PROVE SumInv
    OBVIOUS
  <2>1. Held = {} /\ Today = {} /\ Run = {} /\ Paid = {}
    BY DEF CallInit, BudgetInit, Held, Today, Run, Paid, In
  <2>2. FinitelyHeld /\ Cardinality(Today) = 0 /\ Cardinality(Run) = 0
    BY <2>1, FS_EmptySet DEF FinitelyHeld
  <2>3. Total(Used, Paid) = 0 /\ Total(Excess, Paid) = 0
    BY <2>1, TotalEmpty
  <2>4. Total(ledger, Day) = 0
    <3>1. ledger = [d \in Day |-> 0]
      BY DEF CallInit, BudgetInit
    <3>2. UNION {{d} \X (1..ledger[d]) : d \in Day} = {}
      BY <3>1
    <3> QED BY <3>2, FS_EmptySet DEF Total
  <2>5. Booked
    BY <2>3, <2>4, Sums DEF Booked
  <2>6. NothingAhead
    BY Words DEF CallInit, BudgetInit, NothingAhead
  <2>7. day \in Day /\ ledger[day] = 0
    BY Words DEF CallInit, BudgetInit
  <2>8. WithinLimits
    BY <2>2, <2>3, <2>7, Sums, BudgetAssumption DEF WithinLimits
  <2> QED BY <2>2, <2>5, <2>6, <2>8 DEF SumInv
<1>2. /\ BudgetTyped /\ BudgetTyped' /\ HoldsFollow /\ SumInv /\ [CallNext]_allVars => SumInv'
  BY BudgetMoves, EaseKeeps, TakeKeeps, PayKeeps
<1> QED BY <1>1, <1>2, HoldsAlways, PTL DEF CallSafe

(***************************************************************************)
(* WithinLimits: two callers that check the limit at the same time cannot  *)
(* both pass it.  reserve() reads what is spent and what is held in the    *)
(* transaction that inserts, so the day and the run exceed their limits    *)
(* only by what providers report beyond the estimate, whatever fails,      *)
(* crashes or is recovered meanwhile, and across midnight.                 *)
(***************************************************************************)
THEOREM LimitsHold == CallSafe => []WithinLimits
<1>1. SumInv => WithinLimits
  BY DEF SumInv
<1> QED BY <1>1, SumsAlways, PTL

(***************************************************************************)
(* AccountedOnce: what was dispatched is paid for or held while its        *)
(* callback lives and after any answer on its permit, and the ledger shows *)
(* the use of the settled calls, each of them once.                        *)
(***************************************************************************)
THEOREM Accounted == CallSafe => []AccountedOnce
<1>1. TypeOK /\ HoldsFollow /\ SumInv => AccountedOnce
  BY DEF HoldsFollow, HoldOK, Out, Answers, Outcomes, SumInv, Booked, AccountedOnce
<1> QED BY <1>1, HoldsAlways, SumsAlways, PTL

(***************************************************************************)
(* DispatchedStaysHeld: neither a callback nor the engine that starts      *)
(* after a crash gives up what a dispatched call may have cost.            *)
(***************************************************************************)
THEOREM StaysHeld == CallSafe => DispatchedStaysHeld
<1> DEFINE Keeps ==
      \A a \in Attempt :
          /\ hold[a].state \in {"in_flight", "unknown"} => hold'[a].state \in {"in_flight", "unknown", "settled"}
          /\ hold[a].state = "settled" => hold'[a] = hold[a]
<1>1. BudgetTyped /\ BudgetTyped' /\ HoldsFollow /\ [CallNext]_allVars => Keeps
  <2> SUFFICES ASSUME BudgetTyped, BudgetTyped', HoldsFollow, [CallNext]_allVars PROVE Keeps
    OBVIOUS
  <2>0. hold \in [Attempt -> Hold] /\ hold' \in [Attempt -> Hold]
    BY DEF BudgetTyped
  <2>1. CASE Eases
    <3> SUFFICES ASSUME NEW a \in Attempt, EasesRow(hold[a], hold'[a])
                 PROVE  /\ hold[a].state \in {"in_flight", "unknown"}
                              => hold'[a].state \in {"in_flight", "unknown", "settled"}
                        /\ hold[a].state = "settled" => hold'[a] = hold[a]
      BY <2>1 DEF Eases
    <3> QED BY <2>0 DEF EasesRow, Hold
  <2>2. CASE \E a \in Attempt : Takes(a) \/ (\E used \in Usage : Pays(a, used))
    BY <2>0, <2>2 DEF Takes, Pays, Hold
  <2> QED BY <2>1, <2>2, BudgetMoves
<1> QED BY <1>1, HoldsAlways, PTL DEF CallSafe, DispatchedStaysHeld
=============================================================================
