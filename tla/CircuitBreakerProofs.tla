------------------------ MODULE CircuitBreakerProofs ------------------------
(***************************************************************************)
(* Theorems about CircuitBreaker, for any callers and any threshold.       *)
(* CountMatchesState is inductive once the types are known, and so is      *)
(* HalfOpenIsProbed: the only way into HALF_OPEN puts a call inside, and   *)
(* any call that leaves HALF_OPEN ends it.                                 *)
(***************************************************************************)
EXTENDS CircuitBreaker, TLAPS

\* Every variable keeps its type, whatever the callers do.
THEOREM TypeCorrectness == Spec => []TypeOK
<1> USE ThresholdAssumption DEF TypeOK
<1>1. Init => TypeOK
  BY DEF Init
<1>2. TypeOK /\ [Next]_circuit => TypeOK'
  <2> SUFFICES ASSUME TypeOK, [Next]_circuit
               PROVE  TypeOK'
    OBVIOUS
  <2>1. ASSUME NEW c \in Callers, Admit(c)
        PROVE  TypeOK'
    BY <2>1 DEF Admit, Enters
  <2>2. ASSUME NEW c \in Callers, Probe(c)
        PROVE  TypeOK'
    BY <2>2 DEF Probe, Enters
  <2>3. ASSUME NEW c \in Callers, Succeed(c)
        PROVE  TypeOK'
    BY <2>3 DEF Succeed, Leaves, OnSuccess
  <2>4. ASSUME NEW c \in Callers, Fail(c)
        PROVE  TypeOK'
    <3>1. inside' \in [Callers -> {"no", "closed", "half_open"}]
      BY <2>4 DEF Fail, Leaves
    <3>2. failures' \in 0 .. Threshold
      BY <2>4 DEF Fail, OnFailure
    <3>3. state' \in {"closed", "open", "half_open"} /\ cooled' \in BOOLEAN
      BY <2>4 DEF Fail, OnFailure
    <3> QED
      BY <3>1, <3>2, <3>3
  <2>5. CASE Cool
    BY <2>5 DEF Cool
  <2>6. CASE UNCHANGED circuit
    BY <2>6 DEF circuit
  <2> QED
    BY <2>1, <2>2, <2>3, <2>4, <2>5, <2>6 DEF Next
<1> QED
  BY <1>1, <1>2, PTL DEF Spec

\* The circuit is closed exactly while the count is below the threshold: the booking goes
\* by the state it finds, and still never leaves a closed circuit with a full count or an
\* open one with a count that is not.
THEOREM CountKept == Spec => []CountMatchesState
<1> USE ThresholdAssumption DEF CountMatchesState
<1>1. Init => CountMatchesState
  BY DEF Init
<1>2. TypeOK /\ CountMatchesState /\ [Next]_circuit => CountMatchesState'
  <2> SUFFICES ASSUME TypeOK, CountMatchesState, [Next]_circuit
               PROVE  CountMatchesState'
    OBVIOUS
  <2>1. ASSUME NEW c \in Callers, Admit(c)
        PROVE  CountMatchesState'
    BY <2>1 DEF Admit
  <2>2. ASSUME NEW c \in Callers, Probe(c)
        PROVE  CountMatchesState'
    BY <2>2 DEF Probe
  <2>3. ASSUME NEW c \in Callers, Succeed(c)
        PROVE  CountMatchesState'
    BY <2>3 DEF Succeed, OnSuccess
  <2>4. ASSUME NEW c \in Callers, Fail(c)
        PROVE  CountMatchesState'
    BY <2>4 DEF Fail, OnFailure, TypeOK
  <2>5. CASE Cool
    BY <2>5 DEF Cool
  <2>6. CASE UNCHANGED circuit
    BY <2>6 DEF circuit
  <2> QED
    BY <2>1, <2>2, <2>3, <2>4, <2>5, <2>6 DEF Next
<1> QED
  BY <1>1, <1>2, TypeCorrectness, PTL DEF Spec

\* While the circuit is HALF_OPEN a call that was let in as its test is in flight, so its
\* result will close the circuit or open it again.
THEOREM ProbeInFlight == Spec => []HalfOpenIsProbed
<1> USE DEF HalfOpenIsProbed
<1>1. Init => HalfOpenIsProbed
  BY DEF Init
<1>2. TypeOK /\ HalfOpenIsProbed /\ [Next]_circuit => HalfOpenIsProbed'
  <2> SUFFICES ASSUME TypeOK, HalfOpenIsProbed, [Next]_circuit, state' = "half_open"
               PROVE  \E c \in Callers : inside'[c] = "half_open"
    OBVIOUS
  <2>1. ASSUME NEW c \in Callers, Admit(c)
        PROVE  inside'[c] = "half_open"
    BY <2>1 DEF Admit, Enters, TypeOK
  <2>2. ASSUME NEW c \in Callers, Probe(c)
        PROVE  inside'[c] = "half_open"
    BY <2>2 DEF Probe, Enters, TypeOK
  <2>3. ASSUME NEW c \in Callers, Succeed(c)
        PROVE  FALSE
    BY <2>3 DEF Succeed, OnSuccess
  <2>4. ASSUME NEW c \in Callers, Fail(c)
        PROVE  FALSE
    BY <2>4 DEF Fail, OnFailure
  <2>5. CASE Cool
    BY <2>5 DEF Cool
  <2>6. CASE UNCHANGED circuit
    BY <2>6 DEF circuit
  <2> QED
    BY <2>1, <2>2, <2>3, <2>4, <2>5, <2>6 DEF Next
<1> QED
  BY <1>1, <1>2, TypeCorrectness, PTL DEF Spec
=============================================================================
