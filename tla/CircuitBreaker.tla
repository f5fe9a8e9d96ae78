--------------------------- MODULE CircuitBreaker ---------------------------
(***************************************************************************)
(* The circuit breaker of app/infra/circuit_breaker.py for one domain.     *)
(*                                                                         *)
(* call() decides, runs the coroutine and books its result.  The lock is   *)
(* never held across an await, so it is never contended: the decision is   *)
(* one step, and so are the end of the coroutine and its booking.  What    *)
(* interleaves is the coroutines.                                          *)
(*                                                                         *)
(* A breaker belongs to one job.  Its calls are cancelled all together     *)
(* with that job, so no call is cancelled in a circuit that lives on.      *)
(***************************************************************************)
EXTENDS Naturals

CONSTANTS
  Callers,     \* who may be inside call() at the same time
  Threshold    \* failures that open the circuit

ASSUME ThresholdAssumption == Threshold \in Nat \ {0}

VARIABLES
  state,       \* CircuitState
  failures,    \* failure_count, as far as the threshold: beyond it nothing looks at it
  cooled,      \* the timeout has passed since last_failure_time
  inside       \* how each caller was let in: "no" when it is not inside call()

circuit == <<state, failures, cooled, inside>>

TypeOK ==
  /\ state \in {"closed", "open", "half_open"}
  /\ failures \in 0 .. Threshold
  /\ cooled \in BOOLEAN
  /\ inside \in [Callers -> {"no", "closed", "half_open"}]

Init ==
  /\ state = "closed"
  /\ failures = 0
  /\ cooled = TRUE
  /\ inside = [c \in Callers |-> "no"]

-----------------------------------------------------------------------------
(***************************************************************************)
(* The decision.                                                           *)
(***************************************************************************)
ShouldAttemptReset_Bug == cooled /\ failures < Threshold

ShouldAttemptReset == cooled

\* CircuitOpenError: the caller is turned away and nothing is booked.
Rejects == state = "open" /\ ~ShouldAttemptReset

Enters(c, as) ==
  /\ inside[c] = "no"
  /\ inside' = [inside EXCEPT ![c] = as]

\* A circuit that is HALF_OPEN lets everyone in, like one that is CLOSED.
Admit(c) ==
  /\ state # "open"
  /\ Enters(c, state)
  /\ UNCHANGED <<state, failures, cooled>>

Probe(c) ==
  /\ state = "open"
  /\ ShouldAttemptReset
  /\ state' = "half_open"
  /\ Enters(c, "half_open")
  /\ UNCHANGED <<failures, cooled>>

Call(c) == Admit(c) \/ Probe(c)

-----------------------------------------------------------------------------
(***************************************************************************)
(* The booking.  It goes by the state of the circuit now, not by the one   *)
(* under which the call was let in.                                        *)
(***************************************************************************)
Leaves(c) ==
  /\ inside[c] # "no"
  /\ inside' = [inside EXCEPT ![c] = "no"]

OnSuccess_Bug ==
  \/ /\ state = "half_open"
     /\ failures > 0
     /\ failures' = failures - 1
     /\ state' = IF failures = 1 THEN "closed" ELSE "half_open"
  \/ /\ state # "half_open"
     /\ UNCHANGED <<state, failures>>

OnSuccess ==
  \/ /\ state = "half_open"
     /\ state' = "closed"
     /\ failures' = 0
  \/ /\ state # "half_open"
     /\ UNCHANGED <<state, failures>>

Succeed(c) ==
  /\ Leaves(c)
  /\ OnSuccess
  /\ UNCHANGED cooled

OnFailure_Bug ==
  /\ failures' = IF failures < Threshold THEN failures + 1 ELSE Threshold
  /\ state' = IF state = "half_open" \/ failures' > Threshold THEN "open" ELSE state

OnFailure ==
  /\ failures' = IF failures < Threshold THEN failures + 1 ELSE Threshold
  /\ state' = IF state = "half_open" \/ failures' >= Threshold THEN "open" ELSE state

Fail(c) ==
  /\ Leaves(c)
  /\ OnFailure
  /\ cooled' = FALSE

\* The timeout passes without another failure.
Cool ==
  /\ ~cooled
  /\ cooled' = TRUE
  /\ UNCHANGED <<state, failures, inside>>

Next ==
  \/ \E c \in Callers : Admit(c) \/ Probe(c) \/ Succeed(c) \/ Fail(c)
  \/ Cool

Spec == Init /\ [][Next]_circuit

\* Time passes.  Nobody has to call: the pipeline breaks a crawl off when it is turned away,
\* and no call has to come back.
FairSpec == Spec /\ WF_circuit(Cool)

-----------------------------------------------------------------------------
(***************************************************************************)
(* Properties.                                                             *)
(***************************************************************************)

\* The circuit is closed exactly while fewer failures than the threshold were counted since
\* it last closed, in whatever order the calls that overlap come back: no late failure is
\* booked on a closed circuit without opening it in time, no late success closes one and
\* leaves the count behind.
CountMatchesState == (state = "closed") <=> (failures < Threshold)

\* A circuit that is HALF_OPEN has the call that will decide in flight: it cannot be left
\* there with nobody to close it or open it again.
HalfOpenIsProbed == state = "half_open" => \E c \in Callers : inside[c] = "half_open"

\* A circuit that stays open lets the next caller in sooner or later, whenever it comes:
\* calls that were in flight when it opened fail late and push the reset back, but each of
\* them once, and nobody joins them.
OpenGetsReady == <>[](state = "open") => <>[](state = "open" /\ ShouldAttemptReset)
=============================================================================
