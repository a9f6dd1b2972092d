--------------------------- MODULE CircuitBreaker ---------------------------
(***************************************************************************)
(* The circuit breaker that the AI router keeps in memory, one circuit per  *)
(* provider (packages/ai/src/circuit-breaker.js).  A circuit is a record    *)
(*   state     "closed", "open" or "half_open"                              *)
(*   openedAt  when it last opened                                          *)
(*   failures  the failures it remembers                                    *)
(* and every method of the class is an operator from a circuit and the      *)
(* clock to the circuit the method leaves behind.  The code remembers only  *)
(* the time of a failure; here a failure also says which attempt (request   *)
(* and position in its candidate list) it belongs to, so that two failures  *)
(* of the same instant stay two members of the set.                         *)
(***************************************************************************)
EXTENDS Integers, FiniteSets

CONSTANTS
    FailureThreshold,   \* FAILURE_THRESHOLD: failures before opening (5)
    FailureWindow,      \* FAILURE_WINDOW_MS (60 s), in ticks
    OpenDuration        \* OPEN_DURATION_MS (30 s), in ticks

ASSUME BreakerAssumption ==
    /\ FailureThreshold \in Nat \ {0}
    /\ FailureWindow \in Nat \ {0}
    /\ OpenDuration \in Nat \ {0}

CircuitStates == {"closed", "open", "half_open"}

NewCircuit == [state |-> "closed", openedAt |-> 0, failures |-> {}]

\* The failures that are still inside the window at time t.
Recent(failures, t) == {f \in failures : t - f.at < FailureWindow}

\* An open circuit that is not due for a probe yet.
Cooling(c, t) == c.state = "open" /\ t - c.openedAt < OpenDuration

\* canPass(): the answer ...
CanPass(c, t) == ~ Cooling(c, t)

\* ... and the transition it makes on the way.
AfterCanPass(c, t) ==
    IF c.state = "open" /\ CanPass(c, t) THEN [c EXCEPT !.state = "half_open"] ELSE c

\* getState() forgets old failures, of a closed circuit only.
AfterGetState(c, t) ==
    IF c.state = "closed" THEN [c EXCEPT !.failures = Recent(c.failures, t)] ELSE c

\* recordSuccess(): from whatever state the circuit is in.
AfterSuccess(c) == [c EXCEPT !.state = "closed", !.failures = {}]

\* Mutant: the circuit opens one failure late.
TripsLate(failures) == Cardinality(failures) > FailureThreshold

Trips(failures) == Cardinality(failures) >= FailureThreshold

\* recordFailure(): a failed probe reopens the circuit at once and is not
\* remembered; any other failure is, also while the circuit is open.
AfterFailure(c, f) ==
    IF c.state = "half_open"
    THEN [c EXCEPT !.state = "open", !.openedAt = f.at]
    ELSE LET kept == Recent(c.failures \union {f}, f.at)
         IN  IF Trips(kept)
             THEN [state |-> "open", openedAt |-> f.at, failures |-> kept]
             ELSE [c EXCEPT !.failures = kept]
=============================================================================
