------------------------------- MODULE Breaker -------------------------------
(***************************************************************************)
(* The data of one CircuitBreaker (production/circuit_breaker.py) and what *)
(* each block under its lock does to it.                                   *)
(***************************************************************************)
EXTENDS Integers

CONSTANTS failure_threshold, recovery_timeout     \* the timeout in clock ticks

ASSUME ThresholdAssumption == failure_threshold \in Nat \ {0}
ASSUME TimeoutAssumption   == recovery_timeout \in Nat

\* _failure_count is only compared with the threshold and counts up to it
\* here; `elapsed` is the time since _last_failure_time, up to the timeout.
Breakers == [state : {"CLOSED", "OPEN", "HALF_OPEN"},
             failure_count : 0 .. failure_threshold,
             elapsed : 0 .. recovery_timeout]

NewBreaker == [state |-> "CLOSED", failure_count |-> 0, elapsed |-> recovery_timeout]

\* Mutant: the failures are forgotten when the probe starts.
ReadForgets(b) == IF b.state = "OPEN" /\ b.elapsed >= recovery_timeout
                  THEN [b EXCEPT !.state = "HALF_OPEN", !.failure_count = 0] ELSE b

\* Mutant: the timeout is never looked at.
ReadStays(b) == b

\* The state property: reading it moves an OPEN circuit whose timeout is over.
Read(b) == IF b.state = "OPEN" /\ b.elapsed >= recovery_timeout
           THEN [b EXCEPT !.state = "HALF_OPEN"] ELSE b

_on_success(b) == [state |-> "CLOSED", failure_count |-> 0, elapsed |-> b.elapsed]

\* Mutant: the circuit opens after the threshold, not at it.
FailureOpensLate(b) ==
    [b EXCEPT !.state = IF b.failure_count >= failure_threshold THEN "OPEN" ELSE @,
              !.failure_count = IF @ < failure_threshold THEN @ + 1 ELSE @,
              !.elapsed = 0]

_on_failure(b) ==
    LET count == IF b.failure_count < failure_threshold
                 THEN b.failure_count + 1 ELSE b.failure_count
    IN  [state |-> IF count >= failure_threshold THEN "OPEN" ELSE b.state,
         failure_count |-> count, elapsed |-> 0]

Aged(b) == [b EXCEPT !.elapsed = IF @ < recovery_timeout THEN @ + 1 ELSE @]
=============================================================================
