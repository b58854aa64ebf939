--------------------------- MODULE CircuitBreaker ---------------------------
(***************************************************************************)
(* mcp_monitor/production/circuit_breaker.py under concurrent callers.     *)
(* Each block under the lock is one step; the protected function runs      *)
(* outside the lock, so calls of other threads come between its start and  *)
(* its outcome.                                                            *)
(***************************************************************************)
EXTENDS Breaker

CONSTANTS Threads,      \* threads that use the breaker
          HasFallback   \* call() is given a fallback

ASSUME FallbackAssumption == HasFallback \in BOOLEAN

VARIABLES
    breaker,            \* the CircuitBreaker
    pc,                 \* per thread: "idle", "running", "failed"
    answer,             \* per thread: how its last call() ended
    healthy             \* TRUE once the protected function has stopped failing

breakerVars == <<breaker, pc, answer, healthy>>

Answers == {"none", "value", "fallback", "CircuitOpenError", "raised"}

BreakerInit ==
    /\ breaker = NewBreaker
    /\ pc = [t \in Threads |-> "idle"] /\ answer = [t \in Threads |-> "none"]
    /\ healthy = FALSE

Ends(t, a) == pc' = [pc EXCEPT ![t] = "idle"] /\ answer' = [answer EXCEPT ![t] = a]

\* call(): refused while the circuit is open, else the function is started.
call(t) ==
    /\ pc[t] = "idle" /\ breaker' = Read(breaker)
    /\ \/ breaker'.state = "OPEN" /\ HasFallback /\ Ends(t, "fallback")
       \/ breaker'.state = "OPEN" /\ ~HasFallback /\ Ends(t, "CircuitOpenError")
       \/ breaker'.state # "OPEN" /\ pc' = [pc EXCEPT ![t] = "running"] /\ UNCHANGED answer
    /\ UNCHANGED healthy

succeed(t) == /\ pc[t] = "running" /\ breaker' = _on_success(breaker)
              /\ Ends(t, "value") /\ UNCHANGED healthy

fail(t) == /\ pc[t] = "running" /\ ~healthy /\ breaker' = _on_failure(breaker)
           /\ pc' = [pc EXCEPT ![t] = "failed"] /\ UNCHANGED <<answer, healthy>>

\* The end of the except branch: the fallback if the circuit is open by now.
after_failure(t) ==
    /\ pc[t] = "failed"
    /\ breaker' = IF HasFallback THEN Read(breaker) ELSE breaker
    /\ Ends(t, IF HasFallback /\ breaker'.state = "OPEN" THEN "fallback" ELSE "raised")
    /\ UNCHANGED healthy

\* Any reader of the state property (the /v1/metrics handler) moves it too.
read_state == breaker' = Read(breaker) /\ UNCHANGED <<pc, answer, healthy>>

reset == breaker' = NewBreaker /\ UNCHANGED <<pc, answer, healthy>>

Elapse == /\ breaker.elapsed < recovery_timeout /\ breaker' = Aged(breaker)
          /\ UNCHANGED <<pc, answer, healthy>>

\* The cause of the failures goes away.
Heal == ~healthy /\ healthy' = TRUE /\ UNCHANGED <<breaker, pc, answer>>

BreakerNext ==
    \/ \E t \in Threads : call(t) \/ succeed(t) \/ fail(t) \/ after_failure(t)
    \/ read_state \/ reset \/ Elapse \/ Heal

BreakerSpec == BreakerInit /\ [][BreakerNext]_breakerVars

\* Time passes, started calls end, and callers keep calling.
Calling(t) == call(t) \/ succeed(t) \/ after_failure(t)

BreakerFairness == /\ WF_breakerVars(Elapse)
                   /\ \A t \in Threads : WF_breakerVars(Calling(t))
-----------------------------------------------------------------------------
\* Every variable holds a value of its kind.
BreakerTypeOK ==
    /\ breaker \in Breakers
    /\ pc \in [Threads -> {"idle", "running", "failed"}]
    /\ answer \in [Threads -> Answers]
    /\ healthy \in BOOLEAN

\* Whatever the order in which concurrent calls end, the circuit is closed
\* exactly while fewer than failure_threshold calls in a row have failed
\* ("Number of consecutive failures before opening", circuit_breaker.py:32).
ClosedIffBelowThreshold ==
    breaker.state = "CLOSED" <=> breaker.failure_count < failure_threshold

\* The breaker and its callers are of their kinds, and the state agrees with the
\* count of failures that the last steps under the lock have left.
BreakerInv == BreakerTypeOK /\ ClosedIffBelowThreshold

\* A probe that fails opens the circuit again at once, with the whole timeout
\* to run: the failures that opened it first are not forgotten.
FailedProbeReopens ==
    [][\A t \in Threads : breaker.state = "HALF_OPEN" /\ fail(t)
            => breaker'.state = "OPEN" /\ breaker'.elapsed = 0]_breakerVars

\* An open circuit is closed only by a probe or by reset(): from OPEN the next
\* state is HALF_OPEN ("opening the circuit after consecutive errors, then
\* probing with half-open state after a timeout", circuit_breaker.py:3-4).
ClosedOnlyByProbe ==
    [][breaker.state = "OPEN" /\ breaker'.state = "CLOSED" => reset]_breakerVars

\* Once the function has stopped failing the circuit closes for good: no
\* history of failures and no order of late answers leaves it open for ever.
Recovers == healthy ~> [](breaker.state = "CLOSED")
=============================================================================
