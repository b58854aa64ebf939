------------------------- MODULE CircuitBreakerProofs -------------------------
(***************************************************************************)
(* For every number of threads, threshold and timeout: the types of the    *)
(* circuit breaker, that it is closed exactly below the threshold, and     *)
(* that a failed probe opens it again.                                     *)
(***************************************************************************)
EXTENDS CircuitBreaker, TLAPS

\* The count is below the threshold exactly while the breaker b is closed.
Coherent(b) == b.state = "CLOSED" <=> b.failure_count < failure_threshold

\* Each block under the lock takes a coherent breaker to a coherent one.
LEMMA BreakerBlocks ==
    ASSUME NEW b \in Breakers, Coherent(b)
    PROVE  /\ Read(b) \in Breakers /\ Coherent(Read(b))
           /\ _on_success(b) \in Breakers /\ Coherent(_on_success(b))
           /\ _on_failure(b) \in Breakers /\ Coherent(_on_failure(b))
           /\ Aged(b) \in Breakers /\ Coherent(Aged(b))
  <1>1. /\ Read(b) \in Breakers /\ Coherent(Read(b))
    BY ThresholdAssumption, TimeoutAssumption DEF Breakers, Coherent, Read
  <1>2. _on_success(b) \in Breakers /\ Coherent(_on_success(b))
    BY ThresholdAssumption, TimeoutAssumption DEF Breakers, Coherent, _on_success
  <1>3. _on_failure(b) \in Breakers /\ Coherent(_on_failure(b))
    BY ThresholdAssumption, TimeoutAssumption DEF Breakers, Coherent, _on_failure
  <1>4. Aged(b) \in Breakers /\ Coherent(Aged(b))
    BY ThresholdAssumption, TimeoutAssumption DEF Breakers, Coherent, Aged
  <1> QED BY <1>1, <1>2, <1>3, <1>4

LEMMA NewIsCoherent == NewBreaker \in Breakers /\ Coherent(NewBreaker)
  BY ThresholdAssumption, TimeoutAssumption DEF Breakers, Coherent, NewBreaker

\* A failure of a probe opens the circuit: the count has stayed at the threshold.
LEMMA ProbeFailure ==
    ASSUME NEW b \in Breakers, Coherent(b), b.state = "HALF_OPEN"
    PROVE  _on_failure(b).state = "OPEN" /\ _on_failure(b).elapsed = 0
  BY ThresholdAssumption DEF Breakers, Coherent, _on_failure

-----------------------------------------------------------------------------
\* The inductive invariant: types, and a coherent breaker.
IInv == BreakerTypeOK /\ Coherent(breaker)

LEMMA InitIInv == BreakerInit => IInv
  BY NewIsCoherent DEF BreakerInit, IInv, BreakerTypeOK, Answers

\* No step of any thread, reader or clock leaves the invariant.
LEMMA NextIInv == IInv /\ [BreakerNext]_breakerVars => IInv'
  <1> SUFFICES ASSUME IInv, [BreakerNext]_breakerVars PROVE IInv'
    OBVIOUS
  <1> USE DEF IInv, BreakerTypeOK, Answers
  <1>1. ASSUME NEW t \in Threads, call(t) PROVE IInv'
    <2>1. breaker' = Read(breaker) /\ UNCHANGED healthy
      BY <1>1 DEF call
    <2>2. /\ pc' \in [Threads -> {"idle", "running", "failed"}]
          /\ answer' \in [Threads -> Answers]
      BY <1>1 DEF call, Ends
    <2> QED BY <2>1, <2>2, BreakerBlocks
  <1>2. ASSUME NEW t \in Threads, succeed(t) PROVE IInv'
    BY <1>2, BreakerBlocks DEF succeed, Ends
  <1>3. ASSUME NEW t \in Threads, fail(t) PROVE IInv'
    BY <1>3, BreakerBlocks DEF fail
  <1>4. ASSUME NEW t \in Threads, after_failure(t) PROVE IInv'
    <2>1. breaker' \in {breaker, Read(breaker)} /\ UNCHANGED healthy
      BY <1>4 DEF after_failure
    <2>2. /\ pc' \in [Threads -> {"idle", "running", "failed"}]
          /\ answer' \in [Threads -> Answers]
      BY <1>4 DEF after_failure, Ends
    <2> QED BY <2>1, <2>2, BreakerBlocks
  <1>5. CASE read_state
    BY <1>5, BreakerBlocks DEF read_state
  <1>6. CASE reset
    BY <1>6, NewIsCoherent DEF reset
  <1>7. CASE Elapse
    BY <1>7, BreakerBlocks DEF Elapse
  <1>8. CASE Heal
    BY <1>8 DEF Heal
  <1>9. CASE UNCHANGED breakerVars
    BY <1>9 DEF breakerVars
  <1> QED BY <1>1, <1>2, <1>3, <1>4, <1>5, <1>6, <1>7, <1>8, <1>9 DEF BreakerNext

\* The invariant of every execution.
THEOREM Invariant == BreakerSpec => []IInv
  <1> QED BY InitIInv, NextIInv, PTL DEF BreakerSpec

-----------------------------------------------------------------------------
\* Breaker and callers are well typed, and the circuit is closed exactly while
\* fewer calls in a row have failed than the threshold, in whatever order
\* concurrent calls end (circuit_breaker.py:32, 37-125).
THEOREM BreakerInvariant == BreakerSpec => []BreakerInv
  <1>1. IInv => BreakerInv
    BY DEF IInv, Coherent, BreakerInv, ClosedIffBelowThreshold
  <1> QED BY <1>1, Invariant, PTL

\* A probe that fails opens the circuit at once (circuit_breaker.py:112-118).
THEOREM ProbesReopen == BreakerSpec => FailedProbeReopens
  <1>1. IInv /\ [BreakerNext]_breakerVars =>
            [\A t \in Threads : breaker.state = "HALF_OPEN" /\ fail(t)
                => breaker'.state = "OPEN" /\ breaker'.elapsed = 0]_breakerVars
    BY ProbeFailure DEF IInv, BreakerTypeOK, fail
  <1> QED BY <1>1, Invariant, PTL DEF BreakerSpec, FailedProbeReopens

-----------------------------------------------------------------------------
\* With one caller nothing runs while the circuit is open.
OpenIsQuiet == breaker.state = "OPEN" => \A t \in Threads : pc[t] # "running"

\* Reading never opens a circuit.
LEMMA ReadOpens == ASSUME NEW b, Read(b).state = "OPEN" PROVE b.state = "OPEN" /\ Read(b) = b
  BY DEF Read

LEMMA NextQuiet ==
    ASSUME \A t, u \in Threads : t = u, IInv, OpenIsQuiet, [BreakerNext]_breakerVars
    PROVE  OpenIsQuiet'
  <1> USE DEF IInv, BreakerTypeOK, OpenIsQuiet
  <1>1. ASSUME NEW t \in Threads, call(t) PROVE OpenIsQuiet'
    BY <1>1, ReadOpens DEF call, Ends
  <1>2. ASSUME NEW t \in Threads, succeed(t) PROVE OpenIsQuiet'
    BY <1>2 DEF succeed, Ends, _on_success
  <1>3. ASSUME NEW t \in Threads, fail(t) PROVE OpenIsQuiet'
    BY <1>3 DEF fail
  <1>4. ASSUME NEW t \in Threads, after_failure(t) PROVE OpenIsQuiet'
    <2>1. breaker' \in {breaker, Read(breaker)} /\ \A u \in Threads : pc'[u] = "idle"
      BY <1>4 DEF after_failure, Ends
    <2> QED BY <2>1
  <1>5. CASE read_state
    BY <1>5, ReadOpens DEF read_state
  <1>6. CASE reset
    BY <1>6 DEF reset, NewBreaker
  <1>7. CASE Elapse
    BY <1>7 DEF Elapse, Aged, Breakers
  <1>8. CASE Heal
    BY <1>8 DEF Heal
  <1>9. CASE UNCHANGED breakerVars
    BY <1>9 DEF breakerVars
  <1> QED BY <1>1, <1>2, <1>3, <1>4, <1>5, <1>6, <1>7, <1>8, <1>9 DEF BreakerNext

\* A breaker with one caller, as in the server's event loop, is closed only by
\* a probe or by reset() (circuit_breaker.py:3-4); with two callers it is not.
THEOREM LoopClosesByProbe ==
    ASSUME \A t, u \in Threads : t = u
    PROVE  BreakerSpec => ClosedOnlyByProbe
  <1>1. BreakerInit => OpenIsQuiet
    BY DEF BreakerInit, OpenIsQuiet
  <1>2. IInv /\ OpenIsQuiet /\ [BreakerNext]_breakerVars => OpenIsQuiet'
    BY NextQuiet
  <1>3. IInv /\ OpenIsQuiet /\ [BreakerNext]_breakerVars =>
            [breaker.state = "OPEN" /\ breaker'.state = "CLOSED" => reset]_breakerVars
    <2> SUFFICES ASSUME IInv, OpenIsQuiet, BreakerNext, breaker.state = "OPEN", breaker'.state = "CLOSED"
                 PROVE  reset
      OBVIOUS
    <2>1. ASSUME NEW t \in Threads, call(t) \/ succeed(t) \/ fail(t) \/ after_failure(t)
          PROVE  FALSE
      BY <2>1 DEF OpenIsQuiet, call, succeed, fail, after_failure, Read, IInv, BreakerTypeOK, Breakers
    <2>2. ~read_state /\ ~Elapse /\ ~Heal
      BY DEF read_state, Elapse, Heal, Read, Aged, IInv, BreakerTypeOK, Breakers
    <2> QED BY <2>1, <2>2 DEF BreakerNext
  <1> QED BY <1>1, <1>2, <1>3, Invariant, PTL DEF BreakerSpec, ClosedOnlyByProbe
=============================================================================
