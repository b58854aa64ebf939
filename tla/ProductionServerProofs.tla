------------------------ MODULE ProductionServerProofs ------------------------
(***************************************************************************)
(* The server implements InspectionService, for every number of            *)
(* connections, every mix of requests, with the shadow mode on or off and  *)
(* any of the faults; and its records and counters are what ServerInv,     *)
(* RecordsInv and FlushedIsFinal say.  The argument: one handler at a time *)
(* holds the event loop (LoopInv), and what is logged of a request is what *)
(* its handler has come to (StageInv).                                     *)
(***************************************************************************)
EXTENDS ProductionServer, FiniteSetTheorems, TLAPS

Handled == {"routing", "logged"}

\* The state, but for the counters and the breakers.
StateOK ==
    /\ server \in {"down", "serving", "closing"} /\ shutting_down \in BOOLEAN
    /\ shadow_mode \in BOOLEAN
    /\ loop \in Conns \cup {Nobody} /\ req \in [Conns -> Requests]
    /\ conn \in [Conns -> {"new", "reading", "routing", "logged", "sending", "answered", "closed"}]
    /\ resp \in [Conns -> {"none", "ok"} \cup Inspected \cup Fallbacks \cup Failures]
    /\ wal \subseteq Conns /\ audit \subseteq Conns /\ flushed \subseteq wal

\* The connection on the loop is the one that is handled, by a server that serves.
LoopInv ==
    /\ loop # Nobody => server = "serving" /\ conn[loop] \in Handled
    /\ \A c \in Conns : conn[c] \in Handled => c = loop
    /\ server = "closing" => shutting_down
    /\ server = "down" => /\ loop = Nobody
                          /\ \A c \in Conns : conn[c] \in {"new", "answered", "closed"}

\* What the logs hold of a request, by how far its handler is.
StageInv ==
    /\ \A c \in Conns : conn[c] \in {"new", "reading", "routing"} => c \notin wal
    /\ \A c \in Conns : conn[c] = "logged" => c \in wal \ audit
    /\ \A c \in Conns : conn[c] \in {"sending", "answered"} => Service!Fits(c, resp[c])

ServingInv == StateOK /\ LoopInv
LoggedInv == StageInv /\ RecordsInv /\ FlushedIsFinal

\* The counters and the breakers.
CountsOK ==
    /\ active \in Nat /\ errors \in Nat /\ tokens \in 0 .. burst_size
    /\ breakers \in [Endpoints -> Breakers]
    /\ server # "down" => active = IF loop = Nobody THEN 0 ELSE 1
-----------------------------------------------------------------------------
\* Handlers run one at a time, and none outlives the server (server.py:135-254).
LEMMA Serving == Spec => []ServingInv
<1>1. Init => ServingInv
  BY NobodyAssumption DEF Init, ServingInv, StateOK, LoopInv, Handled, Inspected, Fallbacks, Failures
<1>2. ServingInv /\ [Next]_vars => ServingInv'
  <2> SUFFICES ASSUME ServingInv, [Next]_vars PROVE ServingInv'
    OBVIOUS
  <2> USE NobodyAssumption
      DEF ServingInv, StateOK, LoopInv, Handled, Inspected, Fallbacks, Failures, files, life, Endpoints
  <2>1. ASSUME NEW c \in Conns, Arrive(c) PROVE ServingInv'
    BY <2>1 DEF Arrive
  <2>2. ASSUME NEW c \in Conns, ReadFails(c) PROVE ServingInv'
    BY <2>2 DEF ReadFails
  <2>3. ASSUME NEW c \in Conns, Admit(c) PROVE ServingInv'
    BY <2>3 DEF Admit
  <2>4. ASSUME NEW c \in Conns, Route(c) PROVE ServingInv'
    BY <2>4 DEF Route, Finish, _record_wal_event
  <2>5. ASSUME NEW c \in Conns, Inspect(c) PROVE ServingInv'
    BY <2>5, ConfigAssumption DEF Inspect, Finish, Shadowed
  <2>6. ASSUME NEW c \in Conns, Send(c) PROVE ServingInv'
    BY <2>6 DEF Send
  <2>7. CASE Start
    BY <2>7, ConfigAssumption DEF Start
  <2>8. CASE Tick \/ Signal \/ Cancel
    BY <2>8 DEF Tick, Signal, Cancel
  <2>9. CASE Exit \/ Crash
    BY <2>9 DEF Exit, Crash, Ended
  <2>10. CASE UNCHANGED vars
    BY <2>10 DEF vars
  <2> QED
    BY <2>1, <2>2, <2>3, <2>4, <2>5, <2>6, <2>7, <2>8, <2>9, <2>10 DEF Next, Step
<1> QED
  BY <1>1, <1>2, PTL DEF Spec

\* What Route and Inspect add to the logs and to the responses.
LEMMA Logging == Spec => []LoggedInv
<1> USE DEF LoggedInv, StageInv, RecordsInv, WalBeforeAudit, AnswersAreRecords, FlushedIsFinal,
        Inspected, Fallbacks, Service!Fits, Service!Inspected, Service!Unrecorded, Service!Unnoted
<1>1. Init => LoggedInv
  BY DEF Init
<1>2. ServingInv /\ LoggedInv /\ [Next]_vars => LoggedInv'
  <2> SUFFICES ASSUME ServingInv, LoggedInv, [Next]_vars PROVE LoggedInv'
    OBVIOUS
  <2> USE NobodyAssumption DEF ServingInv, StateOK, LoopInv, Handled, files, life
  <2>1. ASSUME NEW c \in Conns, Arrive(c) PROVE LoggedInv'
    BY <2>1 DEF Arrive
  <2>2. ASSUME NEW c \in Conns, ReadFails(c) PROVE LoggedInv'
    BY <2>2 DEF ReadFails
  <2>3. ASSUME NEW c \in Conns, Admit(c) PROVE LoggedInv'
    BY <2>3 DEF Admit
  <2>4. ASSUME NEW c \in Conns, Route(c) PROVE LoggedInv'
    BY <2>4 DEF Route, Finish, _record_wal_event
  <2>5. ASSUME NEW c \in Conns, Inspect(c) PROVE LoggedInv'
    BY <2>5, ConfigAssumption DEF Inspect, Finish, Shadowed
  <2>6. ASSUME NEW c \in Conns, Send(c) PROVE LoggedInv'
    BY <2>6 DEF Send
  <2>7. CASE Start
    BY <2>7 DEF Start
  <2>8. CASE Tick \/ Signal \/ Cancel
    BY <2>8 DEF Tick, Signal, Cancel
  <2>9. CASE Exit \/ Crash
    BY <2>9 DEF Exit, Crash, Ended
  <2>10. CASE UNCHANGED vars
    BY <2>10 DEF vars
  <2> QED
    BY <2>1, <2>2, <2>3, <2>4, <2>5, <2>6, <2>7, <2>8, <2>9, <2>10 DEF Next, Step
<1> QED
  BY <1>1, <1>2, Serving, PTL DEF Spec

\* The breaker does with a breaker what a breaker allows (circuit_breaker.py:52-118).
LEMMA BreakerKinds ==
    /\ NewBreaker \in Breakers
    /\ \A b \in Breakers : /\ Read(b) \in Breakers /\ Aged(b) \in Breakers
                          /\ _on_success(b) \in Breakers /\ _on_failure(b) \in Breakers
<1> USE ThresholdAssumption, TimeoutAssumption DEF Breakers
<1>1. NewBreaker \in Breakers
  BY DEF NewBreaker
<1>2. ASSUME NEW b \in Breakers
      PROVE /\ Read(b) \in Breakers /\ Aged(b) \in Breakers
            /\ _on_success(b) \in Breakers /\ _on_failure(b) \in Breakers
  BY <1>2 DEF Read, Aged, _on_success, _on_failure
<1> QED
  BY <1>1, <1>2

\* Every request that is started is finished once, on every path through the
\* handlers (server.py:204-236).
LEMMA Counting == Spec => []CountsOK
<1>1. Init => CountsOK
  BY ConfigAssumption, BreakerKinds DEF Init, CountsOK
<1>2. ServingInv /\ CountsOK /\ [Next]_vars => CountsOK'
  <2> SUFFICES ASSUME ServingInv, CountsOK, [Next]_vars PROVE CountsOK'
    OBVIOUS
  <2> USE NobodyAssumption, ConfigAssumption
      DEF CountsOK, ServingInv, StateOK, LoopInv, Handled, files, life
  <2>1. ASSUME NEW c \in Conns, Arrive(c) \/ ReadFails(c) \/ Send(c) PROVE CountsOK'
    BY <2>1 DEF Arrive, ReadFails, Send
  <2>2. ASSUME NEW c \in Conns, Admit(c) PROVE CountsOK'
    BY <2>2 DEF Admit
  <2>3. ASSUME NEW c \in Conns, Route(c) PROVE CountsOK'
    <3>1. conn[c] = "routing" /\ loop = c /\ active = 1
      BY <2>3 DEF Route
    <3>2. active' \in Nat /\ errors' \in Nat /\ (server' # "down" => active' = IF loop' = Nobody THEN 0 ELSE 1)
      BY <2>3, <3>1 DEF Route, Finish
    <3>3. tokens' = tokens /\ breakers' \in [Endpoints -> Breakers]
      BY <2>3, BreakerKinds DEF Route
    <3> QED
      BY <3>2, <3>3
  <2>4. ASSUME NEW c \in Conns, Inspect(c) PROVE CountsOK'
    <3>1. conn[c] = "logged" /\ loop = c /\ active = 1
      BY <2>4 DEF Inspect
    <3>2. active' \in Nat /\ errors' \in Nat /\ (server' # "down" => active' = IF loop' = Nobody THEN 0 ELSE 1)
      BY <2>4, <3>1 DEF Inspect, Finish
    <3>3. tokens' = tokens /\ breakers' \in [Endpoints -> Breakers]
      <4> DEFINE b == Read(breakers[req[c].path])
      <4>1. CASE req[c].path \in Endpoints
        <5>1. b \in Breakers /\ _on_success(b) \in Breakers /\ _on_failure(b) \in Breakers
          BY <4>1, BreakerKinds
        <5>2. Read(_on_failure(b)) \in Breakers
          BY <5>1, BreakerKinds
        <5>3. /\ tokens' = tokens
              /\ \/ breakers' = breakers
                 \/ \E x \in {b, _on_success(b), Read(_on_failure(b))} :
                        breakers' = [breakers EXCEPT ![req[c].path] = x]
          BY <2>4 DEF Inspect
        <5> QED
          BY <5>1, <5>2, <5>3
      <4>2. CASE req[c].path \notin Endpoints
        <5>1. /\ tokens' = tokens
              /\ \/ breakers' = breakers
                 \/ \E x \in {b, _on_success(b), Read(_on_failure(b))} :
                        breakers' = [breakers EXCEPT ![req[c].path] = x]
          BY <2>4 DEF Inspect
        <5> QED
          BY <4>2, <5>1
      <4> QED
        BY <4>1, <4>2
    <3> QED
      BY <3>2, <3>3
  <2>5. CASE Start
    BY <2>5, BreakerKinds DEF Start
  <2>6. CASE Tick
    BY <2>6, BreakerKinds DEF Tick
  <2>7. CASE Signal \/ Cancel
    BY <2>7 DEF Signal, Cancel
  <2>8. CASE Exit \/ Crash
    BY <2>8 DEF Exit, Crash, Ended
  <2>9. CASE UNCHANGED vars
    BY <2>9 DEF vars
  <2> QED
    BY <2>1, <2>2, <2>3, <2>4, <2>5, <2>6, <2>7, <2>8, <2>9 DEF Next, Step
<1> QED
  BY <1>1, <1>2, Serving, PTL DEF Spec
-----------------------------------------------------------------------------
\* Through crashes, shutdowns, failing disks and lost responses an inspected answer
\* has its record and that of an open circuit has none, shadow mode or not, and no
\* request is recorded that was not noted before (server.py:302, 374-387, 428-441).
THEOREM RecordsHold == Spec => []RecordsInv
BY Logging, PTL DEF LoggedInv

\* Nothing is logged after the shutdown has flushed the WAL (shutdown.py:104-130).
THEOREM FlushHolds == Spec => []FlushedIsFinal
BY Logging, PTL DEF LoggedInv

\* The server's variables hold values of their kinds, and the count of active
\* requests is that of the handlers on the loop.
THEOREM ServerCorrect == Spec => []ServerInv
<1>1. ServingInv /\ CountsOK => TypeOK
  BY DEF ServingInv, StateOK, CountsOK, TypeOK
<1>2. ServingInv /\ CountsOK => ActiveIsLoop
  <2> SUFFICES ASSUME ServingInv, CountsOK, server # "down"
               PROVE active = Cardinality({c \in Conns : c = loop})
    BY DEF ActiveIsLoop
  <2>1. CASE loop = Nobody
    <3>1. {c \in Conns : c = loop} = {}
      BY <2>1, NobodyAssumption
    <3> QED
      BY <2>1, <3>1, FS_EmptySet DEF CountsOK
  <2>2. CASE loop # Nobody
    <3>1. {c \in Conns : c = loop} = {loop}
      BY <2>2 DEF ServingInv, StateOK
    <3> QED
      BY <2>2, <3>1, FS_Singleton DEF CountsOK
  <2> QED
    BY <2>1, <2>2
<1> QED
  BY <1>1, <1>2, Serving, Counting, PTL DEF ServerInv

\* What clients can tell of the server is the service: every step of a handler
\* notes a request, records it, gives the answer that fits, or cannot be seen.
THEOREM ServerImplementsService == Spec => ServiceSpec
<1> USE DEF Service!serviceVars
<1>1. Init => Service!ServiceInit
  BY DEF Init, Service!ServiceInit, Heard
<1>2. ServingInv /\ LoggedInv /\ [Next]_vars => [Service!ServiceNext]_(Service!serviceVars)
  <2> SUFFICES ASSUME ServingInv, LoggedInv, [Next]_vars
               PROVE Service!ServiceNext \/ UNCHANGED <<wal, audit, Heard, server = "serving">>
    OBVIOUS
  <2> USE NobodyAssumption DEF ServingInv, StateOK, LoopInv, Handled, LoggedInv, StageInv, files, life
  <2>1. ASSUME NEW c \in Conns, Arrive(c) \/ ReadFails(c) \/ Admit(c)
        PROVE UNCHANGED <<wal, audit, Heard, server = "serving">>
    BY <2>1 DEF Arrive, ReadFails, Admit, Heard
  <2>2. ASSUME NEW c \in Conns, Route(c)
        PROVE Service!Note(c) \/ UNCHANGED <<wal, audit, Heard, server = "serving">>
    BY <2>2 DEF Route, Finish, _record_wal_event, Heard, Service!Note
  <2>3. ASSUME NEW c \in Conns, Inspect(c)
        PROVE Service!Record(c) \/ UNCHANGED <<wal, audit, Heard, server = "serving">>
    BY <2>3 DEF Inspect, Finish, Heard, Service!Record
  <2>4. ASSUME NEW c \in Conns, Send(c)
        PROVE Service!Answer(c) \/ UNCHANGED <<wal, audit, Heard, server = "serving">>
    <3>1. Service!Fits(c, resp[c]) /\ Heard[c] = "none"
      BY <2>4 DEF Send, Heard
    <3>2. resp[c] \in Service!Inspected \cup Service!Unrecorded \cup Service!Unnoted
      BY <3>1 DEF Service!Fits
    <3>3. UNCHANGED <<wal, audit, server = "serving">>
      BY <2>4 DEF Send
    <3>4. CASE conn' = [conn EXCEPT ![c] = "answered"]
      <4>1. Heard' = [Heard EXCEPT ![c] = resp[c]]
        BY <2>4, <3>4 DEF Send, Heard
      <4> QED
        BY <3>1, <3>2, <3>3, <4>1 DEF Service!Answer
    <3>5. CASE conn' = [conn EXCEPT ![c] = "closed"]
      BY <2>4, <3>3, <3>5 DEF Send, Heard
    <3> QED
      BY <2>4, <3>4, <3>5 DEF Send
  <2>5. CASE Start
    BY <2>5 DEF Start, Heard, Service!ServiceNext, Service!Open
  <2>6. CASE Tick \/ Signal \/ UNCHANGED vars
    BY <2>6 DEF Tick, Signal, vars, Heard
  <2>7. CASE Cancel
    BY <2>7 DEF Cancel, Heard, Service!ServiceNext, Service!Close
  <2>8. CASE Exit \/ Crash
    BY <2>8 DEF Exit, Crash, Ended, Heard, Service!ServiceNext, Service!Close
  <2> QED
    BY <2>1, <2>2, <2>3, <2>4, <2>5, <2>6, <2>7, <2>8 DEF Next, Step, Service!ServiceNext
<1> QED
  BY <1>1, <1>2, Serving, Logging, PTL DEF Spec, ServiceSpec, Service!InspectionSpec
=============================================================================
