-------------------------- MODULE ProductionServer --------------------------
(***************************************************************************)
(* mcp_monitor/production/server.py and shutdown.py: the HTTP server, its  *)
(* connections as tasks of one event loop, and its shutdown.  A task runs  *)
(* from one await to the next alone; `loop` names the one that does.       *)
(* The write-ahead log, the audit log and the token bucket have modules of *)
(* their own; here they are the sets of requests they hold and a count.    *)
(***************************************************************************)
EXTENDS Breaker, FiniteSets

CONSTANTS
    Conns,          \* connections, one request each ("Connection: close")
    Requests,       \* the requests clients send, a set of Request
    Dribbling,      \* connections whose client may send header after header for ever
    Faults,         \* of {"disk", "crash", "cancel"}
    ShadowModes,    \* the values of shadow_mode a process may be configured with
    burst_size,     \* capacity of the rate limiter
    Nobody          \* no connection

Paths   == {"health", "ready", "metrics", "inspect_call", "inspect_output", "other"}
Bodies  == {"object", "array", "garbage"}
Request == [path : Paths, authorized : BOOLEAN, body : Bodies]

ASSUME RequestsAssumption == Requests \subseteq Request
ASSUME ConfigAssumption   ==
    /\ Faults \subseteq {"disk", "crash", "cancel"} /\ Dribbling \subseteq Conns
    /\ ShadowModes \subseteq BOOLEAN /\ burst_size \in Nat
ASSUME NobodyAssumption   == Nobody \notin Conns

VARIABLES
    server,         \* "down", "serving", "closing"
    shadow_mode,    \* config.shadow_mode of the process that runs
    shutting_down,  \* GracefulShutdown._shutdown_event
    active,         \* GracefulShutdown._active_requests
    loop,           \* the connection whose handler holds the event loop
    conn,           \* per connection: how far its handler is
    req,            \* per connection: its request
    resp,           \* per connection: the response its handler produced
    tokens,         \* whole tokens in the rate limiter
    breakers,       \* the circuit breaker of each inspection endpoint
    errors,         \* mcp_error_total
    wal, audit,     \* requests recorded in the WAL file, in the audit file
    flushed         \* the WAL as the last checkpoint left it

vars == <<server, shadow_mode, shutting_down, active, loop, conn, req, resp, tokens,
          breakers, errors, wal, audit, flushed>>
files == <<wal, audit, flushed>>
life  == <<server, shadow_mode, shutting_down>>

Endpoints == {"inspect_call", "inspect_output"}

\* The results of an inspection, and those the open circuit gives instead: the
\* latter name it among their findings.  Shadowed, both say "allowed".
Inspected == {"allow", "deny", "shadow_allow"}
Fallbacks == {"fail_closed", "shadow_fail_closed"}
Failures  == {"400", "401", "404", "429", "500", "503"}

Init == /\ server = "down" /\ shadow_mode = FALSE /\ shutting_down = FALSE
        /\ active = 0 /\ loop = Nobody
        /\ conn = [c \in Conns |-> "new"] /\ req \in [Conns -> Requests]
        /\ resp = [c \in Conns |-> "none"]
        /\ tokens = burst_size /\ breakers = [e \in Endpoints |-> NewBreaker]
        /\ errors = 0 /\ wal = {} /\ audit = {} /\ flushed = {}

\* ProductionServer() and start(): recover() is not called.
Start == /\ server = "down" /\ server' = "serving"
         /\ shadow_mode' \in ShadowModes
         /\ shutting_down' = FALSE /\ active' = 0 /\ errors' = 0
         /\ tokens' = burst_size /\ breakers' = [e \in Endpoints |-> NewBreaker]
         /\ UNCHANGED <<loop, conn, req, resp, files>>

Arrive(c) == /\ server = "serving" /\ loop = Nobody /\ conn[c] = "new"
             /\ conn' = [conn EXCEPT ![c] = "reading"]
             /\ UNCHANGED <<life, active, loop, req, resp, tokens, breakers, errors, files>>

\* The request is malformed, too large, late, or its client is gone.
ReadFails(c) ==
    /\ conn[c] = "reading" /\ loop = Nobody
    /\ \/ conn' = [conn EXCEPT ![c] = "closed"] /\ UNCHANGED resp
       \/ conn' = [conn EXCEPT ![c] = "sending"] /\ resp' = [resp EXCEPT ![c] = "400"]
    /\ UNCHANGED <<life, active, loop, req, tokens, breakers, errors, files>>

\* _handle_connection once the request is read, up to request_started().
Admit(c) ==
    LET limited == req[c].path \notin {"health", "ready", "metrics"}
        Refuse(status) == /\ conn' = [conn EXCEPT ![c] = "sending"]
                          /\ resp' = [resp EXCEPT ![c] = status]
                          /\ UNCHANGED <<loop, active>>
    IN  /\ conn[c] = "reading" /\ loop = Nobody
        /\ \/ shutting_down /\ Refuse("503") /\ UNCHANGED <<tokens, errors>>
           \/ ~shutting_down /\ limited /\ tokens = 0 /\ Refuse("429")
              /\ errors' = errors + 1 /\ UNCHANGED tokens
           \/ /\ ~shutting_down /\ (limited => tokens > 0)
              /\ tokens' = IF limited THEN tokens - 1 ELSE tokens
              /\ loop' = c /\ active' = active + 1
              /\ conn' = [conn EXCEPT ![c] = "routing"]
              /\ UNCHANGED <<errors, resp>>
        /\ UNCHANGED <<life, req, breakers, files>>

\* Mutant: request_finished() is not called.
FinishUncounted(c, status, counted) ==
    /\ resp' = [resp EXCEPT ![c] = status] /\ conn' = [conn EXCEPT ![c] = "sending"]
    /\ errors' = errors + counted /\ loop' = Nobody /\ UNCHANGED active

\* The end of routing: count the error, request_finished(), start to answer.
Finish(c, status, counted) ==
    /\ resp' = [resp EXCEPT ![c] = status] /\ conn' = [conn EXCEPT ![c] = "sending"]
    /\ errors' = errors + counted + (IF status \in Failures THEN 1 ELSE 0)
    /\ active' = active - 1 /\ loop' = Nobody

\* Mutant: the event is not written.
event_forgotten(c) == wal' = wal

_record_wal_event(c) == wal' = wal \cup {c}

\* _route up to and including _record_wal_event.
Route(c) ==
    /\ conn[c] = "routing"
    /\ \/ /\ req[c].path \in {"health", "ready"} /\ Finish(c, "ok", 0)
          /\ UNCHANGED <<breakers, wal>>
       \/ /\ req[c].path = "ready" /\ "disk" \in Faults /\ Finish(c, "503", 0)
          /\ UNCHANGED <<breakers, wal>>
       \/ /\ req[c].path = "metrics" /\ Finish(c, "ok", 0) /\ UNCHANGED wal
          /\ breakers' = [e \in Endpoints |-> Read(breakers[e])]
       \/ /\ req[c].path = "other" /\ Finish(c, "404", 0) /\ UNCHANGED <<breakers, wal>>
       \/ /\ req[c].path \in Endpoints /\ ~req[c].authorized
          /\ Finish(c, "401", 1) /\ UNCHANGED <<breakers, wal>>
       \/ /\ req[c].path \in Endpoints /\ req[c].authorized
          /\ _record_wal_event(c) /\ conn' = [conn EXCEPT ![c] = "logged"]
          /\ UNCHANGED <<breakers, resp, errors, active, loop>>
       \/ /\ req[c].path \in Endpoints /\ req[c].authorized /\ "disk" \in Faults
          /\ Finish(c, "500", 0) /\ UNCHANGED <<breakers, wal>>
    /\ UNCHANGED <<life, req, tokens, audit, flushed>>

\* Mutant: shadow mode answers with a new result, without the findings.
ShadowedAnew(result) == IF shadow_mode THEN "shadow_allow" ELSE result

\* Shadow mode sets "allowed" and "shadow_mode" in whatever the result is, the
\* open circuit's included, and leaves its findings.
Shadowed(result) ==
    CASE shadow_mode /\ result \in Inspected -> "shadow_allow"
      [] shadow_mode /\ result \in Fallbacks -> "shadow_fail_closed"
      [] OTHER -> result

\* _handle_inspect_call, _handle_inspect_output: through the circuit breaker to
\* the monitor, whose last step is the append to the audit log.
Inspect(c) ==
    LET e == req[c].path
        b == Read(breakers[e])
        failed == Read(_on_failure(b))
        Set(x) == breakers' = [breakers EXCEPT ![e] = x]
    IN  /\ conn[c] = "logged"
        /\ \/ /\ req[c].body = "garbage" /\ Finish(c, "400", 0)
              /\ UNCHANGED <<breakers, audit>>
           \/ /\ req[c].body = "array" /\ e = "inspect_output" /\ Finish(c, "500", 0)
              /\ UNCHANGED <<breakers, audit>>
           \/ /\ req[c].body = "object" \/ (req[c].body = "array" /\ e = "inspect_call")
              /\ \/ /\ b.state = "OPEN" /\ Set(b) /\ UNCHANGED audit
                    /\ Finish(c, Shadowed("fail_closed"), 0)
                 \/ /\ b.state # "OPEN" /\ req[c].body = "object"
                    /\ Set(_on_success(b)) /\ audit' = audit \cup {c}
                    /\ \E v \in {"allow", "deny"} : Finish(c, Shadowed(v), 0)
                 \/ /\ b.state # "OPEN" /\ (req[c].body = "array" \/ "disk" \in Faults)
                    /\ Set(failed) /\ UNCHANGED audit
                    /\ Finish(c, IF failed.state = "OPEN" THEN Shadowed("fail_closed")
                                                          ELSE "500", 0)
        /\ UNCHANGED <<life, req, tokens, wal, flushed>>

\* Mutant: nothing is sent any more once the server shuts down.
SendUnlessShuttingDown(c) ==
    /\ conn[c] = "sending" /\ loop = Nobody /\ ~shutting_down
    /\ conn' = [conn EXCEPT ![c] = "answered"]
    /\ UNCHANGED <<life, active, loop, req, resp, tokens, breakers, errors, files>>

\* _send_response and the close of the connection, whose client may be gone.
Send(c) == /\ conn[c] = "sending" /\ loop = Nobody
           /\ conn' \in {[conn EXCEPT ![c] = end] : end \in {"answered", "closed"}}
           /\ UNCHANGED <<life, active, loop, req, resp, tokens, breakers, errors, files>>

\* Time passes for the breakers and the token bucket.
Tick == /\ server # "down" /\ breakers' = [e \in Endpoints |-> Aged(breakers[e])]
        /\ tokens' = IF tokens < burst_size THEN tokens + 1 ELSE tokens
        /\ <<breakers, tokens>>' # <<breakers, tokens>>
        /\ UNCHANGED <<life, active, loop, conn, req, resp, errors, files>>

\* SIGTERM or SIGINT: the handler only sets the flag.
Signal == /\ server = "serving" /\ loop = Nobody /\ ~shutting_down /\ shutting_down' = TRUE
          /\ UNCHANGED <<server, shadow_mode, active, loop, conn, req, resp, tokens,
                         breakers, errors, files>>

\* Mutant: execute_shutdown() does not set the flag.
CancelUnflagged ==
    /\ "cancel" \in Faults /\ server = "serving" /\ loop = Nobody
    /\ server' = "closing" /\ flushed' = wal
    /\ UNCHANGED <<shadow_mode, shutting_down, active, loop, conn, req, resp, tokens,
                   breakers, errors, wal, audit>>

\* The embedding program cancels start(): execute_shutdown() runs on the loop,
\* drains the active requests (none between two tasks: ActiveIsLoop), has the
\* WAL checkpointed and closes the server.
Cancel == /\ "cancel" \in Faults /\ server = "serving" /\ loop = Nobody
          /\ server' = "closing" /\ shutting_down' = TRUE /\ flushed' = wal
          /\ UNCHANGED <<shadow_mode, active, loop, conn, req, resp, tokens, breakers, errors,
                         wal, audit>>

Ended == /\ server' = "down" /\ shadow_mode' = FALSE /\ loop' = Nobody
         /\ conn' = [c \in Conns |-> IF conn[c] \in {"new", "answered"} THEN conn[c] ELSE "closed"]
         /\ UNCHANGED <<shutting_down, active, req, resp, tokens, breakers, errors, files>>

\* start() returns and asyncio.run cancels what is left.
Exit == server = "closing" /\ loop = Nobody /\ Ended

Crash == "crash" \in Faults /\ server # "down" /\ Ended

Step(c) == Arrive(c) \/ ReadFails(c) \/ Admit(c) \/ Route(c) \/ Inspect(c) \/ Send(c)

Next == (\E c \in Conns : Step(c)) \/ Start \/ Tick \/ Signal \/ Cancel \/ Exit \/ Crash

Spec == Init /\ [][Next]_vars

\* What ends the wait for a request: the timeouts of its parts, or all of it.  A
\* client that dribbles starts the ten seconds anew with every header it sends, and
\* nothing bounds their number (server.py:156-163): its request may never be read.
Reading(c) == ReadFails(c) \/ Admit(c)
Handling(c) == Route(c) \/ Inspect(c)

\* The event loop runs every task that can run; the operator restarts the server.
Fairness == /\ \A c \in Conns \ Dribbling : WF_vars(Reading(c))
            /\ \A c \in Conns : WF_vars(Handling(c)) /\ WF_vars(Send(c))
            /\ WF_vars(Start) /\ WF_vars(Exit) /\ WF_vars(Tick)
-----------------------------------------------------------------------------
\* Every variable holds a value of its kind.
TypeOK == /\ server \in {"down", "serving", "closing"}
          /\ shadow_mode \in BOOLEAN /\ shutting_down \in BOOLEAN
          /\ active \in Nat /\ loop \in Conns \cup {Nobody} /\ errors \in Nat
          /\ conn \in [Conns -> {"new", "reading", "routing", "logged", "sending",
                                 "answered", "closed"}]
          /\ req \in [Conns -> Requests]
          /\ resp \in [Conns -> {"none", "ok"} \cup Inspected \cup Fallbacks \cup Failures]
          /\ tokens \in 0 .. burst_size /\ breakers \in [Endpoints -> Breakers]
          /\ wal \subseteq Conns /\ audit \subseteq Conns /\ flushed \subseteq wal

\* A request is in the WAL before it can be in the audit log, whatever crashes
\* come between the two writes (server.py:302, "before processing").
WalBeforeAudit == audit \subseteq wal

\* An answer that comes from an inspection has its record in the audit log, and
\* one that comes from an open circuit has none, with shadow mode or without it: a
\* call is allowed without a record only in shadow mode, by an answer that says so.
AnswersAreRecords ==
    \A c \in Conns : /\ resp[c] \in Inspected => c \in audit
                     /\ resp[c] \in Fallbacks => c \notin audit

\* Nothing is logged after the shutdown has flushed the WAL: connections still
\* open then are answered 503 or dropped.
FlushedIsFinal == server = "closing" => wal = flushed

\* The count of active requests is the handlers between request_started() and
\* request_finished(): a drain never waits for a request that has ended.
ActiveIsLoop == server # "down" => active = Cardinality({c \in Conns : c = loop})

\* Every variable holds a value of its kind, and the two accounts of the work in
\* progress, the counter and the loop, agree.
ServerInv == TypeOK /\ ActiveIsLoop

\* What is on record of a request agrees with how far it came and with what was
\* said of it.
RecordsInv == WalBeforeAudit /\ AnswersAreRecords

\* Every request that was read is answered or its connection closed: none waits for
\* ever on a rate limit, an open circuit, a failed disk or another client that never
\* ends its headers; and that of a client that does not dribble is read.
EveryRequestEnds ==
    \A c \in Conns :
        (\/ conn[c] \in {"routing", "logged", "sending"}
         \/ conn[c] = "reading" /\ c \notin Dribbling) ~> conn[c] \in {"answered", "closed"}

\* A client has heard what its handler produced once it was sent: a response
\* that was lost on the way, or with the process, was never given.
Heard == [c \in Conns |-> IF conn[c] = "answered" THEN resp[c] ELSE "none"]

\* The server implements the service it is to be for its clients: through
\* crashes between the two logs and the answer, shutdowns and open circuits
\* nobody hears what the logs do not bear out (server.py:135-350).
Service == INSTANCE InspectionService WITH
               Clients <- Conns, Pending <- "none", noted <- wal, recorded <- audit,
               answer <- Heard, open <- (server = "serving")
ServiceSpec == Service!InspectionSpec

\* "Registers SIGTERM/SIGINT handlers to drain in-flight requests, flush the
\* WAL, and exit cleanly" (shutdown.py:3-4).
SignalExits == shutting_down ~> server = "down"
=============================================================================
