------------------------------- MODULE JsonRpc -------------------------------
(***************************************************************************)
(* protocol/jsonrpc.py: MCPJSONRPCAdapter walks a message or a batch and   *)
(* returns the tool calls in it, or raises.                                *)
(***************************************************************************)
EXTENDS Lists

CONSTANTS Messages,     \* objects: [version, response, method, has_id, params]
          NotAnObject,  \* an entry of a batch that is no object
          MaxBatch      \* bound on the length of a batch

\* The codes -32600, -32602 and -32700.
InvalidRequest == "invalid request"
InvalidParams  == "invalid params"
ParseError     == "parse error"

VARIABLES
    raw,        \* the entries still to be parsed
    parsed,     \* the results so far
    outcome,    \* "idle", "parsing", "returned" or the code of the error
    received    \* history: the message as it came

rpcVars == <<raw, parsed, outcome, received>>

RpcInit == raw = <<>> /\ parsed = <<>> /\ outcome = "idle" /\ received = <<>>

Result(m) == [method |-> m.method, notification |-> ~m.has_id]

\* parse_message() of an object (a batch of one), of a batch, or of something
\* that is neither or no JSON at all.
parse_message(batch) ==
    /\ outcome = "idle" /\ received' = batch /\ raw' = batch
    /\ outcome' = "parsing" /\ UNCHANGED parsed

parse_nothing == /\ outcome = "idle" /\ outcome' \in {InvalidRequest, ParseError}
                 /\ UNCHANGED <<raw, parsed, received>>

\* _parse_batch() of an empty list.
parse_empty == /\ outcome = "parsing" /\ received = <<>> /\ outcome' = InvalidRequest
               /\ UNCHANGED <<raw, parsed, received>>

\* The checks of _parse_single() in their order: the error, or "none".
ErrorOf(m) ==
    IF ~m.version THEN InvalidRequest
    ELSE IF m.response THEN "none"
    ELSE IF m.method = "none" THEN InvalidRequest
    ELSE IF m.method = "tools/call" /\ m.params = "bad" THEN InvalidParams
    ELSE "none"

\* Requests and notifications of tools/, and notifications/, are returned.
ToolMethods == {"tools/call", "tools/list", "notifications/progress"}
Yields(m) == ~m.response /\ m.method \in ToolMethods

\* _parse_single() of the next entry.
_parse_single ==
    /\ outcome = "parsing" /\ raw # <<>> /\ raw' = Tail(raw)
    /\ \/ Head(raw) = NotAnObject /\ UNCHANGED <<parsed, outcome>>
       \/ /\ Head(raw) # NotAnObject /\ ErrorOf(Head(raw)) # "none"
          /\ outcome' = ErrorOf(Head(raw)) /\ UNCHANGED parsed
       \/ /\ Head(raw) # NotAnObject /\ ErrorOf(Head(raw)) = "none"
          /\ parsed' = IF Yields(Head(raw)) THEN Append(parsed, Result(Head(raw))) ELSE parsed
          /\ UNCHANGED outcome
    /\ UNCHANGED received

parse_returns == /\ outcome = "parsing" /\ raw = <<>> /\ received # <<>>
                 /\ outcome' = "returned" /\ UNCHANGED <<raw, parsed, received>>

\* The next message: the adapter keeps nothing.
NextMessage == /\ outcome \notin {"idle", "parsing"}
               /\ raw' = <<>> /\ parsed' = <<>> /\ received' = <<>> /\ outcome' = "idle"

RpcNext == \/ \E n \in 0 .. MaxBatch : \E batch \in [1 .. n -> Messages \cup {NotAnObject}] :
                parse_message(batch)
           \/ parse_nothing \/ parse_empty \/ _parse_single \/ parse_returns \/ NextMessage

RpcSpec == RpcInit /\ [][RpcNext]_rpcVars

\* is_tool_call_request() of a message that was parsed.
is_tool_call_request == outcome = "returned" /\ Len(parsed) > 0
-----------------------------------------------------------------------------
\* What JSON-RPC 2.0 as the adapter documents it asks of a message.
WellFormed(m) ==
    /\ m.version
    /\ m.response \/ /\ m.method # "none"
                     /\ m.method = "tools/call" => m.params # "bad"

\* A batch returns exactly when all its objects are well formed, and then the
\* tool requests and the notifications among them, all of them and in their
\* order; one malformed object fails it whatever stands before and behind it,
\* while what is no object is passed over (jsonrpc.py:173-264).
BatchIsItsParts ==
    LET objects == {i \in DOMAIN received : received[i] # NotAnObject}
        wanted  == Filtered(received, {i \in objects : /\ ~received[i].response
                                                       /\ received[i].method \in ToolMethods})
    IN  /\ outcome = "returned" => /\ \A i \in objects : WellFormed(received[i])
                                   /\ parsed = [k \in 1 .. Len(wanted) |-> Result(wanted[k])]
        /\ outcome \in {InvalidRequest, InvalidParams} /\ received # <<>> =>
             \E i \in objects : ~WellFormed(received[i])
=============================================================================
