------------------------------- MODULE Tracing -------------------------------
(***************************************************************************)
(* production/tracing.py: Tracer, as the handler of connections uses it.   *)
(* A span is the number of its start, a trace that begins here the number  *)
(* of its first span; what a header may hold besides is external.          *)
(***************************************************************************)
EXTENDS Lists, SequencesExt

CONSTANTS
    Traceparents,   \* headers of clients: [wellformed, trace, parent]
    NoParent,
    max_spans,      \* how many spans are retained
    MaxSpans        \* bound on the spans started

ASSUME SpanBoundsAssumption == max_spans \in Nat \ {0} /\ MaxSpans \in Nat

VARIABLES
    spans,      \* every span started: [trace, parent, status, ended]
    retained,   \* _spans: the numbers of those retained
    cleared     \* history: the number of spans when clear() was called last

tracingVars == <<spans, retained, cleared>>

TracingInit == spans = << >> /\ retained = << >> /\ cleared = 0

Span(trace, parent) == [trace |-> trace, parent |-> parent, status |-> "OK", ended |-> FALSE]

\* Whatever is no header of four parts with ids of the right length begins a trace;
\* a header that is one is believed, also if it puts a span started here into
\* another trace than its own.
Joined(header, n) ==
    IF header.wellformed THEN Span(header.trace, header.parent) ELSE Span(n, NoParent)

\* What a client that was answered sends with its next request.
create_traceparent(n) == [wellformed |-> TRUE, trace |-> spans[n].trace, parent |-> n]

\* deque(maxlen=max_spans).
Retained(q) == IF Len(q) <= max_spans THEN q ELSE Tail(q)

start_span(header) ==
    LET n == Len(spans) + 1
    IN  /\ n <= MaxSpans
        /\ spans' = Append(spans, Joined(header, n))
        /\ retained' = Retained(Append(retained, n))
        /\ UNCHANGED cleared

\* The status of a request that was refused or raised is ERROR.
end_span(n, status) ==
    /\ ~spans[n].ended
    /\ spans' = [spans EXCEPT ![n].ended = TRUE, ![n].status = status]
    /\ UNCHANGED <<retained, cleared>>

clear == retained' = << >> /\ cleared' = Len(spans) /\ UNCHANGED spans

get_completed_spans == Filtered(retained, {i \in DOMAIN retained : spans[retained[i]].ended})

TracingNext ==
    \/ \E header \in Traceparents \cup {create_traceparent(n) : n \in DOMAIN spans} :
          start_span(header)
    \/ \E n \in DOMAIN spans, status \in {"OK", "ERROR"} : end_span(n, status)
    \/ clear

TracingSpec == TracingInit /\ [][TracingNext]_tracingVars
-----------------------------------------------------------------------------
\* The completed spans are those that have ended among the newest since the last
\* clear(), in the order of their start and whatever order they ended in
\* (tracing.py:102-116, 206-212).
SpansExact ==
    LET newest == {n \in DOMAIN spans : n > cleared /\ n > Len(spans) - max_spans}
    IN  /\ ToSet(get_completed_spans) = {n \in newest : spans[n].ended}
        /\ \A i, j \in DOMAIN get_completed_spans :
             i < j => get_completed_spans[i] < get_completed_spans[j]
=============================================================================
