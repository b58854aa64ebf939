----------------------------- MODULE Correlation -----------------------------
(***************************************************************************)
(* advanced/correlation.py: the engine keeps the last calls and looks, at  *)
(* each new one, for the sequences its rules describe.  A call is the kind *)
(* of its tool's name, its server, the datum it returns and the data in    *)
(* its arguments.                                                          *)
(***************************************************************************)
EXTENDS Integers, SequencesExt

CONSTANTS Events,       \* calls: [kind, server, output, arguments]
          NoDatum,      \* a call without output
          Outbound,     \* the kinds whose name _data_read_then_exfil knows
          DefaultRules, ExtraRules,     \* a sequence and a set of rules
          Kinds,        \* of the tools' names, as the patterns of the rules tell them apart
          window_size,
          MaxRecorded, MaxClock         \* bounds on the calls and the clock

ASSUME WindowSizeAssumption == window_size \in Nat \ {0}
ASSUME RulesAssumption ==
    /\ DefaultRules \in Seq(ToSet(DefaultRules))
    /\ \A rule \in ToSet(DefaultRules) \cup ExtraRules : rule.tool_sequence \in Seq(SUBSET Kinds)

VARIABLES
    window,     \* _window
    rules,      \* _rules
    clock,
    raised,     \* the alerts of the last call, which _alerts is extended by
    record      \* history: all calls since the window was cleared

correlationVars == <<window, rules, clock, raised, record>>

CorrelationInit == /\ window = <<>> /\ rules = DefaultRules /\ clock = 0
                   /\ raised = {} /\ record = <<>>

\* Mutant: the window is one call short.
DequeShort(q) == IF Len(q) >= window_size THEN Tail(q) ELSE q

\* A deque with maxlen drops its leftmost element.
Deque(q) == IF Len(q) > window_size THEN Tail(q) ELSE q

\* The events of the window a rule may still combine, by their places.
InTime(q, rule) == {i \in DOMAIN q : clock - q[i].ts <= rule.window_seconds}

\* The places that _match_sequence() takes among those: for each pattern the first
\* event after the last place, Len(events) + 1 when there is none.
Places(events, among, patterns) ==
    LET none == Len(events) + 1
        at[k \in 0 .. Len(patterns)] ==
            IF k = 0 THEN 0
            ELSE Min({i \in among : i > at[k - 1] /\ events[i].kind \in patterns[k]} \cup {none})
    IN  at

_match_sequence(events, among, patterns) ==
    LET at == Places(events, among, patterns)
    IN  IF at[Len(patterns)] > Len(events) THEN <<>>
        ELSE [k \in 1 .. Len(patterns) |-> events[at[k]]]

\* The condition of read_then_exfil.  The outputs are listed without the calls
\* that have none, so the first i - 1 of them need not be of the first i - 1 calls.
_data_read_then_exfil(m) ==
    LET outputs == SelectSeq(m, LAMBDA e : e.output # NoDatum)
    IN  \E i \in 1 .. Len(m) : /\ m[i].kind \in Outbound
                               /\ \E k \in 1 .. Len(outputs) :
                                    k < i /\ outputs[k].output \in m[i].arguments

\* The condition of shadow_pivot, for servers that have a name.
Pivots(m) == Len(m) >= 2 /\ m[1].server # m[Len(m)].server

Holds(condition, m) == CASE condition = "none"      -> TRUE
                         [] condition = "data_flow" -> _data_read_then_exfil(m)
                         [] condition = "pivot"     -> Pivots(m)

\* _evaluate_rules(): the rules that match, with the calls they matched and
\* whether data flows from one to the next.
_evaluate_rules(q) == {a \in
    {[rule |-> rule.name, matched |-> _match_sequence(q, InTime(q, rule), rule.tool_sequence),
      condition |-> rule.condition] : rule \in ToSet(rules)} :
        a.matched # <<>> /\ Holds(a.condition, a.matched)}

record_call(e) ==
    /\ Len(record) < MaxRecorded
    /\ window' = Deque(Append(window, [e EXCEPT !.ts = clock]))
    /\ raised' = _evaluate_rules(Deque(Append(window, [e EXCEPT !.ts = clock])))
    /\ record' = Append(record, [e EXCEPT !.ts = clock])
    /\ UNCHANGED <<rules, clock>>

add_rule(rule) == /\ rule \notin ToSet(rules) /\ rules' = Append(rules, rule)
                  /\ UNCHANGED <<window, clock, raised, record>>

clear_window == /\ window' = <<>> /\ record' = <<>>
                /\ UNCHANGED <<rules, clock, raised>>

ClockTick == /\ clock < MaxClock /\ clock' = clock + 1
             /\ UNCHANGED <<window, rules, raised, record>>

CorrelationNext == \/ \E e \in Events : record_call(e)
                   \/ \E rule \in ExtraRules : add_rule(rule)
                   \/ clear_window \/ ClockTick

CorrelationSpec == CorrelationInit /\ [][CorrelationNext]_correlationVars
-----------------------------------------------------------------------------
\* Of all calls, those a rule may still combine.
Eligible(rule) == {i \in 1 .. Len(record) :
    /\ i > Len(record) - window_size
    /\ clock - record[i].ts <= rule.window_seconds}

\* The sequence of a rule occurs, in its order, among the eligible calls.
Occurs(rule) ==
    /\ rule.tool_sequence # <<>>
    /\ \E at \in [1 .. Len(rule.tool_sequence) -> Eligible(rule)] :
          /\ \A j, k \in DOMAIN at : j < k => at[j] < at[k]
          /\ \A k \in DOMAIN at : record[at[k]].kind \in rule.tool_sequence[k]

\* A rule without a condition alerts when its sequence occurs, with any calls
\* between, among the last window_size calls within its seconds, and no such alert
\* comes of anything else: taking the first match of each pattern loses nothing
\* (correlation.py:219-224, 256-273).
SequencesFound ==
    LET Plain == {rule \in ToSet(rules) : rule.condition = "none"}
        found == {a \in _evaluate_rules(window) : a.condition = "none"}
    IN  {a.rule : a \in found} = {rule.name : rule \in {q \in Plain : Occurs(q)}}

\* A call to one server followed at once by a call to another, both within the
\* seconds of the rule, is alerted by the rule for "Call to registered server
\* followed by unregistered server" (correlation.py:123-134).
PivotFound == \A rule \in ToSet(rules) : rule.condition = "pivot" =>
    LET n == Len(record)
    IN  {n - 1, n} \subseteq Eligible(rule) /\ record[n - 1].server # record[n].server
            => \E a \in _evaluate_rules(window) : a.rule = rule.name
=============================================================================
