----------------------------- MODULE FiveLayers -----------------------------
(***************************************************************************)
(* mcp_monitor/layers: FiveLayerDefense.evaluate_call through the inline   *)
(* proxy, the monitor behind it (mcp_monitor/monitor.py) with its audit    *)
(* log, and the egress policy.  A call is evaluated in one step: nothing   *)
(* in it waits.  A tool call is what the layers tell apart of it.          *)
(***************************************************************************)
EXTENDS HashChain

CONSTANTS
    Calls,          \* the tool calls, a set of Call
    Outputs,        \* the tool outputs, a set of Output
    RulePool,       \* the proxy rules that may be added, a set of Rule
    EgressPool,     \* the egress rules that may be added, a set of EgressRule
    Servers, Dests, NoServer, NoDest, NoRule,
    block_threshold, quarantine_threshold, default_deny,
    Operators,      \* who look at the quarantine and release from it
    MaxCalls        \* bound on evaluate_call() and intercept_output()

\* `spawns`: arguments that name a shell; `dangerous`: the semantic layer finds
\* a severe intent; `object`: arguments is an object, else .get on it raises.
Call == [server : Servers \cup {NoServer}, score : 0 .. 100, spawns : BOOLEAN,
         dangerous : BOOLEAN, object : BOOLEAN, dest : Dests \cup {NoDest}]

\* Tool outputs, not empty, by the score inspect_output() gives them.
Output == [output_score : 0 .. 100]

Actions == {"allow", "block", "quarantine", "redact"}

\* `raises`: calls on which the rule's condition raises.
Rule == [matches : SUBSET Calls, raises : SUBSET Calls, action : Actions, priority : Nat]

\* `accepts`: the destinations, with their port, that the allow lists let pass.
EgressRule == [servers : SUBSET (Servers \cup {NoServer}), blocks : SUBSET Dests,
               accepts : SUBSET Dests]

ASSUME CallsAssumption == Calls \subseteq Call /\ Outputs \subseteq Output /\ MaxCalls \in Nat
ASSUME RulesAssumption == RulePool \subseteq Rule /\ EgressPool \subseteq EgressRule
ASSUME ConfigAssumption == /\ block_threshold \in Nat /\ quarantine_threshold \in Nat
                           /\ default_deny \in BOOLEAN
ASSUME DataAssumption == [score : 0 .. 100, amended : BOOLEAN] \subseteq Data
ASSUME NoneAssumption == /\ NoServer \notin Servers /\ NoDest \notin Dests
                         /\ NoRule \notin RulePool

VARIABLES
    known_servers,      \* FiveLayerDefense.known_servers
    verdicts,           \* FiveLayerDefense._verdicts, counted by layer; 0: allowed
    rules,              \* InlineProxyGateway._rules
    added,              \* the rules in the order they were added
    decisions,          \* InlineProxyGateway._decisions, counted by action
    counts,             \* _blocked_count and _allowed_count
    quarantined,        \* _quarantined, each with (history) the number of its arrival
    released,           \* calls and outputs released from it so far
    outputs,            \* intercept_output()s so far, counted by action
    mem, file,          \* the entries of the monitor's AuditLog, and its file
    egress_rules,
    egress_decisions,   \* NetworkEgressPolicy._decisions, counted by `allowed`
    raised,             \* evaluations that ended in an exception
    seen                \* per operator: what get_quarantined() last returned

vars == <<known_servers, verdicts, rules, added, decisions, counts, quarantined, released,
          outputs, mem, file, egress_rules, egress_decisions, raised, seen>>
proxy  == <<decisions, counts, quarantined, released>>
audit  == <<mem, file>>
config == <<known_servers, rules, added, egress_rules>>

Init == /\ known_servers \in {{}, Servers} /\ verdicts = [l \in 0 .. 5 |-> 0]
        /\ rules = << >> /\ added = << >>
        /\ decisions = [a \in Actions |-> 0] /\ counts = [blocked |-> 0, allowed |-> 0]
        /\ quarantined = << >> /\ released = 0 /\ outputs = [a \in Actions |-> 0]
        /\ mem = << >> /\ file = << >>
        /\ egress_rules = << >> /\ egress_decisions = [b \in BOOLEAN |-> 0] /\ raised = 0
        /\ seen = [o \in Operators |-> << >>]

\* sort(key=priority, reverse=True), which keeps the order of equal priorities.
Prioritized(r) ==
    InsertAt(rules, Cardinality({i \in DOMAIN rules : rules[i].priority >= r.priority}) + 1, r)

add_rule(r) == /\ r \notin Range(added) /\ rules' = Prioritized(r) /\ added' = Append(added, r)
               /\ UNCHANGED <<known_servers, egress_rules, verdicts, proxy, audit,
                              outputs, egress_decisions, raised, seen>>

add_egress_rule(r) == /\ r \notin Range(egress_rules) /\ egress_rules' = Append(egress_rules, r)
                      /\ UNCHANGED <<known_servers, rules, added, verdicts, proxy, audit,
                                     outputs, egress_decisions, raised, seen>>

register_server(s) == /\ s \notin known_servers /\ known_servers' = known_servers \cup {s}
                      /\ UNCHANGED <<rules, added, egress_rules, verdicts, proxy, audit,
                                     outputs, egress_decisions, raised, seen>>
-----------------------------------------------------------------------------
First(S) == CHOOSE i \in S : \A j \in S : i <= j

\* _check_rules: the rules that match c, and whether a condition raises before.
Hits(c) == {i \in DOMAIN rules : c \in rules[i].matches}
RuleRaises(c) == \E i \in DOMAIN rules : c \in rules[i].raises /\ \A j \in Hits(c) : i < j

Thresholded(score) == IF score >= block_threshold THEN "block"
                      ELSE IF score >= quarantine_threshold THEN "quarantine" ELSE "allow"

\* The decision of intercept(): by the first rule, else by the monitor's score.
Decision(c) ==
    IF Hits(c) # {} THEN LET r == rules[First(Hits(c))]
                         IN  [action |-> r.action, rule |-> r]
    ELSE [action |-> Thresholded(c.score), rule |-> NoRule]

\* inspect_call(), inspect_output(): one entry, chained and written.  `amended`:
\* the proxy has appended its reason to the findings, a list the entry shares.
Inspected(score) == NewEntry(Len(mem) + 1, [score |-> score, amended |-> FALSE],
                             HashAt(mem, Len(mem)))
Amended(e) == [e EXCEPT !.data.amended = TRUE]

\* Mutant: the entry is written once the proxy has decided.
WrittenLate(e, action) == IF action = "allow" THEN e ELSE Amended(e)
Written(e, action) == e

\* What the proxy's call of the monitor leaves in the audit log.
Audit(c, d) ==
    LET e == Inspected(c.score)
    IN  IF d.rule # NoRule THEN UNCHANGED audit
        ELSE /\ mem' = Append(mem, IF d.action = "allow" THEN e ELSE Amended(e))
             /\ file' = Append(file, Written(e, d.action))

Counted(action) == [blocked |-> counts.blocked + (IF action = "block" THEN 1 ELSE 0),
                    allowed |-> counts.allowed + (IF action = "allow" THEN 1 ELSE 0)]

Holding == [arrival : Nat, payload : Calls \cup Outputs]
Arriving(c) == [arrival |-> decisions["quarantine"] + 1, payload |-> c]

\* Mutant: the newest call comes first.
HeldFirst(c) == << Arriving(c) >> \o quarantined
Held(c) == Append(quarantined, Arriving(c))

_record(c, d) ==
    /\ decisions' = [decisions EXCEPT ![d.action] = @ + 1] /\ counts' = Counted(d.action)
    /\ quarantined' = IF d.action = "quarantine" THEN Held(c) ELSE quarantined
    /\ UNCHANGED released

\* NetworkEgressPolicy.evaluate: the first rule for the server that blocks or
\* accepts the destination decides.
EgressAllows(c) ==
    LET deciding == {i \in DOMAIN egress_rules :
                        /\ c.server \in egress_rules[i].servers
                        /\ c.dest \in egress_rules[i].blocks \cup egress_rules[i].accepts}
    IN  IF deciding = {} THEN ~default_deny
        ELSE c.dest \notin egress_rules[First(deciding)].blocks

\* Mutant: a quarantined call goes on to the next layer.
PassesUnlessBlocked(action) == action # "block"
Passes(action) == action \in {"allow", "redact"}

Unregistered(c) == known_servers # {} /\ c.server \notin known_servers \cup {NoServer}

Verdict(by) == verdicts' = [verdicts EXCEPT ![by] = @ + 1] /\ UNCHANGED raised
Raise == raised' = raised + 1 /\ UNCHANGED verdicts

Budget == SumFunction(verdicts) + SumFunction(outputs) + raised < MaxCalls

\* evaluate_call(): layer 1, the registry; 2, the proxy; 3, the arguments; 4, the
\* semantic analysis; 5, the egress policy.
evaluate_call(c) ==
    LET d == Decision(c)
    IN  /\ Budget
        /\ \/ /\ Unregistered(c) /\ Verdict(1)
              /\ UNCHANGED <<proxy, audit, egress_decisions>>
           \/ /\ ~Unregistered(c) /\ RuleRaises(c) /\ Raise
              /\ UNCHANGED <<proxy, audit, egress_decisions>>
           \/ /\ ~Unregistered(c) /\ ~RuleRaises(c) /\ _record(c, d) /\ Audit(c, d)
              /\ \/ /\ ~Passes(d.action) /\ Verdict(2) /\ UNCHANGED egress_decisions
                 \/ /\ Passes(d.action) /\ c.spawns
                    /\ Verdict(3) /\ UNCHANGED egress_decisions
                 \/ /\ Passes(d.action) /\ ~c.spawns /\ c.dangerous
                    /\ Verdict(4) /\ UNCHANGED egress_decisions
                 \/ /\ Passes(d.action) /\ ~c.spawns /\ ~c.dangerous
                    /\ \/ ~c.object /\ Raise /\ UNCHANGED egress_decisions
                       \/ /\ c.object /\ c.dest = NoDest
                          /\ Verdict(0) /\ UNCHANGED egress_decisions
                       \/ /\ c.object /\ c.dest # NoDest
                          /\ egress_decisions' =
                                [egress_decisions EXCEPT ![EgressAllows(c)] = @ + 1]
                          /\ Verdict(IF EgressAllows(c) THEN 0 ELSE 5)
        /\ UNCHANGED <<config, outputs, seen>>

\* intercept_output(): by the score only, and the findings are left alone.
intercept_output(o) ==
    LET a == Thresholded(o.output_score)
        e == Inspected(o.output_score)
    IN  /\ Budget /\ outputs' = [outputs EXCEPT ![a] = @ + 1]
        /\ _record(o, [action |-> a])
        /\ mem' = Append(mem, e) /\ file' = Append(file, e)
        /\ UNCHANGED <<config, verdicts, egress_decisions, raised, seen>>

\* get_quarantined() returns a copy; release_quarantined() takes an index.
get_quarantined(o) ==
    /\ seen' = [seen EXCEPT ![o] = quarantined]
    /\ UNCHANGED <<config, verdicts, proxy, outputs, audit, egress_decisions, raised>>

release_quarantined(o, i) ==
    /\ i \in DOMAIN seen[o]
    /\ \/ /\ i \in DOMAIN quarantined
          /\ quarantined' = RemoveAt(quarantined, i) /\ released' = released + 1
       \/ i \notin DOMAIN quarantined /\ UNCHANGED <<quarantined, released>>
    /\ UNCHANGED <<config, verdicts, decisions, counts, outputs, audit, egress_decisions,
                   raised, seen>>

Next == \/ \E r \in RulePool : add_rule(r)
        \/ \E r \in EgressPool : add_egress_rule(r)
        \/ \E s \in Servers : register_server(s)
        \/ \E c \in Calls : evaluate_call(c)
        \/ \E o \in Outputs : intercept_output(o)
        \/ \E o \in Operators : get_quarantined(o)
        \/ \E o \in Operators : \E i \in DOMAIN seen[o] : release_quarantined(o, i)

Spec == Init /\ [][Next]_vars
-----------------------------------------------------------------------------
\* Every variable holds a value of its kind.
TypeOK == /\ known_servers \subseteq Servers /\ Range(rules) = Range(added)
          /\ verdicts \in [0 .. 5 -> Nat] /\ decisions \in [Actions -> Nat]
          /\ counts \in [blocked : Nat, allowed : Nat]
          /\ quarantined \in Seq(Holding) /\ released \in Nat /\ raised \in Nat
          /\ mem \in Seq(Entry) /\ file \in Seq(Entry)
          /\ Range(egress_rules) \subseteq EgressPool /\ egress_decisions \in [BOOLEAN -> Nat]
          /\ outputs \in [Actions -> Nat]
          /\ seen \in [Operators -> Seq(Holding)]

\* A rule decides a call only if no rule of higher priority, and none of its
\* priority that was added earlier, matches the call (layers/proxy.py:131-133).
FirstRuleWins ==
    \A c \in Calls, i \in DOMAIN added : c \in added[i].matches =>
        LET r == Decision(c).rule
        IN  /\ r # NoRule /\ r.priority >= added[i].priority
            /\ r.priority = added[i].priority => \E j \in 1 .. i : added[j] = r

\* The counts that the layers and the orchestrator keep apart agree, also when
\* evaluations raise in the middle (layers/orchestrator.py:200-215): layer 2 has
\* blocked the calls the proxy blocked or holds, layer 5 what the policy denied,
\* and nothing in the quarantine is lost or held twice.
StatsAgree ==
    LET calls(a) == decisions[a] - outputs[a]
        passed == calls("allow") + calls("redact")
        beyond == verdicts[0] + verdicts[3] + verdicts[4] + verdicts[5]
    IN  /\ counts = [blocked |-> decisions["block"], allowed |-> decisions["allow"]]
        /\ verdicts[2] = calls("block") + calls("quarantine")
        /\ beyond <= passed /\ passed <= beyond + raised
        /\ verdicts[5] = egress_decisions[FALSE] /\ verdicts[0] >= egress_decisions[TRUE]
        /\ Len(quarantined) + released = decisions["quarantine"]

\* Every variable holds a value of its kind, all counts agree, and the rule that
\* decides a call is the one meant to.
LayersInv == TypeOK /\ StatsAgree /\ FirstRuleWins

\* What an index from get_quarantined() means when it is used, whatever arrived and
\* whoever released in between (layers/proxy.py:143-149): the entry that was seen
\* there exactly while none of those seen up to it is released; from then on one
\* that arrived later, or none.  It never comes to mean an earlier one.
IndexNamesSeen ==
    \A o \in Operators : \A i \in DOMAIN seen[o] :
        IF \A j \in 1 .. i : seen[o][j] \in Range(quarantined)
        THEN i \in DOMAIN quarantined /\ quarantined[i] = seen[o][i]
        ELSE i \in DOMAIN quarantined => quarantined[i].arrival > seen[o][i].arrival

\* What the monitor wrote verifies when it is read back, whatever the proxy did
\* with the findings afterwards.
FileVerifies == verify_chain(file) = Intact

\* The log the monitor holds verifies: nothing has modified an entry of it
\* (audit/log.py:4-6, tests/test_cross_platform.py:176).
MemoryVerifies == verify_chain(mem) = Intact
=============================================================================
