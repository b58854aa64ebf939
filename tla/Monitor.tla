------------------------------- MODULE Monitor -------------------------------
(***************************************************************************)
(* monitor.py: MCPSecurityMonitor runs the detectors on a call or an       *)
(* output, records what they say in the audit log and answers with a       *)
(* verdict.  It keeps the registry of the shadow detector and the          *)
(* classifier of the injection detector from call to call.                 *)
(***************************************************************************)
EXTENDS Detectors, SequencesExt

CONSTANTS
    Servers, NoServer,    \* the servers, and a call that names none
    NoPrefix,               \* a tool whose name has no dot
    Capabilities,           \* what register_server() may declare: sets of prefixes and tools
    ToolCalls,              \* [server, tool, payload, labels, proba]
    ToolOutputs,            \* [tool, payload, labels]
    trust_per_call,         \* 5 points of trust for every call, up to 50
    MaxInspections, MaxRegistrations

\* `labels`: personal data in the strings of a call beside its arguments, or in
\* the keys of an output, which is scanned as one string.
Payload == [object : BOOLEAN, texts : Seq(Text), recipient : Recipients,
            oversized : BOOLEAN, blob : BOOLEAN]

ASSUME MonitorCallAssumption ==
    /\ NoServer \notin Servers
    /\ \A c \in ToolCalls : /\ c.server \in Servers \cup {NoServer} /\ c.payload \in Payload
                            /\ c.labels \subseteq PIITypes /\ c.proba \in 0 .. 100
    /\ \A o \in ToolOutputs : o.payload \in Payload /\ o.labels \subseteq PIITypes
    /\ trust_per_call \in Nat /\ MaxInspections \in Nat /\ MaxRegistrations \in Nat

VARIABLES
    trainable,          \* scikit-learn, which is optional, is installed
    approved,           \* ShadowServerDetector._allowed
    registry,           \* _registry: capabilities and call_count, for those registered
    classifier,         \* _ml_classifier: none yet, one that was never trained, or trained
    enable_ml,          \* _enable_ml
    inspected,          \* the entries of the audit log
    failures,           \* inspections that ended in an exception
    past                \* history: the registrations and calls the shadow detector saw

monitorVars == <<trainable, approved, registry, classifier, enable_ml, inspected, failures, past>>
learned == <<classifier, enable_ml>>
register == <<approved, registry>>

MonitorInit ==
    /\ trainable \in BOOLEAN /\ approved \in {{}, Servers} /\ registry = << >>
    /\ classifier = "none" /\ enable_ml = TRUE
    /\ inspected = << >> /\ failures = 0
    /\ past = << [kind |-> "init", servers |-> approved] >>

register_server(s, caps) ==
    /\ Cardinality({i \in DOMAIN past : past[i].kind = "register"}) < MaxRegistrations
    /\ approved' = approved \cup {s}
    /\ registry' = [t \in {s} \cup DOMAIN registry |->
                       IF t = s THEN [capabilities |-> caps, call_count |-> 0] ELSE registry[t]]
    /\ past' = Append(past, [kind |-> "register", server |-> s, capabilities |-> caps])
    /\ UNCHANGED <<trainable, learned, inspected, failures>>
-----------------------------------------------------------------------------
\* PromptInjectionDetector.detect: texts without a match are left to the classifier.
Ambiguous(c) == RegexMatched(c.payload.texts) = {} /\ c.payload.texts # << >>

\* _get_ml_classifier: made on first use, and assigned before it is trained.
Loaded == IF classifier = "none" /\ enable_ml THEN IF trainable THEN "trained" ELSE "untrained"
          ELSE classifier

\* The classifier is the one the detector goes on with; classify() trains one
\* that is not, and what train() raises is not caught there.
Asked(c) == enable_ml /\ Ambiguous(c)
ClassifyRaises(c) == Asked(c) /\ Loaded = "untrained"

\* Mutant: a classifier that could be trained is not asked again either.
AskedOnce(c) == IF Asked(c) THEN classifier' = Loaded /\ enable_ml' = FALSE ELSE UNCHANGED learned

get_ml_classifier(c) ==
    IF Asked(c) THEN /\ classifier' = Loaded
                     /\ enable_ml' = (Loaded = "trained")
    ELSE UNCHANGED learned

InjectionRisk(c) ==
    IF RegexMatched(c.payload.texts) # {} THEN RegexRisk(RegexMatched(c.payload.texts))
    ELSE IF Asked(c) THEN MLRisk(c.proba) ELSE 0

\* ShadowServerDetector.detect.
Known(c) == c.server \in approved

Mismatched(c) ==
    /\ Known(c) /\ c.tool.prefix # NoPrefix /\ c.server \in DOMAIN registry
    /\ LET caps == registry[c.server].capabilities
       IN  caps # {} /\ {c.tool.prefix, c.tool.name} \cap caps = {}

IsShadow(c) == ~Known(c) \/ Mismatched(c)

\* Mutant: a call for what the server does not declare is not counted.
CountMatching(c) ==
    registry' = [s \in DOMAIN registry |-> [registry[s] EXCEPT !.call_count =
                    @ + IF s = c.server /\ ~Mismatched(c) THEN 1 ELSE 0]]

\* The use of a server is counted before its capabilities are compared.
CountUse(c) ==
    registry' = [s \in DOMAIN registry |->
                    [registry[s] EXCEPT !.call_count = @ + IF s = c.server /\ Known(c) THEN 1 ELSE 0]]

\* The scores of the detectors that found something; the highest counts.
PIIRisk(base, types) == IF types = {} THEN 0 ELSE base + 10 * Cardinality(types)
ExfilRisk(tool, payload) ==
    LET n == ExfilReasons(tool, payload) IN IF n = 0 THEN 0 ELSE 70 + 5 * n

CallRisk(c) ==
    Min({100, Max({InjectionRisk(c), PIIRisk(40, PIIFound(c.payload.texts, c.labels)),
                   IF IsShadow(c) THEN 80 ELSE 0, ExfilRisk(c.tool, c.payload)})})

OutputRisk(o) == Min({100, Max({ExfilRisk(o.tool, o.payload),
                                PIIRisk(50, PIIFound(o.payload.texts, o.labels))})})

Room == Len(inspected) + failures < MaxInspections

inspect_call(c) ==
    /\ Room /\ ~ClassifyRaises(c) /\ ~ExfilRaises(c.tool, c.payload)
    /\ get_ml_classifier(c) /\ CountUse(c)
    /\ inspected' = Append(inspected, [kind |-> "call", of |-> c, risk_score |-> CallRisk(c),
                                       allowed |-> CallRisk(c) < 50 /\ ~IsShadow(c)])
    /\ past' = Append(past, [kind |-> "call", call |-> c, entry |-> Len(inspected) + 1])
    /\ UNCHANGED <<trainable, approved, failures>>

\* The first detector raises: nothing is counted or recorded.
classify_raises(c) ==
    /\ Room /\ ClassifyRaises(c) /\ get_ml_classifier(c)
    /\ failures' = failures + 1
    /\ UNCHANGED <<trainable, register, inspected, past>>

\* The last one raises: the use of the server has been counted.
exfiltration_raises(c) ==
    /\ Room /\ ~ClassifyRaises(c) /\ ExfilRaises(c.tool, c.payload)
    /\ get_ml_classifier(c) /\ CountUse(c) /\ failures' = failures + 1
    /\ past' = Append(past, [kind |-> "call", call |-> c, entry |-> 0])
    /\ UNCHANGED <<trainable, approved, inspected>>

inspect_output(o) ==
    /\ Room
    /\ IF ExfilRaises(o.tool, o.payload) THEN failures' = failures + 1 /\ UNCHANGED inspected
       ELSE /\ inspected' = Append(inspected, [kind |-> "output", of |-> o,
                                risk_score |-> OutputRisk(o), allowed |-> OutputRisk(o) < 50])
            /\ UNCHANGED failures
    /\ past' = Append(past, [kind |-> "output",
                   entry |-> IF ExfilRaises(o.tool, o.payload) THEN 0 ELSE Len(inspected) + 1])
    /\ UNCHANGED <<trainable, register, learned>>

\* ShadowServerDetector.score_server_trust.
score_server_trust(s) ==
    IF s \notin approved THEN 0 ELSE IF s \notin DOMAIN registry THEN 30
    ELSE 50 + Min({registry[s].call_count * trust_per_call, 50})

MonitorNext ==
    \/ \E s \in Servers, caps \in Capabilities : register_server(s, caps)
    \/ \E c \in ToolCalls : inspect_call(c) \/ classify_raises(c) \/ exfiltration_raises(c)
    \/ \E o \in ToolOutputs : inspect_output(o)

MonitorSpec == MonitorInit /\ [][MonitorNext]_monitorVars
-----------------------------------------------------------------------------
\* What the history says of a server at its i-th event: the registration in
\* force, 0 when there is none.
RegisteredAt(s, i) ==
    Max({0} \cup {j \in 1 .. i : past[j].kind = "register" /\ past[j].server = s})

\* What ought to be let through: a server and a tool the operator knows, at most
\* one pattern, nothing personal, nothing that looks like exfiltration, and no
\* threat in the eyes of a classifier, where there is one to ask.
Due(c, i) ==
    LET r == RegisteredAt(c.server, i)
        caps == IF r = 0 THEN {} ELSE past[r].capabilities
        matched == RegexMatched(c.payload.texts)
    IN  /\ c.server \in past[1].servers \/ r # 0
        /\ caps = {} \/ c.tool.prefix = NoPrefix \/ {c.tool.prefix, c.tool.name} \cap caps # {}
        /\ Cardinality(matched) <= 1 /\ PIIFound(c.payload.texts, c.labels) = {}
        /\ ExfilReasons(c.tool, c.payload) = 0
        /\ matched = {} /\ trainable /\ c.payload.texts # << >> => c.proba < ml_threshold

\* Every verdict on record is the one due by what was registered when the call
\* was made, whatever calls came before: which of them trained the classifier or
\* failed to, and how often, changes no verdict after (monitor.py:85-86).
VerdictIsDue == \A i \in DOMAIN past :
    past[i].kind = "call" /\ past[i].entry # 0
        => (inspected[past[i].entry].allowed <=> Due(past[i].call, i))

\* The calls of s since it was last registered that came as far as the shadow
\* detector: a registration starts the count again, a call that is refused for
\* its tool, or raises later, is counted.
Uses(s) == {i \in RegisteredAt(s, Len(past)) + 1 .. Len(past) :
                past[i].kind = "call" /\ past[i].call.server = s}

\* The trust in a server is what its history has earned it (shadow_server.py:75-95).
TrustIsUse == \A s \in Servers :
    score_server_trust(s) =
        IF RegisteredAt(s, Len(past)) # 0 THEN Min({50 + trust_per_call * Cardinality(Uses(s)), 100})
        ELSE IF s \in past[1].servers THEN 30 ELSE 0

\* "If ML deps unavailable, degrade gracefully to regex-only"
\* (prompt_injection.py:631): only the look for a recipient may raise.
DegradesGracefully == failures =
    Cardinality({i \in DOMAIN past : past[i].kind \in {"call", "output"} /\ past[i].entry = 0})

\* "Combines regex confidence with ML confidence for a unified score"
\* (prompt_injection.py:686): what either finds alone, both do not score less.
FindingsAddUp == \A c \in ToolCalls :
    Asked(c) => \A p \in Patterns : RegexRisk({p}) >= MLRisk(c.proba)
=============================================================================
