------------------------------- MODULE Gateway -------------------------------
(***************************************************************************)
(* server/realtime.py: the gateway as it is deployed.  _build_defense()    *)
(* configures the layers, _broadcast_scan() makes an event of a verdict    *)
(* and _record_event() keeps the statistics.  What the conditions of the   *)
(* rules look for in the arguments is a mark; an expression is not spelt.  *)
(* server/workload.py: the calls of an assistant, most of them harmless.   *)
(***************************************************************************)
EXTENDS Semantic, Lists, SequencesExt

CONSTANTS
    Submitted,          \* the calls of clients: [tool, server, keys, marks, dest, port]
    NoDestination,      \* of a call with neither "url" nor "destination"
    known_gateway_servers, NoServerId,
    gateway_domains,    \* allowed_domains
    eps_window,         \* the 5 seconds over which the rate is taken
    recent_limit, latency_limit, eps_limit,     \* 200 events, 500 latencies, 60 rates
    MaxScans, MaxScanTime                       \* bounds on the scans and the clock

-----------------------------------------------------------------------------
(* The workload.  A call is what the gateway can tell of it: the kind of   *)
(* its tool, its server, its keys ("text" stands for those that mean       *)
(* nothing to any check), the marks the rules look for, where it goes to.  *)
(* The random texts of one builder are alike to the gateway.               *)

ToolCall(tool, server, keys, marks) ==
    [tool |-> tool, server |-> server, keys |-> keys, marks |-> marks,
     dest |-> NoDestination, port |-> 443]
At(call, dest) == [call EXCEPT !.dest = dest]

_BENIGN_BUILDERS ==
    {ToolCall("email", "postmark", {"to", "subject", "body"}, {}),
     ToolCall("other", "calendar", {"text"}, {}),
     ToolCall("other", "filesystem", {"path"}, {}),
     ToolCall("db", "database", {"sql"}, {}),
     ToolCall("other", "search", {"text"}, {}),
     At(ToolCall("web", "api", {"url"}, {}), "https://api.openai.com/v1/models"),
     ToolCall("other", "storage", {"text"}, {}),
     ToolCall("other", "calc", {"text"}, {})}

_THREAT_BUILDERS ==
    {ToolCall("email", "postmark", {"to", "bcc", "subject", "body"}, {"attacker_address"}),
     At(ToolCall("web", "api", {"url"}, {"internal_address"}), "http://169.254.169.254/latest"),
     ToolCall("other", "filesystem", {"path"}, {"traversal"}),
     ToolCall("db", "database", {"sql"}, {"pii_column"}),
     ToolCall("shell", "system", {"command"}, {"env_secret", "shell_command"}),
     ToolCall("email", "postmark", {"to", "body"}, {"injection"}),
     ToolCall("package", "package-manager", {"text"}, {"untrusted_source"}),
     ToolCall("dns", "network", {"text"}, {"tunnel_domain"}),
     ToolCall("other", "rogue", {"text"}, {})}

\* threat_rate is the odds of `threat`; any call of its list may come.
next_tool_call(threat) == IF threat THEN _THREAT_BUILDERS ELSE _BENIGN_BUILDERS
-----------------------------------------------------------------------------
GatewayTools == {"email", "web", "shell", "package", "db", "dns", "other"}
Severities == {"CRITICAL", "HIGH", "MEDIUM", "LOW"}

ASSUME GatewayCallAssumption ==
    \A c \in Submitted \cup _BENIGN_BUILDERS \cup _THREAT_BUILDERS :
        c.tool \in GatewayTools /\ c.keys \subseteq Keys
ASSUME GatewayLimitsAssumption ==
    eps_window \in Nat /\ {recent_limit, latency_limit, eps_limit} \subseteq Nat \ {0}
ASSUME RogueAssumption == "rogue" \notin known_gateway_servers \cup {NoServerId}
-----------------------------------------------------------------------------
(* The rules; `category` is what _classify_category reads out of the reason *)
(* the rule gives, "" when it goes by the name of the tool.                 *)

GatewayRule(name, priority, tools, mark, category) ==
    [name |-> name, priority |-> priority, tools |-> tools, mark |-> mark, category |-> category]

_is_ssrf == GatewayRule("ssrf_block", 90, GatewayTools, "internal_address", "ssrf")
_is_path_traversal ==
    GatewayRule("path_traversal_block", 88, GatewayTools, "traversal", "path_traversal")
_is_command_injection ==
    GatewayRule("command_injection_block", 89, GatewayTools, "shell_command", "prompt_injection")
_has_credential_patterns ==
    GatewayRule("credential_exfil_block", 92, {"email", "web"}, "credential",
                "credential_exfiltration")
_is_deserialization_attack ==
    GatewayRule("deserialization_block", 87, GatewayTools, "pickled", "")
_is_env_harvest ==
    GatewayRule("env_credential_harvest_block", 91, {"shell"}, "env_secret",
                "credential_exfiltration")
_is_large_payload == GatewayRule("large_payload_block", 70, {"web"}, "large", "")
_is_prompt_injection ==
    GatewayRule("prompt_injection_block", 93, GatewayTools, "injection", "prompt_injection")
_is_email_to_attacker ==
    GatewayRule("email_attacker_domain_block", 85, {"email"}, "attacker_address", "")
_is_pii_query == GatewayRule("pii_query_block", 80, {"db"}, "pii_column", "pii_exposure")
_is_privilege_escalation ==
    GatewayRule("privilege_escalation_block", 94, GatewayTools, "root", "")
_is_supply_chain_attack ==
    GatewayRule("supply_chain_block", 82, {"package"}, "untrusted_source", "")
_is_dns_tunneling == GatewayRule("dns_tunneling_block", 78, {"dns"}, "tunnel_domain", "")

\* What the registry of layer 1 refuses; rogue_server_block, the rule of the
\* highest priority, looks for the same.
_is_rogue_server(c) == c.server \notin known_gateway_servers \cup {NoServerId}

\* The others, all of which BLOCK.
gateway_rules ==
    {_is_ssrf, _is_path_traversal, _is_command_injection, _has_credential_patterns,
     _is_deserialization_attack, _is_env_harvest, _is_large_payload, _is_prompt_injection,
     _is_email_to_attacker, _is_pii_query, _is_privilege_escalation, _is_supply_chain_attack,
     _is_dns_tunneling}

Matched(c) == {r \in gateway_rules : c.tool \in r.tools /\ r.mark \in c.marks}
Deciding(c) == CHOOSE r \in Matched(c) : \A q \in Matched(c) : q.priority <= r.priority

\* The one egress rule, with default_deny: the destination has to be one of the
\* names, character by character; a URL is none.
EgressLets(c) == c.dest \in gateway_domains /\ c.port \in {443, 80}

\* The layers that refuse c when they are asked: the registry, the rules, the
\* look for a process in the arguments, the analyzer, the egress policy.
Refusing(c) ==
    {layer \in 1 .. 5 :
        CASE layer = 1 -> _is_rogue_server(c)
          [] layer = 2 -> _is_rogue_server(c) \/ Matched(c) # {}
          [] layer = 3 -> "spawn" \in c.marks
          [] layer = 4 -> IsDangerous(Significant(c.keys, c.marks))
          [] layer = 5 -> c.dest # NoDestination /\ ~EgressLets(c)}

\* evaluate_call(): the first of them blocks; 0 when none does.
BlockedBy(c) == IF Refusing(c) = {} THEN 0 ELSE Min(Refusing(c))

\* total_risk_score: the decision of a rule carries no score.
Risk(c) ==
    LET layer == BlockedBy(c)
    IN  IF layer \in 1 .. 3 THEN <<95, 0, 85>>[layer]
        ELSE Max({SemanticRisk(Significant(c.keys, c.marks)), IF layer = 5 THEN 90 ELSE 0})

_severity_from_risk(risk) == IF risk >= 80 THEN "CRITICAL" ELSE IF risk >= 50 THEN "HIGH"
                             ELSE IF risk >= 25 THEN "MEDIUM" ELSE "LOW"

ByName(tool) == CASE tool = "email" -> "email" [] tool = "db" -> "database" [] OTHER -> "tool_call"

\* By the words in the findings, else by the name of the tool.
_classify_category(c) ==
    IF BlockedBy(c) = 2 /\ Deciding(c).category # "" THEN Deciding(c).category
    ELSE IF BlockedBy(c) = 4 /\ \E f \in Significant(c.keys, c.marks) : f.intent = "hidden_recipient"
    THEN "email_exfiltration" ELSE ByName(c.tool)

\* _broadcast_scan(): the event of a scan.  Latencies are only stored: each is
\* named by the number of its scan.
SecurityEvent(c, source, latency) ==
    [source |-> source, category |-> _classify_category(c),
     severity |-> _severity_from_risk(Risk(c)), tool_name |-> c.tool,
     server_id |-> IF c.server = NoServerId THEN "unknown" ELSE c.server,
     blocked_by_layer |-> BlockedBy(c), latency |-> latency]
-----------------------------------------------------------------------------
VARIABLES
    totals,             \* the counters of `stats`
    latencies,          \* stats["decision_latency_ms"]
    recent_eps,         \* stats["recent_eps"], as events in the window
    event_window,       \* _event_window
    recent_threats,     \* the newest first
    scan_time,
    scans               \* history: [call, event, at] of every scan

gatewayVars == <<totals, latencies, recent_eps, event_window, recent_threats, scan_time, scans>>

Zero(S) == [x \in S |-> 0]

GatewayInit ==
    /\ totals = [total_events |-> 0, blocked |-> 0, allowed |-> 0, by_layer |-> Zero(1 .. 5),
                 by_category |-> Zero({}), by_severity |-> Zero(Severities),
                 source_counts |-> Zero({"external", "demo"}), by_server |-> Zero({}),
                 by_tool |-> Zero({})]
    /\ latencies = << >> /\ recent_eps = << >> /\ event_window = << >>
    /\ recent_threats = << >> /\ scan_time = 0 /\ scans = << >>

\* One more at x, if x is counted at all.
Bumped(f, x) == [y \in DOMAIN f |-> f[y] + IF y = x THEN 1 ELSE 0]

\* One more at x, which is new or not.
Tallied(f, x) == Bumped([y \in DOMAIN f \cup {x} |-> IF y \in DOMAIN f THEN f[y] ELSE 0], x)

Counted(e) ==
    [total_events  |-> totals.total_events + 1,
     blocked       |-> totals.blocked + IF e.blocked_by_layer # 0 THEN 1 ELSE 0,
     allowed       |-> totals.allowed + IF e.blocked_by_layer = 0 THEN 1 ELSE 0,
     by_layer      |-> Bumped(totals.by_layer, e.blocked_by_layer),
     by_category   |-> Tallied(totals.by_category, e.category),
     by_severity   |-> Bumped(totals.by_severity, e.severity),
     source_counts |-> Bumped(totals.source_counts, e.source),
     by_server     |-> Tallied(totals.by_server, e.server_id),
     by_tool       |-> Tallied(totals.by_tool, e.tool_name)]

\* recent_threats.insert(0, e), and pop() beyond the limit.
WithRecent(e) == LET q == << e >> \o recent_threats
                 IN  IF Len(q) > recent_limit THEN Front(q) ELSE q

\* The times of the window once `scan_time` has been appended and the old popped.
Windowed == LET q == Append(event_window, scan_time)
            IN  Filtered(q, {i \in DOMAIN q : scan_time - q[i] <= eps_window})

_record_event(e) ==
    /\ totals' = Counted(e)
    /\ latencies' = Newest(Append(latencies, e.latency), latency_limit)
    /\ event_window' = Windowed
    /\ recent_eps' = Newest(Append(recent_eps, Len(Windowed)), eps_limit)
    /\ recent_threats' = WithRecent(e)

\* Evaluate, make the event, record it.
api_scan(c, source) ==
    LET e == SecurityEvent(c, source, Len(scans) + 1)
    IN  /\ Len(scans) < MaxScans /\ _record_event(e)
        /\ scans' = Append(scans, [call |-> c, event |-> e, at |-> scan_time])
        /\ UNCHANGED scan_time

\* The agent that issues the demo traffic, one call after the other.
workload_agent == \E threat \in BOOLEAN : \E c \in next_tool_call(threat) : api_scan(c, "demo")

ScanTick == /\ scan_time < MaxScanTime /\ scan_time' = scan_time + 1
            /\ UNCHANGED <<totals, latencies, recent_eps, event_window, recent_threats, scans>>

GatewayNext == \/ \E c \in Submitted : api_scan(c, "external")
               \/ workload_agent
               \/ ScanTick

GatewaySpec == GatewayInit /\ [][GatewayNext]_gatewayVars
-----------------------------------------------------------------------------
EventOf(i) == scans[i].event

\* How many of the events have each of the values they have in a field.
Tally(field) == [x \in {EventOf(i)[field] : i \in DOMAIN scans} |->
                    Cardinality({i \in DOMAIN scans : EventOf(i)[field] = x})]

\* The statistics say of every scan what its event says, once: each blocked one
\* is put down to one layer, the recent events are the last that there were, the
\* rate counts the scans of the window that ends with the last (realtime.py:646-689).
StatsExact ==
    LET n == Len(scans)
    IN  /\ totals.total_events = n /\ totals.blocked + totals.allowed = n
        /\ SumFunction(totals.by_layer) = totals.blocked
        /\ SumFunction(totals.by_severity) = n /\ SumFunction(totals.source_counts) = n
        /\ totals.by_category = Tally("category") /\ totals.by_server = Tally("server_id")
        /\ totals.by_tool = Tally("tool_name")
        /\ recent_threats = [i \in 1 .. Min({n, recent_limit}) |-> EventOf(n + 1 - i)]
        /\ latencies = [i \in 1 .. Min({n, latency_limit}) |-> Max({n - latency_limit, 0}) + i]
        /\ Len(recent_eps) = Min({n, eps_limit})
        /\ n > 0 => Last(recent_eps) =
              Cardinality({i \in 1 .. n : scans[n].at - scans[i].at <= eps_window})

\* "Legitimate, everyday tool calls a real assistant makes (should PASS)"
\* (server/workload.py:19).
BenignPasses == \A i \in DOMAIN scans :
    scans[i].call \in _BENIGN_BUILDERS => EventOf(i).blocked_by_layer = 0
=============================================================================
