------------------------------- MODULE RedTeam -------------------------------
(***************************************************************************)
(* redteam/: the catalogue of attacks, and the simulator that replays them *)
(* through the layers of the deployed gateway and its kernel monitor.      *)
(***************************************************************************)
EXTENDS Gateway, Kernel

CONSTANT MaxReplays     \* bound on the runs of the simulator

NoCall == [tool |-> "none"]

\* Names are the positions in the catalogue; a call is described as in Gateway,
\* with the BCC synonyms as one key, "blind_copy".
Attack(category, call, events, expected_layers) ==
    [category |-> category, tool_call |-> call, kernel_events |-> events,
     expected_layers |-> expected_layers]

\* The events are those of the attack's server.
Syscall(server, type, destination, port) ==
    [server |-> server, type |-> type, destination |-> destination, port |-> port,
     path |-> "", large |-> TRUE]

_smtp(server) == Syscall(server, "network_connect", "smtp.giftshop.club", "smtp")

EmailAttacks ==
    << Attack("email_exfiltration",
              ToolCall("email", "postmark", {"to", "subject", "body", "bcc"}, {"attacker_address"}),
              << _smtp("postmark") >>, {2, 4, 5}),
       Attack("email_exfiltration",
              ToolCall("email", "postmark", {"to", "subject", "body", "bcc"}, {"attacker_address"}),
              << >>, {2}),
       Attack("semantic_evasion",
              ToolCall("email", "email", {"to", "subject", "body", "blind_copy"}, {}), << >>, {4}),
       Attack("semantic_evasion",
              ToolCall("email", "sendgrid", {"to", "subject", "body", "blind_copy"}, {}),
              << >>, {4}),
       Attack("semantic_evasion",
              ToolCall("email", "smtp", {"text", "blind_copy"}, {"attacker_address"}), << >>, {4}),
       Attack("encoding_evasion",
              ToolCall("email", "email", {"to", "body", "text"}, {"encoded_email"}), << >>, {4}),
       Attack("credential_harvest", ToolCall("other", "vault", {"text"}, {}), << >>, {}),
       Attack("credential_harvest",
              ToolCall("email", "email", {"to", "subject", "body"}, {"attacker_address"}),
              << >>, {2}) >>

InjectionAttacks ==
    << Attack("prompt_injection", ToolCall("other", "openai", {"text"}, {"injection"}), << >>, {2}),
       Attack("prompt_injection", ToolCall("other", "search", {"text"}, {"injection"}), << >>, {2}),
       Attack("shadow_server", ToolCall("other", "rogue", {"command"}, {}), << >>, {2}),
       Attack("data_exfiltration",
              At(ToolCall("web", "webhook", {"url", "body"}, {"large"}), "https://evil/dump"),
              << >>, {2, 5}),
       Attack("network_exfiltration",
              At(ToolCall("web", "postmark", {"url", "text"}, {"attacker_address"}), "giftshop.club"),
              << >>, {5}),
       Attack("network_exfiltration",
              At(ToolCall("web", "postmark", {"url", "text"}, {}), "http://185.234.72.15/c2"),
              << >>, {2, 5}) >>

HiddenAttacks ==
    << Attack("kernel_attack", NoCall,
              << _smtp("unknown"), Syscall("unknown", "socket_send", "smtp.giftshop.club", "") >>, {3}),
       Attack("kernel_attack", NoCall, << Syscall("unknown", "process_spawn", "", "") >>, {3}),
       Attack("pii_leakage", ToolCall("db", "database", {"sql"}, {"pii_column"}), << >>, {2}),
       Attack("credential_theft", ToolCall("shell", "system", {"command"}, {"env_secret"}),
              << >>, {2}),
       Attack("credential_theft",
              ToolCall("other", "filesystem", {"path", "blind_copy"}, {"attacker_address"}),
              << >>, {4}),
       Attack("credential_theft",
              At(ToolCall("web", "webhook", {"url", "body"}, {"credential"}), "https://evil/tokens"),
              << >>, {2, 5}) >>

Ssrf(server, url) == Attack("ssrf", At(ToolCall("web", server, {"url"}, {"internal_address"}), url),
                            << >>, {2})
Traversal(server) == Attack("path_traversal",
                            ToolCall("other", server, {"path"}, {"traversal"}), << >>, {2})

ServerAttacks ==
    << Ssrf("api", "http://169.254.169.254/latest"), Ssrf("api", "http://127.0.0.1:8080/admin"),
       Ssrf("proxy", "http://10.0.0.1:9200"), Ssrf("api", "http://169.254.169.254/metadata"),
       Traversal("filesystem"), Traversal("filesystem"), Traversal("storage"),
       Attack("deserialization",
              At(ToolCall("other", "ml-pipeline", {"url", "text"}, {"pickled"}), "https://evil.com/pkl"),
              << >>, {2}),
       Attack("deserialization",
              ToolCall("other", "system", {"text"}, {"pickled", "shell_command", "spawn"}), << >>, {2}) >>

OtherAttacks ==
    << Attack("rate_limit_bypass", ToolCall("other", "auth", {"text"}, {}), << >>, {}),
       Attack("timing_attack", ToolCall("other", "auth", {"text"}, {}), << >>, {}),
       Attack("command_injection", ToolCall("other", "system", {"text"}, {"shell_command"}), << >>, {2}),
       Attack("command_injection", ToolCall("other", "search", {"text"}, {"shell_command"}), << >>, {2}),
       Attack("dns_exfiltration",
              ToolCall("dns", "network", {"text"}, {"tunnel_domain", "attacker_address"}), << >>, {5}),
       Attack("tool_chaining",
              ToolCall("email", "email", {"to", "subject", "body"}, {"credential", "attacker_address"}),
              << >>, {2}),
       Attack("supply_chain",
              ToolCall("package", "package-manager", {"text"}, {"untrusted_source"}), << >>, {2}),
       Attack("privilege_escalation", ToolCall("shell", "system", {"command"}, {"root"}), << >>, {2}) >>

ATTACK_CATALOG == EmailAttacks \o InjectionAttacks \o HiddenAttacks \o ServerAttacks \o OtherAttacks
Named == DOMAIN ATTACK_CATALOG
AttackCategories == {ATTACK_CATALOG[n].category : n \in Named}

\* What the catalogue counts on in the configuration it is replayed against.
ASSUME CatalogAssumption ==
    /\ {"postmark", "unknown"} \subseteq Hosts
    /\ {"vault", "auth"} \subseteq known_gateway_servers
    /\ "text" \notin Synonyms \cup DOMAIN Resembles \cup ExtraWords
    /\ "blind_copy" \in Synonyms /\ semantic_sensitivity \in 0 .. 90
    /\ {"giftshop.club", "http://185.234.72.15/c2"} \cap (gateway_domains \cup {NoDestination}) = {}

\* The policy of every known server of the gateway.
gateway_policy(s) ==
    [server_id |-> s, allowed_destinations |-> {"api.postmarkapp.com", "smtp.postmarkapp.com"},
     allowed_ports |-> {"https", "http"}, allowed_paths |-> {}, blocked_destinations |-> {},
     max_connections_per_minute |-> 100, allow_subprocess |-> FALSE, allow_dns |-> TRUE]
-----------------------------------------------------------------------------
VARIABLES
    sim_results,    \* _results
    replay,         \* the loop of a run: what is left to do, what is done
    attacking,      \* the attack being executed
    report,         \* what the last run returned
    replays         \* the number of runs

simVars == <<sim_results, replay, attacking, report, replays>>

NoReplay == [todo |-> << >>, done |-> << >>, single |-> FALSE]
NoAttack == [name |-> 0, blocked |-> FALSE, by |-> 0, left |-> << >>]
NoReport == [total |-> 0, blocked |-> 0, missed |-> 0, by_category |-> << >>, by_layer |-> << >>]

SimulatorInit == /\ sim_results = << >> /\ replay = NoReplay /\ attacking = NoAttack
                 /\ report = NoReport /\ replays = 0

\* The attacks of a run, in the order of the catalogue.
Replays(names, single) ==
    /\ replay = NoReplay /\ replays < MaxReplays /\ replays' = replays + 1
    /\ replay' = [todo |-> Filtered([n \in Named |-> n], names), done |-> << >>, single |-> single]
    /\ UNCHANGED <<sim_results, attacking, report, kernelVars>>

run_full_catalog == Replays(Named, FALSE)
run_category(category) == Replays({n \in Named : ATTACK_CATALOG[n].category = category}, FALSE)
run_single(name) == Replays({name}, TRUE)

\* _execute_attack(), its tool call: all layers but the kernel monitor's.
evaluate_attack ==
    LET name == Head(replay.todo)
        attack == ATTACK_CATALOG[name]
        by == IF attack.tool_call = NoCall THEN 0 ELSE BlockedBy(attack.tool_call)
    IN  /\ attacking = NoAttack /\ replay.todo # << >>
        /\ attacking' = [name |-> name, blocked |-> by # 0, by |-> by, left |-> attack.kernel_events]
        /\ UNCHANGED <<sim_results, replay, report, replays, kernelVars>>

\* Mutant: an alert blocks, but the layer stays unset.
Alerted(a) == [a EXCEPT !.blocked = TRUE, !.left = Tail(@)]

\* An alert counts for the third layer, unless one has blocked before.
Caught(a) == [a EXCEPT !.blocked = TRUE, !.by = IF @ = 0 THEN 3 ELSE @, !.left = Tail(@)]

\* One of its kernel events.
feed_event ==
    LET e == Head(attacking.left)
    IN  /\ attacking.left # << >>
        /\ process_unknown(e) \/ process_connect(e) \/ process_other(e)
        /\ attacking' = IF found' # {} THEN Caught(attacking)
                        ELSE [attacking EXCEPT !.left = Tail(@)]
        /\ UNCHANGED <<sim_results, replay, report, replays>>

AttackResult(a) == [attack |-> a.name, category |-> ATTACK_CATALOG[a.name].category,
                    blocked |-> a.blocked, blocked_by_layer |-> a.by]

attack_ends ==
    /\ attacking # NoAttack /\ attacking.left = << >> /\ attacking' = NoAttack
    /\ sim_results' = Append(sim_results, AttackResult(attacking))
    /\ replay' = [replay EXCEPT !.todo = Tail(@), !.done = Append(@, AttackResult(attacking))]
    /\ UNCHANGED <<report, replays, kernelVars>>

_build_report(results) ==
    LET Those(P(_)) == Cardinality({i \in DOMAIN results : P(results[i])})
        blocked == Those(LAMBDA r : r.blocked)
        categories == {results[i].category : i \in DOMAIN results}
        layers == {results[i].blocked_by_layer : i \in DOMAIN results} \ {0}
    IN  [total |-> Len(results), blocked |-> blocked, missed |-> Len(results) - blocked,
         by_category |-> [c \in categories |->
             [total |-> Those(LAMBDA r : r.category = c),
              blocked |-> Those(LAMBDA r : r.category = c /\ r.blocked),
              missed |-> Those(LAMBDA r : r.category = c /\ ~r.blocked)]],
         by_layer |-> [l \in layers |-> Those(LAMBDA r : r.blocked_by_layer = l)]]

\* run_single() returns the result alone.
run_ends == /\ replay # NoReplay /\ replay.todo = << >> /\ replay' = NoReplay
            /\ report' = IF replay.single THEN report ELSE _build_report(replay.done)
            /\ UNCHANGED <<sim_results, attacking, replays, kernelVars>>

\* A policy may be registered at any time, or never.
SimulatorNext ==
    \/ run_full_catalog
    \/ \E category \in AttackCategories : run_category(category)
    \/ \E name \in Named : run_single(name)
    \/ evaluate_attack \/ feed_event \/ attack_ends \/ run_ends
    \/ register_policy(gateway_policy("postmark")) /\ UNCHANGED simVars

SimulatorSpec == SimulatorInit /\ KernelInit /\ [][SimulatorNext]_<<simVars, kernelVars>>
-----------------------------------------------------------------------------
\* An attack is blocked exactly when some layer is to catch it, and by the same
\* layer however often and after whatever others it is replayed: the monitors it
\* meets remember nothing that tells (simulator.py:106-157).
CatalogHolds == \A i, j \in DOMAIN sim_results :
    LET r == sim_results[i] IN
    /\ r.blocked <=> ATTACK_CATALOG[r.attack].expected_layers # {}
    /\ r.attack = sim_results[j].attack => r.blocked_by_layer = sim_results[j].blocked_by_layer

\* The parts of a report add up: every blocked attack is put down to one layer,
\* every attack to one category (simulator.py:159-193).
ReportAdds ==
    LET Over(field) == SumFunction([c \in DOMAIN report.by_category |->
                                        report.by_category[c][field]])
    IN  /\ report.blocked + report.missed = report.total
        /\ SumFunction(report.by_layer) = report.blocked
        /\ Over("total") = report.total /\ Over("blocked") = report.blocked
        /\ Over("missed") = report.missed

SimulatorInv == CatalogHolds /\ ReportAdds

\* "expected_layers: Which layers should catch it" (redteam/payloads.py:18): each of
\* them would refuse the call, were it asked.
ExpectedLayersRefuse == \A n \in Named :
    LET a == ATTACK_CATALOG[n]
    IN  a.tool_call # NoCall => a.expected_layers \subseteq Refusing(a.tool_call)
=============================================================================
