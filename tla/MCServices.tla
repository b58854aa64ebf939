------------------------------ MODULE MCServices ------------------------------
(***************************************************************************)
(* Small instances of the services that keep state of their own and share  *)
(* none: a behaviour runs one of them; `part` says which.  The clients are *)
(* run with the gateway that answers them.                                 *)
(***************************************************************************)
EXTENDS TokenBucket, WriteAheadLog, Kernel, Alerting, JsonRpc, NetworkMonitor,
        Tracing, GatewayClient, RedTeam, Monitor, ModelStore,
        TLC

CONSTANTS OtherTrace, OtherSpan

VARIABLE part

Parts == {"bucket", "wal", "kernel", "alerting", "histogram", "rpc", "network", "tracing",
          "gateway", "client", "redteam", "monitor", "store"}

\* The parts named do not move.
Still(parts) == /\ "bucket" \in parts => UNCHANGED vars
                /\ "wal" \in parts => UNCHANGED walVars
                /\ {"kernel", "redteam"} \subseteq parts => UNCHANGED kernelVars
                /\ "alerting" \in parts => UNCHANGED alertVars
                /\ "histogram" \in parts => UNCHANGED histogramVars
                /\ "rpc" \in parts => UNCHANGED rpcVars
                /\ "network" \in parts => UNCHANGED networkVars
                /\ "tracing" \in parts => UNCHANGED tracingVars
                /\ {"gateway", "client"} \subseteq parts => UNCHANGED gatewayVars
                /\ "client" \in parts => UNCHANGED clientVars
                /\ "redteam" \in parts => UNCHANGED simVars
                /\ "monitor" \in parts => UNCHANGED monitorVars
                /\ "store" \in parts => UNCHANGED storeVars

Vars == <<part, vars, walVars, kernelVars, alertVars, histogramVars, rpcVars, networkVars,
          tracingVars, gatewayVars, clientVars, simVars, monitorVars, storeVars>>

ServicesInit == /\ part \in Parts /\ Init /\ WalInit /\ KernelInit /\ AlertInit
                /\ HistogramInit /\ RpcInit /\ NetworkInit /\ TracingInit
                /\ GatewayInit /\ ClientInit /\ SimulatorInit /\ MonitorInit /\ StoreInit
                /\ part # "monitor" => ~trainable /\ approved = {}

ServicesNext ==
    /\ UNCHANGED part /\ Still(Parts \ {part})
    /\ \/ part = "bucket" /\ Next
       \/ part = "wal" /\ WalNext
       \/ part = "kernel" /\ KernelNext
       \/ part = "alerting" /\ AlertNext
       \/ part = "histogram" /\ HistogramNext
       \/ part = "rpc" /\ RpcNext
       \/ part = "network" /\ NetworkNext
       \/ part = "tracing" /\ TracingNext
       \/ part = "gateway" /\ GatewayNext
       \/ part = "client" /\ ClientNext
       \/ part = "redteam" /\ SimulatorNext
       \/ part = "monitor" /\ MonitorNext
       \/ part = "store" /\ StoreNext

ServicesSpec == ServicesInit /\ [][ServicesNext]_Vars

Event(server, type, port, large) ==
    [server |-> server, type |-> type, destination |-> port, port |-> port,
     path |-> port, large |-> large]

MCKernelEvents ==
    {Event("a", "network_connect", port, FALSE) : port \in {"api", "smtp"}}
    \cup {Event("a", type, "smtp", TRUE) :
            type \in {"dns_resolve", "file_open", "process_spawn", "socket_send", "exec"}}

\* A limit of one, of none, and with everything else forbidden.
Policy(server, limit, allowed, blocked) ==
    [server_id |-> server, max_connections_per_minute |-> limit,
     allowed_ports |-> allowed, allowed_destinations |-> allowed, allowed_paths |-> allowed,
     blocked_destinations |-> blocked, allow_dns |-> FALSE, allow_subprocess |-> FALSE]

MCPolicies == {Policy("a", 1, {}, {}), Policy("a", 0, {"api"}, {"smtp"}), Policy("a", 2, {"api"}, {})}

Row(family, host, port) == [family |-> family, host |-> host, port |-> port]
Address(form, host) == [form |-> form, host |-> host]

\* What stands in a table of tcp, and in an alert about a row of tcp6.
MCAddresses == {Address("dotted", "mx"), Address("ipv6", "mx")}

\* A mail server, a web server, a neighbour, a socket that listens, and a mail
\* server and a web server reached through a socket of tcp6.
MCTables ==
    {{Row("tcp", "mx", "smtp"), Row("tcp", "web", "https")}, {Row("tcp", "local", "smtp")},
     {Row("tcp", "any", NoPort), Row("tcp", "web", "smtp")},
     {Row("tcp", "mx", "https"), Row("tcp6", "mx", "https")}, {Row("tcp6", "web", "smtp")}}

Words(normal, decoded, hidden, pii, url) ==
    [normal |-> normal, decoded |-> decoded, hidden |-> hidden, pii |-> pii, url |-> url]
Plain == Words({}, {}, {}, {}, FALSE)
Carrying(texts, recipient) ==
    [object |-> TRUE, texts |-> texts, recipient |-> recipient, oversized |-> FALSE, blob |-> FALSE]

SendMail == [name |-> "mail.send", prefix |-> "mail", email |-> TRUE]
ReadFile == [name |-> "fs.read", prefix |-> "fs", email |-> FALSE]
Search == [name |-> "search", prefix |-> NoPrefix, email |-> FALSE]

Asks(server, tool, payload, proba) ==
    [server |-> server, tool |-> tool, payload |-> payload, labels |-> {}, proba |-> proba]

\* One pattern is let through, two are not, be they in one text or two, in a
\* variant of it or in what is stripped from it; the classifier decides on none.
MCToolCalls ==
    {Asks("s1", ReadFile, Carrying(<< Plain >>, "none"), proba) : proba \in {69, 70}}
    \cup {Asks("s1", SendMail, Carrying(<< Words({"override"}, {}, {}, {}, FALSE) >>, r), 90) :
            r \in {"blank", "nested"}}
    \cup {Asks("s2", Search, Carrying(<< Words({"override"}, {{"roleplay"}}, {}, {}, FALSE) >>, "none"), 0),
          Asks("s2", Search, Carrying(<< Words({}, {{"override"}}, {}, {}, FALSE),
                                         Words({}, {}, {"unicode_bidi_override"}, {}, FALSE) >>, "none"), 0),
          Asks("s2", ReadFile, Carrying(<< Words({}, {}, {}, {"ssn"}, FALSE) >>, "none"), 0),
          Asks("s2", SendMail, [Carrying(<< >>, "none") EXCEPT !.object = FALSE], 0),
          Asks(NoServer, Search, Carrying(<< >>, "none"), 0)}

MCToolOutputs ==
    {[tool |-> SendMail, payload |-> p, labels |-> {"email"}] :
        p \in {Carrying(<< Words({}, {}, {}, {}, TRUE) >>, "none"),
               [Carrying(<< Plain >>, "none") EXCEPT !.object = FALSE]}}

MCCapabilities == {{}, {"mail"}, {"fs.read"}}

\* What the server reports of itself: no finding twice within a cooldown, buckets
\* that add up, the newest spans in their order, and a batch that is its parts.
ReportsInv == OnePerCooldown /\ BucketsCumulative /\ SpansExact /\ BatchIsItsParts

\* The gateway's statistics are those of the scans, and no tool behind a client is
\* run without a scan that allowed it.
DeployedInv == StatsExact /\ GuardedRuns

MCKeys == {"to", "subject", "body", "bcc", "copy_of", "url", "destination", "path", "sql",
           "command", "text", "a", "blind_copy"}
MCSynonyms == {"bcc", "blind_copy"}
MCEmailIndicators == {"to", "subject", "body"}
MCExtraWords == {"copy_of", "blind_copy"}
MCResembles == [url |-> "callback_url", destination |-> "additional_destinations",
                a |-> "extra_recipients"]

\* calendar, as a server that is not registered, is missing on purpose.
MCKnownServers ==
    {"postmark", "email", "sendgrid", "smtp", "vault", "openai", "search", "database", "webhook",
     "calc", "system", "filesystem", "api", "proxy", "network", "auth", "ml-pipeline", "storage",
     "package-manager"}
MCDomains == {"api.openai.com"}

\* One for each of the later layers, and one that passes with a risk of its own.
MCSubmitted ==
    {ToolCall("other", "system", {"text"}, {"spawn"}),
     ToolCall("email", "postmark", {"to", "copy_of"}, {"encoded_email"}),
     At(ToolCall("web", NoServerId, {"destination"}, {}), "api.openai.com"),
     At(ToolCall("web", "api", {"url"}, {}), "api.openai.com"),
     ToolCall("other", "calc", {"a"}, {"exfil_text"})}

\* One call that is allowed, and one that is not.
MCGuarded == {c \in MCSubmitted : c.server = "api" \/ c.tool = "email"}

Header(wellformed, trace, parent) ==
    [wellformed |-> wellformed, trace |-> trace, parent |-> parent]

\* A foreign span, a span started here in a foreign trace, and no header at all.
MCTraceparents == {Header(TRUE, OtherTrace, OtherSpan), Header(TRUE, OtherTrace, 1),
                   Header(FALSE, OtherTrace, OtherSpan)}

Message(version, response, method, has_id, params) ==
    [version |-> version, response |-> response, method |-> method,
     has_id |-> has_id, params |-> params]

MCMessages ==
    {Message(TRUE, FALSE, "tools/call", TRUE, "object"), Message(TRUE, FALSE, "tools/call", FALSE, "object"),
     Message(TRUE, FALSE, "tools/call", TRUE, "bad"), Message(TRUE, FALSE, "tools/list", TRUE, "bad"),
     Message(TRUE, FALSE, "notifications/progress", FALSE, "object"),
     Message(TRUE, FALSE, "ping", TRUE, "object"), Message(TRUE, TRUE, "none", TRUE, "object"),
     Message(TRUE, FALSE, "none", TRUE, "object"), Message(FALSE, FALSE, "tools/call", TRUE, "object")}
=============================================================================
