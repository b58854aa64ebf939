--------------------------- MODULE NetworkMonitor ---------------------------
(***************************************************************************)
(* defense10/network_monitor.py: NetworkMonitor compares the kernel's      *)
(* tables of connections with lists of remotes and ports.  A row of        *)
(* /proc/net/tcp is read as the dotted address of its host, a row of tcp6, *)
(* IPv4-mapped ones too, as a text of its own, whatever its host.          *)
(***************************************************************************)
EXTENDS Naturals, FiniteSets

CONSTANTS
    Remotes,        \* hosts
    LocalRemotes,   \* those of 127/8, 10/8, 192.168/16 and 172.16/12
    Wildcards,      \* 0.0.0.0
    Addresses,      \* the addresses operators write: [form, host]
    Ports, MailPorts,   \* _SMTP_PORTS
    NoPort,         \* the None of allow(); the port 0 of a socket that listens
    Tables,         \* what the two files may hold: sets of [family, host, port]
    MaxAlerts       \* bound on the alerts kept

ASSUME RemotesAssumption ==
    /\ LocalRemotes \cup Wildcards \subseteq Remotes /\ MailPorts \subseteq Ports
    /\ NoPort \notin Ports
    /\ Addresses \subseteq [form : {"dotted", "ipv6"}, host : Remotes]
    /\ Tables \subseteq SUBSET [family : {"tcp", "tcp6"}, host : Remotes, port : Ports \cup {NoPort}]

VARIABLES
    allowed_remotes, allowed_ports, blocked_remotes,
    kept_alerts,    \* the length of _alerts
    allows, blocks, \* history: the arguments of the calls of allow() and block()
    seen            \* history: what scan() read and returned since the last of them

networkVars == <<allowed_remotes, allowed_ports, blocked_remotes, kept_alerts, allows, blocks,
                 seen>>

NothingSeen == [rows |-> {}, alerts |-> {}]

NetworkInit == /\ allowed_remotes = {} /\ allowed_ports = {} /\ blocked_remotes = {}
               /\ kept_alerts = 0 /\ allows = {} /\ blocks = {} /\ seen = NothingSeen

\* The port is allowed for every remote, not for this one alone.
allow_remote(addr, port) ==
    /\ allowed_remotes' = allowed_remotes \cup {addr}
    /\ allowed_ports' = allowed_ports \cup ({port} \ {NoPort})
    /\ allows' = allows \cup {[addr |-> addr, port |-> port]} /\ seen' = NothingSeen
    /\ UNCHANGED <<blocked_remotes, kept_alerts, blocks>>

block_remote(addr) ==
    /\ blocked_remotes' = blocked_remotes \cup {addr} /\ blocks' = blocks \cup {addr}
    /\ seen' = NothingSeen
    /\ UNCHANGED <<allowed_remotes, allowed_ports, kept_alerts, allows>>

_parse_addr(c) == [form |-> IF c.family = "tcp" THEN "dotted" ELSE "ipv6", host |-> c.host]

\* Every address of tcp6 passes for a local one.
_is_local(addr) == addr.form = "ipv6" \/ addr.host \in LocalRemotes \cup Wildcards

HiddenMail(c) == c.port \in MailPorts \ allowed_ports
Unapproved(c) == /\ allowed_remotes # {} /\ _parse_addr(c) \notin allowed_remotes
                 /\ ~_is_local(_parse_addr(c))

\* Mutant: a host that is allowed is not looked up among the blocked.
ReasonAllowedFirst(c) ==
    IF _parse_addr(c) \in blocked_remotes \ allowed_remotes THEN "blocked"
    ELSE IF HiddenMail(c) THEN "mail" ELSE IF Unapproved(c) THEN "unapproved" ELSE "none"

Reason(c) == IF _parse_addr(c) \in blocked_remotes THEN "blocked"
             ELSE IF HiddenMail(c) THEN "mail" ELSE IF Unapproved(c) THEN "unapproved" ELSE "none"

\* The zeros of a tcp6 row are not compared with "::" but with its own text.
Leaves(c) == c.port # NoPort /\ (c.family = "tcp" => c.host \notin Wildcards)

Alert(c) == [addr |-> _parse_addr(c), port |-> c.port, reason |-> Reason(c)]

\* scan(): every scan reports what is still there again.
scan(conns) ==
    LET found_alerts == {Alert(c) : c \in {x \in conns : Leaves(x) /\ Reason(x) # "none"}}
    IN  /\ kept_alerts + Cardinality(found_alerts) <= MaxAlerts
        /\ kept_alerts' = kept_alerts + Cardinality(found_alerts)
        /\ seen' = [rows |-> conns, alerts |-> found_alerts]
        /\ UNCHANGED <<allowed_remotes, allowed_ports, blocked_remotes, allows, blocks>>

NetworkNext == \/ \E addr \in Addresses, port \in Ports \cup {NoPort} : allow_remote(addr, port)
               \/ \E addr \in Addresses : block_remote(addr)
               \/ \E conns \in Tables : scan(conns)

NetworkSpec == NetworkInit /\ [][NetworkNext]_networkVars
-----------------------------------------------------------------------------
\* What the last scan said of a row.
Said(c) == {r.reason : r \in {x \in seen.alerts : x.addr = _parse_addr(c) /\ x.port = c.port}}

\* Whatever was allowed and blocked before, and in whatever order, a scan reports
\* an outbound row whose address, as it is read, somebody blocked, as blocked and
\* as nothing else, though it was allowed as well; it is silent about a row only
\* if it goes to no mail port that nobody allowed and, once any remote is allowed,
\* to an allowed one, a local one or one of tcp6; and it reports nothing that
\* somebody allowed in every respect (network_monitor.py:114-154).
ScanIsTrue ==
    /\ \A c \in seen.rows : Leaves(c) =>
         LET addr == _parse_addr(c)
             host_allowed == \E a \in allows : a.addr = addr
             port_allowed == \E a \in allows : a.port = c.port
         IN  /\ addr \in blocks => Said(c) = {"blocked"}
             /\ Said(c) = {} => /\ c.port \in MailPorts => port_allowed
                                /\ allows = {} \/ host_allowed \/ c.family # "tcp"
                                   \/ c.host \in LocalRemotes
             /\ addr \notin blocks /\ host_allowed /\ port_allowed => Said(c) = {}
    /\ \A r \in seen.alerts : \E c \in seen.rows :
         Leaves(c) /\ r.addr = _parse_addr(c) /\ r.port = c.port

\* "If an MCP server opens a socket to giftshop.club, it appears here"
\* (network_monitor.py:5-6): an outbound row to a host that somebody blocked under
\* whatever address is reported.  It is not: the row of a socket of tcp6 is read as
\* a text that equals no dotted address, and passes for local.
BlockedIsReported == \A c \in seen.rows :
    Leaves(c) /\ (\E addr \in blocks : addr.host = c.host) => Said(c) # {}
=============================================================================
