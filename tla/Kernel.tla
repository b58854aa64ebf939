-------------------------------- MODULE Kernel --------------------------------
(***************************************************************************)
(* layers/kernel.py: KernelMonitor compares the system calls of servers    *)
(* with their policies and counts their connections.                       *)
(***************************************************************************)
EXTENDS Lists

CONSTANTS Hosts,            \* the servers that are watched
          KernelEvents,     \* [server, type, destination, port, path, large]
          Policies,         \* what register_policy() is called with
          SmtpPorts,
          minute,           \* the 60 seconds of the window
          NoPolicy,
          MaxEvents, MaxUptime      \* bounds on connections and clock

ASSUME MinuteAssumption == minute \in Nat
ASSUME PoliciesAssumption == \A p \in Policies : p.max_connections_per_minute \in Int

VARIABLES
    policies,           \* _policies
    connection_counts,  \* _connection_counts: the times kept, per server
    uptime,
    found,              \* the types of the alerts of the last event
    connects            \* history: every connection of each server

kernelVars == <<policies, connection_counts, uptime, found, connects>>

KernelInit == /\ policies = [s \in Hosts |-> NoPolicy]
              /\ connection_counts = [s \in Hosts |-> <<>>]
              /\ uptime = 0 /\ found = {} /\ connects = [s \in Hosts |-> <<>>]

register_policy(p) ==
    /\ policies' = [policies EXCEPT ![p.server_id] = p]
    /\ UNCHANGED <<connection_counts, uptime, found, connects>>

detect_hidden_smtp(e, p) == e.port \in SmtpPorts /\ e.port \notin p.allowed_ports

\* A blocked destination ends the checks of a connection.
_check_network(e, p) ==
    IF e.destination \in p.blocked_destinations THEN {"blocked_destination"}
    ELSE {type \in {"unknown_destination", "unauthorized_port", "hidden_smtp"} :
            CASE type = "unknown_destination" -> /\ p.allowed_destinations # {}
                                                 /\ e.destination \notin p.allowed_destinations
              [] type = "unauthorized_port"   -> /\ p.allowed_ports # {}
                                                 /\ e.port \notin p.allowed_ports
              [] type = "hidden_smtp"         -> detect_hidden_smtp(e, p)}

\* The alerts that depend on the event and the policy alone; a path is named by
\* the allowed prefix it begins with, if there is one.
Checked(e, p) ==
    CASE e.type = "network_connect" -> _check_network(e, p)
      [] e.type = "dns_resolve"     -> {type \in {"unauthorized_dns", "blocked_dns"} :
                                          IF type = "unauthorized_dns" THEN ~p.allow_dns
                                          ELSE e.destination \in p.blocked_destinations}
      [] e.type = "file_open"       -> IF p.allowed_paths # {} /\ e.path \notin p.allowed_paths
                                       THEN {"unauthorized_file_access"} ELSE {}
      [] e.type = "process_spawn"   -> IF p.allow_subprocess THEN {} ELSE {"unauthorized_subprocess"}
      [] e.type = "socket_send"     -> IF e.large /\ e.destination \notin p.allowed_destinations
                                       THEN {"large_send_unknown_dest"} ELSE {}
      [] OTHER                      -> {}

\* Mutant: a connection is forgotten at its sixtieth second.
KeptShort(times) == Filtered(times, {i \in DOMAIN times : uptime - times[i] < minute})

Kept(times) == Filtered(times, {i \in DOMAIN times : uptime - times[i] <= minute})

\* `limit` is the limit that counts for the connection, `alerted` whether the
\* rate was reported.
Connected(e, counted, limit, alerted) ==
    connects' = [connects EXCEPT ![e.server] = Append(@,
        [ts |-> uptime, counted |-> counted, limit |-> limit, alerted |-> alerted])]

\* process_event() for a server without a policy: no connection is counted.
process_unknown(e) ==
    /\ policies[e.server] = NoPolicy /\ found' = {"no_policy"}
    /\ IF e.type = "network_connect" THEN Connected(e, FALSE, 0, FALSE) ELSE UNCHANGED connects
    /\ UNCHANGED <<policies, connection_counts, uptime>>

process_connect(e) ==
    LET p == policies[e.server]
        times == Kept(Append(connection_counts[e.server], uptime))
        limit == p.max_connections_per_minute
    IN  /\ p # NoPolicy /\ e.type = "network_connect"
        /\ connection_counts' = [connection_counts EXCEPT ![e.server] = times]
        /\ found' = Checked(e, p) \cup (IF Len(times) > limit THEN {"rate_limit_exceeded"} ELSE {})
        /\ Connected(e, TRUE, limit, Len(times) > limit)
        /\ UNCHANGED <<policies, uptime>>

process_other(e) ==
    /\ policies[e.server] # NoPolicy /\ e.type # "network_connect"
    /\ found' = Checked(e, policies[e.server])
    /\ UNCHANGED <<policies, connection_counts, uptime, connects>>

Uptime == /\ uptime < MaxUptime /\ uptime' = uptime + 1
          /\ UNCHANGED <<policies, connection_counts, found, connects>>

KernelNext ==
    \/ \E p \in Policies : register_policy(p)
    \/ \E e \in KernelEvents :
         /\ Len(connects[e.server]) < MaxEvents
         /\ process_unknown(e) \/ process_connect(e) \/ process_other(e)
    \/ Uptime

KernelSpec == KernelInit /\ [][KernelNext]_kernelVars
-----------------------------------------------------------------------------
\* The connections of the minute that ends with the j-th of a server, but those
\* it made before it had a policy.
Minute(s, j) == {i \in 1 .. j : /\ connects[s][i].counted
                                /\ connects[s][j].ts - connects[s][i].ts <= minute}

\* A connection is reported as too many exactly when its minute holds more
\* than the limit of the policy in force, whatever policies came before and
\* whatever else is wrong with it (kernel.py:142-154).
RateAlertExact == \A s \in Hosts : \A j \in 1 .. Len(connects[s]) :
    connects[s][j].alerted <=> /\ connects[s][j].counted
                               /\ Cardinality(Minute(s, j)) > connects[s][j].limit
=============================================================================
