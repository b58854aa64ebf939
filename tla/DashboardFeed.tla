--------------------------- MODULE DashboardFeed ---------------------------
(***************************************************************************)
(* mcp_monitor/server/realtime.py: scans are recorded and broadcast to the *)
(* dashboards' WebSockets.  Every await is a place where other tasks of    *)
(* the event loop run, so broadcast() walks a list that connect() and      *)
(* disconnect() change under it.                                           *)
(***************************************************************************)
EXTENDS Integers, FiniteSets, SequencesExt

CONSTANTS
    Sockets,        \* WebSockets; a dashboard that reconnects has a new one
    Scans,          \* calls of POST /api/scan and of the workload agent
    Leavers,        \* sockets whose peer may go away
    NoSocket

ASSUME LeaversAssumption  == Leavers \subseteq Sockets
ASSUME NoSocketAssumption == NoSocket \notin Sockets

VARIABLES
    active,         \* ConnectionManager.active
    endpoint,       \* websocket_endpoint of each socket
    gone,           \* sockets whose peer has left
    recorded,       \* scans in stats and recent_threats
    snapshot,       \* per socket: the scans its snapshot shows
    received,       \* per socket: the scans sent to it, in order
    cast,           \* per scan: its broadcast()
    pulled          \* history: scans whose walk was overtaken (see Overtaken)

vars == <<active, endpoint, gone, recorded, snapshot, received, cast, pulled>>

Casts == [pc : {"new", "sending", "returned", "raised"},
          index : Nat, to : Sockets \cup {NoSocket}, dead : Seq(Sockets)]

Init == /\ active = << >>
        /\ endpoint = [s \in Sockets |-> "new"] /\ gone = {}
        /\ recorded = {} /\ snapshot = [s \in Sockets |-> {}]
        /\ received = [s \in Sockets |-> << >>]
        /\ cast = [e \in Scans |->
              [pc |-> "new", index |-> 0, to |-> NoSocket, dead |-> << >>]]
        /\ pulled = {}

\* The positions of the sockets that stay when those of S are removed.
Kept(S) == {j \in DOMAIN active : active[j] \notin S}

\* The list without the sockets of S: the k-th of those that stay is at k.
ListedStill(S) == active                    \* mutant: the new list is dropped
Without(S) ==
    [k \in 1..Cardinality(Kept(S)) |->
        active[CHOOSE j \in Kept(S) : Cardinality({i \in Kept(S) : i <= j}) = k]]

\* The walks that are overtaken when the sockets of S leave the list: one of them
\* was at or before the walk's position, so those behind move up past it.
Overtaken(S) == {e \in Scans : /\ cast[e].pc = "sending"
                               /\ \E k \in DOMAIN active : k <= cast[e].index /\ active[k] \in S}

\* Mutant: the newest dashboard comes first.
connect_first(s) == /\ endpoint[s] = "new" /\ active' = << s >> \o active
                    /\ endpoint' = [endpoint EXCEPT ![s] = "connected"]
                    /\ snapshot' = [snapshot EXCEPT ![s] = recorded]
                    /\ UNCHANGED <<gone, recorded, received, cast, pulled>>

\* After accept() the socket is listed and, with no await between, its snapshot is
\* built from what is recorded; then the endpoint sends it and waits to receive.
connect(s) == /\ endpoint[s] = "new"
              /\ active' = Append(active, s)
              /\ snapshot' = [snapshot EXCEPT ![s] = recorded]
              /\ endpoint' = [endpoint EXCEPT ![s] = "connected"]
              /\ UNCHANGED <<gone, recorded, received, cast, pulled>>

PeerLeaves(s) == /\ s \in Leavers /\ endpoint[s] = "connected"
                 /\ s \notin gone /\ gone' = gone \cup {s}
                 /\ UNCHANGED <<active, endpoint, recorded, snapshot, received, cast, pulled>>

\* Sending the snapshot or receiving raises in the endpoint: disconnect().
disconnect(s) == /\ s \in gone /\ endpoint[s] = "connected"
                 /\ active' = Without({s}) /\ pulled' = pulled \cup Overtaken({s})
                 /\ endpoint' = [endpoint EXCEPT ![s] = "ended"]
                 /\ UNCHANGED <<gone, recorded, snapshot, received, cast>>

AtLast(i) == i >= Len(active)               \* mutant: the last is left out
AtEnd(i) == i > Len(active)

\* The `for ws in self.active` of broadcast() goes on at position i: the next
\* socket, or the end of the list and the removal of the dead ones, which
\* raises at the first that is no longer in the list.
GoOn(e, i, dead) ==
    LET missing == {j \in DOMAIN dead : ~Contains(active, dead[j])}
        removed == {dead[j] : j \in {k \in DOMAIN dead : \A m \in missing : k < m}}
    IN  \/ /\ ~AtEnd(i) /\ UNCHANGED <<active, pulled>>
           /\ cast' = [cast EXCEPT ![e] =
                 [pc |-> "sending", index |-> i, to |-> active[i], dead |-> dead]]
        \/ /\ AtEnd(i)
           /\ active' = Without(removed)
           /\ pulled' = pulled \cup (Overtaken(removed) \ {e})
           /\ cast' = [cast EXCEPT ![e] =
                 [pc |-> IF missing = {} THEN "returned" ELSE "raised",
                  index |-> i, to |-> NoSocket, dead |-> dead]]

\* api_scan, workload_agent: _record_event and the start of broadcast().
scan(e) == /\ cast[e].pc = "new"
           /\ recorded' = recorded \cup {e}
           /\ GoOn(e, 1, << >>)
           /\ UNCHANGED <<endpoint, gone, snapshot, received>>

\* Mutant: a peer that left is waited for.
send_waits(e) ==
    LET s == cast[e].to
    IN  /\ cast[e].pc = "sending" /\ s \notin gone
        /\ received' = [received EXCEPT ![s] = Append(@, e)]
        /\ GoOn(e, cast[e].index + 1, cast[e].dead)
        /\ UNCHANGED <<endpoint, gone, recorded, snapshot>>

\* send_json returns; to a peer that left it may still return, or raise.
send_json(e) ==
    LET s == cast[e].to
    IN  /\ cast[e].pc = "sending"
        /\ \/ /\ received' = [received EXCEPT ![s] = Append(@, e)]
              /\ GoOn(e, cast[e].index + 1, cast[e].dead)
           \/ /\ s \in gone /\ UNCHANGED received
              /\ GoOn(e, cast[e].index + 1, Append(cast[e].dead, s))
        /\ UNCHANGED <<endpoint, gone, recorded, snapshot>>

Next == \/ \E s \in Sockets : connect(s) \/ PeerLeaves(s) \/ disconnect(s)
        \/ \E e \in Scans : scan(e) \/ send_json(e)

Spec == Init /\ [][Next]_vars

\* Every send ends (the server's keep-alive drops a peer that stalls) and every
\* endpoint notices that its peer has left.
Fairness == /\ \A e \in Scans : WF_vars(send_json(e))
            /\ \A s \in Sockets : WF_vars(disconnect(s))

FairSpec == Spec /\ Fairness
-----------------------------------------------------------------------------
\* Every variable holds a value of its kind; the list names no socket twice.
TypeOK == /\ active \in Seq(Sockets) /\ IsInjective(active) /\ gone \subseteq Sockets
          /\ endpoint \in [Sockets -> {"new", "connected", "ended"}]
          /\ recorded \subseteq Scans
          /\ snapshot \in [Sockets -> SUBSET Scans]
          /\ received \in [Sockets -> Seq(Scans)]
          /\ cast \in [Scans -> Casts] /\ pulled \subseteq Scans

\* No dashboard is sent a scan twice, however the list changes under the
\* broadcasts that walk it.
SentOnce == \A s \in Sockets : \A i, j \in DOMAIN received[s] :
                i # j => received[s][i] # received[s][j]

\* A dashboard that has not left has every scan in its snapshot or is sent it,
\* unless the walk was overtaken: none falls between the snapshot and the list, none
\* is passed over because others connect, leave behind the walk, or fail their send.
NothingMissed == \A s \in Sockets \ gone, e \in Scans \ pulled :
    endpoint[s] = "connected" /\ cast[e].pc \in {"returned", "raised"}
        => e \in snapshot[s] \cup ToSet(received[s])

\* "pushed to every connected dashboard over the WebSocket" (realtime.py:885-886):
\* a dashboard that is connected has each scan whose broadcast has returned.
PushedToEvery == \A s \in Sockets \ gone, e \in Scans :
    endpoint[s] = "connected" /\ cast[e].pc = "returned"
        => e \in snapshot[s] \cup ToSet(received[s])

\* A socket whose endpoint has ended is in no list: nothing is sent to it but
\* by a broadcast that is already waiting on it.
EndedNotActive == \A s \in Sockets : endpoint[s] = "ended" => ~Contains(active, s)

\* Every variable holds a value of its kind, the list names no socket twice and
\* none whose endpoint has ended (realtime.py:550-556, 861-864).
FeedInv == TypeOK /\ EndedNotActive

\* Every broadcast comes to an end, also while dashboards come and go.
BroadcastEnds == \A e \in Scans : cast[e].pc = "sending" ~> cast[e].pc \in {"returned", "raised"}

\* A scan returns its verdict ("stream it live, return verdict",
\* realtime.py:881): the dashboards that listen cannot make it fail.
ScanReturns == \A e \in Scans : cast[e].pc # "raised"
=============================================================================
