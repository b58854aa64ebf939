---------------------------- MODULE GatewayClient ----------------------------
(***************************************************************************)
(* client.py: agents whose tools are wrapped by guard(), in front of the   *)
(* gateway.  A request, its handling and its answer are steps apart: each  *)
(* can be lost, and a request whose sender no longer waits still arrives.  *)
(***************************************************************************)
EXTENDS Gateway

CONSTANTS Agents, Guarded       \* who calls tools, and the calls made of them

ASSUME GuardedAssumption == Guarded \subseteq Submitted
ASSUME AgentsAssumption == IsFiniteSet(Agents)

VARIABLES
    waiting,        \* of each agent: its call and how far it has come
    abandoned,      \* requests on their way that nobody waits for
    runs            \* history: the calls whose tool was run

clientVars == <<waiting, abandoned, runs>>

Idle == [pc |-> "idle"]

ClientInit == waiting = [a \in Agents |-> Idle] /\ abandoned = {} /\ runs = << >>

\* wrapper(), up to the wait of urlopen().
guard(a, c) == /\ waiting[a] = Idle
               /\ waiting' = [waiting EXCEPT ![a] = [pc |-> "sent", call |-> c]]
               /\ UNCHANGED <<abandoned, runs, gatewayVars>>

handle(a) == /\ waiting[a].pc = "sent" /\ api_scan(waiting[a].call, "external")
             /\ waiting' = [waiting EXCEPT ![a] =
                    [pc |-> "answered", call |-> @.call, allowed |-> BlockedBy(@.call) = 0]]
             /\ UNCHANGED <<abandoned, runs>>

handle_late(c) == /\ c \in abandoned /\ api_scan(c, "external")
                  /\ abandoned' = abandoned \ {c} /\ UNCHANGED <<waiting, runs>>

\* The verdict is read: the tool is run, or ToolBlocked raised.
scan_returns(a) ==
    /\ waiting[a].pc = "answered" /\ waiting' = [waiting EXCEPT ![a] = Idle]
    /\ runs' = runs \o (IF waiting[a].allowed THEN << waiting[a].call >> ELSE << >>)
    /\ UNCHANGED <<abandoned, gatewayVars>>

\* Mutant, and what the docstring of scan() promises (client.py:65-67): a call
\* without a verdict is let through.
scan_fails_open(a) ==
    /\ waiting[a] # Idle /\ waiting' = [waiting EXCEPT ![a] = Idle]
    /\ runs' = Append(runs, waiting[a].call)
    /\ UNCHANGED <<abandoned, gatewayVars>>

\* No connection, no answer in time, an error for an answer: the exception of
\* urlopen() goes on to the caller of the tool, which is not run, though scan() says
\* "On any transport error the call is fail-open (allowed)" (client.py:65).
scan_raises(a) ==
    /\ waiting[a] # Idle /\ waiting' = [waiting EXCEPT ![a] = Idle]
    /\ abandoned' \in {abandoned} \cup
           {abandoned \cup {c} : c \in IF waiting[a].pc = "sent" THEN {waiting[a].call} ELSE {}}
    /\ UNCHANGED <<runs, gatewayVars>>

ClientNext == \/ \E a \in Agents : \/ \E c \in Guarded : guard(a, c)
                                   \/ handle(a) \/ scan_returns(a) \/ scan_raises(a)
              \/ \E c \in abandoned : handle_late(c)

ClientSpec == GatewayInit /\ ClientInit /\ [][ClientNext]_<<clientVars, gatewayVars>>
-----------------------------------------------------------------------------
\* Every run of a tool has a scan of its own that allowed it, however many
\* requests and answers were lost, late or sent again by the agents
\* (client.py:77-100).  The code fails closed; by the docstring of scan() it would
\* fail open and this would not hold.
GuardedRuns == \A c \in Guarded :
    Cardinality({i \in DOMAIN runs : runs[i] = c})
        <= Cardinality({i \in DOMAIN scans : scans[i].call = c /\ EventOf(i).blocked_by_layer = 0})
=============================================================================
