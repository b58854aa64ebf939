-------------------------- MODULE MCProductionServer --------------------------
(***************************************************************************)
(* Small instances of the production server, and of one of its breakers    *)
(* under the threads of a program that embeds it: a behaviour runs one of  *)
(* the two, which share no state; `part` says which.                       *)
(***************************************************************************)
EXTENDS ProductionServer, CircuitBreaker

Inspection(p, b) == [path |-> p, authorized |-> TRUE, body |-> b]
Plain(p) == [path |-> p, authorized |-> FALSE, body |-> "garbage"]

\* One request of every kind the handlers tell apart.
AllRequests == {Inspection(p, b) : p \in Endpoints, b \in Bodies}
                   \cup {Plain(p) : p \in Paths}

Calls == {Inspection("inspect_call", "object")}

VARIABLE part

Vars == <<part, vars, breakerVars>>

ProductionInit == /\ part \in {"server", "breaker"} /\ Init /\ BreakerInit
                  /\ part = "breaker" => req \in {[c \in Conns |-> r] : r \in Calls}

ProductionNext ==
    /\ UNCHANGED part
    /\ \/ part = "server" /\ Next /\ UNCHANGED breakerVars
       \/ part = "breaker" /\ BreakerNext /\ UNCHANGED vars

\* The fairness of the part that runs.
ServerFairness ==
    /\ \A c \in Conns \ Dribbling : WF_vars(part = "server" /\ Reading(c))
    /\ \A c \in Conns : /\ WF_vars(part = "server" /\ Handling(c))
                        /\ WF_vars(part = "server" /\ Send(c))
    /\ WF_vars(part = "server" /\ Start) /\ WF_vars(part = "server" /\ Exit)
    /\ WF_vars(part = "server" /\ Tick)

ThreadFairness ==
    /\ WF_breakerVars(part = "breaker" /\ Elapse)
    /\ \A t \in Threads : WF_breakerVars(part = "breaker" /\ Calling(t))

ProductionSpec == /\ ProductionInit /\ [][ProductionNext]_Vars
                  /\ ServerFairness /\ ThreadFairness

ServerOnly == ProductionSpec /\ part = "server"
=============================================================================
