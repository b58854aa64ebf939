-------------------------- MODULE InspectionService --------------------------
(***************************************************************************)
(* What mcp_monitor/production/server.py promises of the requests of its   *)
(* clients, whatever loop, breakers and rate limiter it is built from: a   *)
(* request is noted before it is inspected, its inspection is put on       *)
(* record before the client hears of it, what the client hears agrees with *)
(* what is on record and is never taken back, and nothing is noted once    *)
(* the service has been told to close.                                     *)
(***************************************************************************)
CONSTANTS Clients, Pending

\* What can be answered: to a request that was inspected, to one that was noted,
\* to one that was neither.
Inspected == {"allow", "deny", "shadow_allow"}
Unrecorded == {"fail_closed", "shadow_fail_closed", "400", "500"}
Unnoted == {"ok", "400", "401", "404", "429", "500", "503"}

VARIABLES noted, recorded,      \* the requests in the WAL, and in the audit log
          answer,               \* what each client has been told
          open                  \* the service takes requests

serviceVars == <<noted, recorded, answer, open>>

ServiceInit == /\ noted = {} /\ recorded = {} /\ open = FALSE
               /\ answer = [c \in Clients |-> Pending]

Note(c) == /\ open /\ answer[c] = Pending /\ c \notin noted
           /\ noted' = noted \cup {c} /\ UNCHANGED <<recorded, answer, open>>

Record(c) == /\ open /\ answer[c] = Pending /\ c \in noted \ recorded
             /\ recorded' = recorded \cup {c} /\ UNCHANGED <<noted, answer, open>>

Fits(c, a) == \/ c \in recorded /\ a \in Inspected
              \/ c \in noted \ recorded /\ a \in Unrecorded
              \/ c \notin noted /\ a \in Unnoted

\* An answer may still be sent while the service closes.
Answer(c) == /\ answer[c] = Pending
             /\ \E a \in Inspected \cup Unrecorded \cup Unnoted :
                  Fits(c, a) /\ answer' = [answer EXCEPT ![c] = a]
             /\ UNCHANGED <<noted, recorded, open>>

Open == ~open /\ open' = TRUE /\ UNCHANGED <<noted, recorded, answer>>
Close == open /\ open' = FALSE /\ UNCHANGED <<noted, recorded, answer>>

ServiceNext == (\E c \in Clients : Note(c) \/ Record(c) \/ Answer(c)) \/ Open \/ Close

InspectionSpec == ServiceInit /\ [][ServiceNext]_serviceVars
=============================================================================
