------------------------------- MODULE Ledger -------------------------------
(***************************************************************************)
(* What the audit log promises: one sequence of records, which recorders   *)
(* open, extend and close.  A recorder always sees the whole sequence; no  *)
(* record is changed, reordered, repeated or dropped, except that the loss *)
(* of power, which closes every recorder, may drop the newest ones.  The   *)
(* promise ends with the first fault that spoils the storage.              *)
(***************************************************************************)
EXTENDS SequencesExt

CONSTANTS Recorders, Records, Closed

VARIABLES records, view, spoiled

vars == <<records, view, spoiled>>

Init == records = << >> /\ view = [r \in Recorders |-> Closed] /\ spoiled = FALSE

Open(r) == /\ view[r] = Closed
           /\ view' = [view EXCEPT ![r] = records]
           /\ UNCHANGED records

Record(r, d) == /\ view[r] = records
                /\ records' = Append(records, d)
                /\ view' = [view EXCEPT ![r] = records']

Close(r) == view[r] # Closed /\ view' = [view EXCEPT ![r] = Closed] /\ UNCHANGED records

\* The recorder dies as the record it was adding reaches the storage.
LastRecord(r, d) == /\ view[r] = records
                    /\ records' = Append(records, d)
                    /\ view' = [view EXCEPT ![r] = Closed]

PowerLoss == /\ view' = [r \in Recorders |-> Closed]
             /\ IsPrefix(records', records)

Promise == \/ \E r \in Recorders : \/ Open(r) \/ Close(r)
                                   \/ \E d \in Records : Record(r, d) \/ LastRecord(r, d)
           \/ PowerLoss

Next == (~spoiled /\ Promise /\ UNCHANGED spoiled) \/ spoiled' = TRUE

Spec == Init /\ [][Next]_vars
=============================================================================
