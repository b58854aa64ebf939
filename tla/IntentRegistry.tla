---------------------------- MODULE IntentRegistry ----------------------------
(***************************************************************************)
(* What IntentRegistry (defense10/egress_proxy.py) does to its dict of     *)
(* intents.  Correlation ids are numbered in the order of their recording, *)
(* which is the order of their times.                                      *)
(***************************************************************************)
EXTENDS Integers, FiniteSets

CONSTANTS max_age, max_entries

ASSUME AgeAssumption     == max_age \in Nat
ASSUME EntriesAssumption == max_entries \in Nat

Only(r, ids) == [id \in ids |-> r[id]]

Expired(r, now) == {id \in DOMAIN r : now - r[id].ts > max_age}

\* Mutant: the newer half goes.
Newer(r) == {id \in DOMAIN r :
    Cardinality({j \in DOMAIN r : j >= id}) <= Cardinality(DOMAIN r) \div 2}

\* The first half of the ids in the order of their times.
Older(r) == {id \in DOMAIN r :
    Cardinality({j \in DOMAIN r : j <= id}) <= Cardinality(DOMAIN r) \div 2}

Full(r) == Cardinality(DOMAIN r) > max_entries

\* _evict_stale()
Evicted(r, now) ==
    Only(r, (DOMAIN r \ (IF Full(r) THEN Older(r) ELSE {})) \ Expired(r, now))

\* record(): the older intents leave before the new one is entered.
record(r, now, id, recipients) ==
    LET kept == Evicted(r, now)
    IN  [k \in DOMAIN kept \cup {id} |->
            IF k = id THEN [recipients |-> recipients, ts |-> now] ELSE kept[k]]

\* Mutant: an intent found is believed whatever its age.
got_any(r, now, id) == r

\* get(): what it leaves; an intent it finds expired is deleted.
got(r, now, id) == Only(r, DOMAIN r \ ({id} \cap Expired(r, now)))
=============================================================================
