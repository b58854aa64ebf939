------------------------------ MODULE HashChain ------------------------------
(***************************************************************************)
(* The hash chain of mcp_monitor/audit/log.py: entries, their hash, and    *)
(* verify_chain().  SHA-256 is modelled as a collision-free function of    *)
(* what it is fed: the digest of an entry is the digest before it with the *)
(* entry's content appended, so two digests are equal exactly when every   *)
(* content chained into them is.  "content" is what compute_hash feeds     *)
(* after prev_hash: timestamp, event_type and data, here one value `data`. *)
(***************************************************************************)
EXTENDS Integers, SequencesExt

CONSTANT Data            \* the contents an entry can have

Digest  == Seq(Data)
Genesis == << >>         \* "0" * 64

Entry == [entry_id : Nat, data : Data, prev_hash : Digest, entry_hash : Digest]

\* AuditEntry.compute_hash: entry_id is not fed to the hash.
compute_hash(e) == Append(e.prev_hash, e.data)

\* Mutant: the hash is taken before prev_hash is set.
HashedAlone(id, d, prev) ==
    [entry_id |-> id, data |-> d, prev_hash |-> prev, entry_hash |-> Append(Genesis, d)]

NewEntry(id, d, prev) ==
    [entry_id |-> id, data |-> d, prev_hash |-> prev, entry_hash |-> Append(prev, d)]

\* Mutant: every entry is chained to the first one.
HashOfFirst(s, i) == IF i = 0 THEN Genesis ELSE s[1].entry_hash

\* The hash the entry after position i must name.
HashAt(s, i) == IF i = 0 THEN Genesis ELSE s[i].entry_hash

\* Mutant: verify_chain() does not compute the hashes again.
LinksOnly(s, i) == s[i].prev_hash = HashAt(s, i - 1)

Links(s, i) == /\ s[i].prev_hash = HashAt(s, i - 1)
               /\ s[i].entry_hash = compute_hash(s[i])

Broken(s) == {i \in DOMAIN s : ~Links(s, i)}

Intact == 0

\* The first broken index (counted from 1), or Intact.
verify_chain(s) ==
    IF Broken(s) = {} THEN Intact
    ELSE CHOOSE i \in Broken(s) : \A j \in Broken(s) : i <= j
=============================================================================
