------------------------------ MODULE AuditLog ------------------------------
(***************************************************************************)
(* mcp_monitor/audit/log.py: the hash-chained audit log, its in-memory     *)
(* entries and its file.  append() is two steps, because the process can   *)
(* die and the write can fail between them: the entry is chained to the    *)
(* entries in memory first, and only then written to the file.             *)
(***************************************************************************)
EXTENDS HashChain

CONSTANTS
    Procs,          \* processes that open the log file
    Faults,         \* the faults this environment can cause, of FaultKinds
    Writable,       \* contents json.dumps accepts
    Reload(_),      \* what a written content is after json.dumps / json.loads
    Garbage,        \* digests a damaged line may show
    MaxAppends,     \* bound on the number of append() calls
    Torn,           \* a line json.loads rejects
    Closed          \* what a recorder that is not open sees

\* "shared": a second process opens the file while one runs (deploy/k8s runs
\* one replica); "torn": a line is written in part, or without its newline;
\* "power": unsynced lines are lost; "refused": a line is not written and the
\* process lives on; "changed": json gives back another content; "damage".
FaultKinds == {"shared", "torn", "power", "refused", "changed", "damage"}

ASSUME FaultsAssumption == Faults \subseteq FaultKinds
ASSUME BoundsAssumption == MaxAppends \in Nat
ASSUME DataAssumption   == /\ Writable \subseteq Data
                           /\ Garbage \subseteq Digest
                           /\ \A d \in Data : Reload(d) \in Data
ASSUME TornAssumption   == Torn \notin Entry
ASSUME ClosedAssumption == Closed \notin Seq(Data)

VARIABLES
    pc,             \* per process: "down", "refused", "idle", "persist"
    mem,            \* AuditLog._entries of each process
    file,           \* the lines of the log file
    eol,            \* FALSE when the last line lacks its newline
    next_id,        \* entries created so far (a fresh entry_id)
    acked,          \* ids of entries whose append() returned
    damaged,        \* 0, or the line the storage has damaged
    happened        \* the faults there have been

vars == <<pc, mem, file, eol, next_id, acked, damaged, happened>>

Up      == {p \in Procs : pc[p] \in {"idle", "persist"}}
NoTorn  == \A i \in DOMAIN file : file[i] # Torn

\* Mutant: the line is formatted before the entry is linked.
UnlinkedLine(e) == [e EXCEPT !.prev_hash = Genesis]

Line(e) == [e EXCEPT !.data = Reload(e.data)]

\* Mutant: the file is opened with "w".
OpenedToWrite(new) == << new >>

\* The file after `new` is written at its end.  Text that follows a line
\* without a newline becomes part of that line.
Written(new) == IF eol THEN Append(file, new)
                ELSE [file EXCEPT ![Len(file)] = Torn]

Init == /\ pc = [p \in Procs |-> "down"]
        /\ mem = [p \in Procs |-> << >>]
        /\ file = << >> /\ eol = TRUE
        /\ next_id = 0 /\ acked = {} /\ damaged = 0 /\ happened = {}

\* Mutant: the file is not read.
LoadNothing(p) ==
    /\ pc[p] = "down" /\ Up = {} /\ pc' = [pc EXCEPT ![p] = "idle"]
    /\ UNCHANGED <<mem, file, eol, next_id, acked, damaged, happened>>

\* AuditLog(log_file): _load reads every line; one bad line raises.
Load(p) ==
    /\ pc[p] \in {"down", "refused"}
    /\ \/ Up = {} /\ UNCHANGED happened
       \/ Up # {} /\ "shared" \in Faults /\ happened' = happened \cup {"shared"}
    /\ IF NoTorn
       THEN pc' = [pc EXCEPT ![p] = "idle"] /\ mem' = [mem EXCEPT ![p] = file]
       ELSE pc' = [pc EXCEPT ![p] = "refused"] /\ UNCHANGED mem
    /\ UNCHANGED <<file, eol, next_id, acked, damaged>>

\* append() up to and including self._entries.append(entry).
append(p, d) ==
    /\ pc[p] = "idle" /\ next_id < MaxAppends
    /\ mem' = [mem EXCEPT ![p] =
           Append(@, NewEntry(next_id + 1, d, HashAt(@, Len(@))))]
    /\ next_id' = next_id + 1
    /\ pc' = [pc EXCEPT ![p] = "persist"]
    /\ UNCHANGED <<file, eol, acked, damaged, happened>>

\* What json does to the content of e.
Change(e) == IF Reload(e.data) = e.data THEN {} ELSE {"changed"}

\* The pending entry's whole line is written.
WriteLine(e) == /\ e.data \in Writable
                /\ file' = Written(Line(e)) /\ happened' = happened \cup Change(e)

\* _persist() writes the line and append() returns.
persist(p) ==
    /\ pc[p] = "persist"
    /\ WriteLine(Last(mem[p])) /\ eol' = TRUE
    /\ acked' = acked \cup {Last(mem[p]).entry_id}
    /\ pc' = [pc EXCEPT ![p] = "idle"]
    /\ UNCHANGED <<mem, next_id, damaged>>

\* _persist() raises: json.dumps refuses the content, or the disk refuses the
\* line or part of it.  append() raises too; the entry stays in memory.
persist_raises(p) ==
    /\ pc[p] = "persist"
    /\ \/ /\ Last(mem[p]).data \notin Writable \/ "refused" \in Faults
          /\ UNCHANGED <<file, eol>> /\ happened' = happened \cup {"refused"}
       \/ /\ {"refused", "torn"} \subseteq Faults
          /\ file' = Written(Torn) /\ eol' = FALSE
          /\ happened' = happened \cup {"refused", "torn"}
    /\ pc' = [pc EXCEPT ![p] = "idle"]
    /\ UNCHANGED <<mem, next_id, acked, damaged>>

\* The process ends.  Within _persist the line may have reached the file, or a
\* part of it, or all but its newline.
Crash(p) ==
    /\ p \in Up
    /\ \/ UNCHANGED <<file, eol, happened>>
       \/ pc[p] = "persist" /\ WriteLine(Last(mem[p])) /\ eol' = TRUE
       \/ /\ pc[p] = "persist" /\ "torn" \in Faults /\ eol' = FALSE
          /\ \E l \in {Torn, Line(Last(mem[p]))} : file' = Written(l)
          /\ happened' = happened \cup {"torn"} \cup Change(Last(mem[p]))
    /\ pc' = [pc EXCEPT ![p] = "down"] /\ mem' = [mem EXCEPT ![p] = << >>]
    /\ UNCHANGED <<next_id, acked, damaged>>

\* Power is lost: _persist never calls fsync, so any suffix of the file goes.
PowerLoss ==
    /\ "power" \in Faults
    /\ \E n \in 0 .. Len(file) :
         /\ damaged' = IF damaged <= n THEN damaged ELSE 0
         /\ \/ /\ file' = SubSeq(file, 1, n) /\ eol' = (n = Len(file) => eol)
               /\ happened' = happened \cup {"power"}
            \/ /\ "torn" \in Faults /\ n < Len(file)
               /\ file' = Append(SubSeq(file, 1, n), Torn) /\ eol' = FALSE
               /\ happened' = happened \cup {"power", "torn"}
    /\ pc' = [p \in Procs |-> "down"] /\ mem' = [p \in Procs |-> << >>]
    /\ UNCHANGED <<next_id, acked>>

\* One hashed field of one stored line changes on the disk.
Damage(i) ==
    /\ "damage" \in Faults /\ damaged = 0 /\ file[i] # Torn
    /\ \/ \E d \in Data \ {file[i].data} : file' = [file EXCEPT ![i].data = d]
       \/ \E h \in Garbage \ {file[i].prev_hash} : file' = [file EXCEPT ![i].prev_hash = h]
       \/ \E h \in Garbage \ {file[i].entry_hash} : file' = [file EXCEPT ![i].entry_hash = h]
    /\ damaged' = i /\ happened' = happened \cup {"damage"}
    /\ UNCHANGED <<pc, mem, eol, next_id, acked>>

Next == \/ \E p \in Procs : \/ Load(p) \/ persist(p) \/ persist_raises(p) \/ Crash(p)
                            \/ \E d \in Data : append(p, d)
        \/ PowerLoss
        \/ \E i \in DOMAIN file : Damage(i)

Spec == Init /\ [][Next]_vars
-----------------------------------------------------------------------------
\* Every variable holds a value of its kind.
TypeOK == /\ pc \in [Procs -> {"down", "refused", "idle", "persist"}]
          /\ mem \in [Procs -> Seq(Entry)]
          /\ file \in Seq(Entry \cup {Torn})
          /\ eol \in BOOLEAN
          /\ next_id \in Nat /\ acked \subseteq Nat /\ damaged \in 0 .. Len(file)
          /\ happened \subseteq FaultKinds

Never(kinds) == happened \cap kinds = {}

\* A log of one process at a time, whose lines were all accepted and none
\* changed, verifies: in every running process verify_chain() answers
\* (True, None) (audit/log.py:63-79), whatever crashes, torn lines and losses
\* of power the file has been through.
ChainIntact == Never({"shared", "refused", "changed", "damage"}) =>
                   \A p \in Up : verify_chain(mem[p]) = Intact

\* An idle process has in memory exactly what a restart would read: the file
\* is never behind what append() acknowledged nor ahead of it.
MemoryIsFile == Never({"shared", "refused", "changed", "damage"}) /\ NoTorn =>
                    \A p \in Up : pc[p] = "idle" => mem[p] = file

\* verify_chain() points at the line that was damaged: no later append, crash
\* or restart moves the first broken index (audit/log.py:4-6, 69-70).
DamageLocated == Never({"shared", "refused", "changed"}) =>
    /\ damaged # 0 /\ NoTorn => verify_chain(file) = damaged
    /\ \A p \in Up : verify_chain(mem[p]) \in {Intact, damaged}

\* An entry whose append() returned is in the file, also when processes share
\* it, lines are refused and contents change.
AckedOnFile == Never({"torn", "power"}) =>
    \A id \in acked : \E i \in DOMAIN file : file[i] # Torn /\ file[i].entry_id = id

\* With one process at a time no two lines continue the same entry: failed,
\* torn and lost writes leave gaps in the chain but never two histories.
NoFork == Never({"shared", "damage"}) =>
    \A i, j \in DOMAIN file :
        i # j /\ Torn \notin {file[i], file[j]} => file[i].prev_hash # file[j].prev_hash

\* The log is well formed: every variable holds a value of its kind and the
\* lines of the file are one history (audit/log.py:51-61).
LogInv == TypeOK /\ NoFork
-----------------------------------------------------------------------------
(* The log as a Ledger: its lines as records, its running processes as recorders. *)

Contents(s) == [i \in DOMAIN s |-> IF s[i] = Torn THEN Torn ELSE s[i].data]

View(p) == IF p \notin Up THEN Closed
           ELSE Contents(IF pc[p] = "persist" THEN Front(mem[p]) ELSE mem[p])

LedgerOfFile == INSTANCE Ledger WITH
                    Recorders <- Procs, Records <- Data, records <- Contents(file),
                    view <- [p \in Procs |-> View(p)],
                    spoiled <- ~Never({"shared", "torn", "refused", "changed", "damage"})

\* The file and the running processes behave as the Ledger until a fault spoils
\* the file: appends of one process after another, crashes between them, losses
\* of power.
LedgerSpec == LedgerOfFile!Spec
=============================================================================
