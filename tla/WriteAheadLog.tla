---------------------------- MODULE WriteAheadLog ----------------------------
(***************************************************************************)
(* mcp_monitor/audit/wal.py.  write() is a sequence of file operations:    *)
(* the line goes to a temporary file, is appended to the WAL, is fsynced,  *)
(* and the temporary file is unlinked; the process can die and the disk    *)
(* can refuse after each.  An entry is its sequence number.                *)
(***************************************************************************)
EXTENDS Integers, SequencesExt

CONSTANTS
    WalFaults,         \* the faults this environment can cause, of WalFaultKinds
    MaxWrites,      \* bound on the number of write() calls
    Torn            \* a line json.loads rejects

WalFaultKinds == {"crash", "power", "disk", "torn", "locked"}

ASSUME FaultsAssumption == WalFaults \subseteq WalFaultKinds
ASSUME BoundsAssumption == MaxWrites \in Nat
ASSUME TornAssumption   == Torn \notin Nat

VARIABLES
    pc,             \* "down", "idle", or the last step write() has done
    wal,            \* the lines of the WAL file
    eol,            \* FALSE when the last line lacks its newline
    durable,        \* how many of the lines an fsync has covered
    temps,          \* temporary files in the directory
    entries_written, committed_count,
    next_id,        \* entries given to write() so far
    acked,          \* entries whose write() returned and no truncate() removed
    settled,        \* entries that were in the WAL at a checkpoint()
    spoiled         \* TRUE once a line has been written or kept in part

walVars == <<pc, wal, eol, durable, temps, entries_written, committed_count,
          next_id, acked, settled, spoiled>>
disk == <<wal, eol, durable, spoiled>>
counts == <<entries_written, committed_count>>
ghosts == <<acked, settled>>

Written(new) == IF eol THEN Append(wal, new) ELSE [wal EXCEPT ![Len(wal)] = Torn]

WalInit == /\ pc = "down" /\ wal = << >> /\ eol = TRUE /\ durable = 0 /\ temps = 0
        /\ entries_written = 0 /\ committed_count = 0
        /\ next_id = 0 /\ acked = {} /\ settled = {} /\ spoiled = FALSE

\* WriteAheadLog(wal_path): the committed position starts at 0 again.
Open == /\ pc = "down" /\ pc' = "idle"
        /\ entries_written' = Len(wal) /\ committed_count' = 0
        /\ UNCHANGED <<disk, temps, next_id, ghosts>>

write_temp ==
    /\ pc = "idle" /\ next_id < MaxWrites
    /\ next_id' = next_id + 1 /\ temps' = temps + 1
    /\ pc' \in {"temp"} \cup (IF "disk" \in WalFaults THEN {"idle"} ELSE {})
    /\ UNCHANGED <<disk, counts, ghosts>>

append_wal ==
    /\ pc = "temp"
    /\ \/ wal' = Written(next_id) /\ eol' = TRUE /\ pc' = "appended" /\ UNCHANGED spoiled
       \/ "disk" \in WalFaults /\ pc' = "idle" /\ UNCHANGED <<wal, eol, spoiled>>
       \/ /\ {"disk", "torn"} \subseteq WalFaults /\ pc' = "idle"
          /\ \E l \in {Torn, next_id} : wal' = Written(l)
          /\ eol' = FALSE /\ spoiled' = TRUE
    /\ UNCHANGED <<durable, temps, counts, next_id, ghosts>>

\* Mutant: flush() without fsync().
flush_only ==
    /\ pc = "appended" /\ pc' = "synced"
    /\ UNCHANGED <<disk, temps, counts, next_id, ghosts>>

fsync_wal ==
    /\ pc = "appended"
    /\ \/ pc' = "synced" /\ durable' = Len(wal)
       \/ "disk" \in WalFaults /\ pc' = "idle" /\ UNCHANGED durable
    /\ UNCHANGED <<wal, eol, spoiled, temps, counts, next_id, ghosts>>

\* os.unlink, whose OSError is ignored, and the return of write().
write_returns ==
    /\ pc = "synced" /\ pc' = "idle"
    /\ \/ temps' = temps - 1
       \/ "locked" \in WalFaults /\ UNCHANGED temps
    /\ entries_written' = entries_written + 1
    /\ acked' = acked \cup {next_id}
    /\ UNCHANGED <<disk, committed_count, next_id, settled>>

checkpoint ==
    /\ pc = "idle" /\ committed_count' = entries_written
    /\ settled' = settled \cup ToSet(wal)
    /\ UNCHANGED <<pc, disk, temps, entries_written, next_id, acked>>

truncate ==
    /\ pc = "idle"
    /\ wal' = << >> /\ eol' = TRUE /\ durable' = 0 /\ spoiled' = FALSE
    /\ entries_written' = 0 /\ committed_count' = 0
    /\ acked' = {} /\ settled' = {}
    /\ UNCHANGED <<pc, temps, next_id>>

\* The process dies; what it gave to write(2) stays in the file.
WalCrash ==
    /\ "crash" \in WalFaults /\ pc # "down" /\ pc' = "down"
    /\ UNCHANGED <<disk, temps, counts, next_id, ghosts>>

\* Power is lost: lines no fsync has covered may go, the first of them in part.
WalPowerLoss ==
    /\ "power" \in WalFaults /\ pc' = "down"
    /\ \E n \in durable .. Len(wal) :
         \/ wal' = SubSeq(wal, 1, n) /\ eol' = (n = Len(wal) => eol) /\ UNCHANGED spoiled
         \/ /\ "torn" \in WalFaults /\ n < Len(wal)
            /\ wal' = Append(SubSeq(wal, 1, n), Torn) /\ eol' = FALSE /\ spoiled' = TRUE
    /\ durable' = Len(wal')
    /\ UNCHANGED <<temps, counts, next_id, ghosts>>

WalNext == \/ Open \/ write_temp \/ append_wal \/ fsync_wal \/ write_returns
        \/ checkpoint \/ truncate \/ WalCrash \/ WalPowerLoss

WalSpec == WalInit /\ [][WalNext]_walVars
-----------------------------------------------------------------------------
Readable == Torn \notin ToSet(wal)

\* recover(), which raises on a line json.loads rejects.
recover == SubSeq(wal, committed_count + 1, Len(wal))
-----------------------------------------------------------------------------
\* Every variable holds a value of its kind.
WalTypeOK == /\ pc \in {"down", "idle", "temp", "appended", "synced"}
          /\ wal \in Seq(Nat \cup {Torn}) /\ eol \in BOOLEAN
          /\ durable \in 0 .. Len(wal) /\ temps \in 0 .. MaxWrites
          /\ entries_written \in Nat /\ committed_count \in 0 .. entries_written
          /\ next_id \in 0 .. MaxWrites
          /\ spoiled \in BOOLEAN
          /\ acked \subseteq 1 .. next_id /\ settled \subseteq Nat \cup {Torn}

\* An entry whose write() returned is a line of the file, whatever crashes,
\* losses of power and refused writes followed (wal.py:3-4, "survive process
\* crashes"), as long as no line was written in part.
WrittenSurvives == ~spoiled => acked \subseteq ToSet(wal)

\* recover() forgets nothing: every entry whose write() returned and that no
\* checkpoint() of any process has covered is replayed (wal.py:4-6, 64-66).
RecoverComplete == pc = "idle" /\ Readable => acked \ settled \subseteq ToSet(recover)

\* Entries are replayed in the order write() was called, none twice, whatever
\* became of those between them.
RecoverInOrder == Readable => \A i, j \in DOMAIN wal : i < j => wal[i] < wal[j]

\* Every variable holds a value of its kind, a checkpoint never lies ahead of
\* the count, the count of fsynced lines never ahead of the file, the lines
\* keep the order of the calls, and recover() leaves out none that is owed
\* (wal.py:39-97).
WalInv == WalTypeOK /\ RecoverInOrder /\ RecoverComplete

\* The write-ahead log is whole, and keeps what its writers were told it keeps.
WalKept == WalInv /\ WrittenSurvives

\* "After checkpoint, those entries will not be returned by recover()"
\* (wal.py:95).
CheckpointHolds == pc = "idle" /\ Readable => ToSet(recover) \cap settled = {}
=============================================================================
