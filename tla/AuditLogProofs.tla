---------------------------- MODULE AuditLogProofs ----------------------------
(***************************************************************************)
(* For every set of processes and contents and every number of appends:    *)
(* the types of the audit log, that it verifies through crashes and losses *)
(* of power, and that what append() acknowledged is in the file.           *)
(***************************************************************************)
EXTENDS AuditLog, SequenceTheorems, TLAPS

Lines == Entry \cup {Torn}

\* The log as it is between any two steps: every variable of its type, an
\* entry to persist where one is due, and a last line where one is unfinished.
Shape == /\ TypeOK
         /\ \A p \in Procs : pc[p] = "persist" => mem[p] # << >>
         /\ ~eol => file # << >>

\* What append() chains is an entry.
LEMMA NewEntryType ==
    ASSUME NEW s \in Seq(Entry), NEW d \in Data, NEW id \in Nat
    PROVE  /\ HashAt(s, Len(s)) \in Digest
           /\ NewEntry(id, d, HashAt(s, Len(s))) \in Entry
  <1>1. HashAt(s, Len(s)) \in Digest
    <2>1. CASE Len(s) = 0
      BY <2>1, EmptySeq DEF HashAt, Genesis, Digest
    <2>2. CASE Len(s) # 0
      <3>1. s[Len(s)] \in Entry
        BY <2>2, LenProperties, ElementOfSeq
      <3> QED BY <2>2, <3>1 DEF HashAt, Entry
    <2> QED BY <2>1, <2>2
  <1>2. Append(HashAt(s, Len(s)), d) \in Digest
    BY <1>1, AppendProperties DEF Digest
  <1> QED BY <1>1, <1>2 DEF NewEntry, Entry

\* The entry that waits for _persist, and the line it is written as.
LEMMA PendingEntry ==
    ASSUME Shape, NEW p \in Procs, pc[p] = "persist"
    PROVE  /\ Last(mem[p]) \in Entry /\ Last(mem[p]).entry_id \in Nat
           /\ Line(Last(mem[p])) \in Entry
           /\ Line(Last(mem[p])).entry_id = Last(mem[p]).entry_id
  <1>1. mem[p] \in Seq(Entry) /\ mem[p] # << >>
    BY DEF Shape, TypeOK
  <1>2. Len(mem[p]) \in 1 .. Len(mem[p])
    BY <1>1, EmptySeq
  <1>3. Last(mem[p]) \in Entry
    BY <1>1, <1>2, ElementOfSeq DEF Last
  <1> QED BY <1>3, DataAssumption DEF Entry, Line

\* A write adds one line, or spoils the last one when its newline is missing.
LEMMA WrittenLine ==
    ASSUME Shape, NEW l \in Lines
    PROVE  /\ Written(l) \in Seq(Lines) /\ Written(l) # << >>
           /\ damaged \in 0 .. Len(Written(l))
           /\ \A i \in 1 .. Len(file) - 1 : Written(l)[i] = file[i]
           /\ eol => /\ Len(Written(l)) = Len(file) + 1
                     /\ \A i \in 1 .. Len(file) : Written(l)[i] = file[i]
                     /\ Written(l)[Len(file) + 1] = l
           /\ ~eol => /\ Len(Written(l)) = Len(file) /\ Len(file) # 0
                      /\ Written(l)[Len(file)] = Torn
  <1>1. file \in Seq(Lines) /\ Len(file) \in Nat
    BY LenProperties DEF Shape, TypeOK, Lines
  <1> damaged \in 0 .. Len(file)
    BY DEF Shape, TypeOK
  <1>2. CASE eol
    BY <1>1, <1>2, AppendProperties DEF Written
  <1>3. CASE ~eol
    <2>1. Len(file) \in 1 .. Len(file)
      BY <1>1, <1>3, EmptySeq DEF Shape
    <2>2. Torn \in Lines
      BY DEF Lines
    <2>3. Written(l) = [file EXCEPT ![Len(file)] = Torn]
      BY <1>3 DEF Written
    <2>4. /\ Written(l) \in Seq(Lines) /\ Len(Written(l)) = Len(file)
          /\ \A j \in 1 .. Len(file) : Written(l)[j] = IF j = Len(file) THEN Torn ELSE file[j]
      BY <1>1, <2>1, <2>2, <2>3, ExceptSeq
    <2>5. Written(l) # << >>
      BY <2>1, <2>4, EmptySeq
    <2> QED BY <1>3, <2>1, <2>4, <2>5
  <1> QED BY <1>2, <1>3, <1>1 DEF Shape, TypeOK

-----------------------------------------------------------------------------
LEMMA InitShape == Init => Shape
  BY EmptySeq DEF Init, Shape, TypeOK, FaultKinds

\* The steps of one process.
LEMMA ProcessShape ==
    ASSUME Shape, NEW p \in Procs,
           Load(p) \/ persist(p) \/ persist_raises(p) \/ Crash(p) \/ \E d \in Data : append(p, d)
    PROVE  Shape'
  <1>1. CASE Load(p)
    <2>1. NoTorn => file \in Seq(Entry)
      <3> SUFFICES ASSUME NoTorn PROVE file \in Seq(Entry)
        OBVIOUS
      <3>1. file \in Seq(Lines) /\ DOMAIN file = 1 .. Len(file) /\ Len(file) \in Nat
            /\ file \in [1 .. Len(file) -> Lines]
        BY LenProperties DEF Shape, TypeOK, Lines
      <3>2. file \in [1 .. Len(file) -> Entry]
        BY <3>1 DEF NoTorn, Lines
      <3> QED BY <3>1, <3>2, SeqDef
    <2> QED BY <1>1, <2>1 DEF Load, Shape, TypeOK, FaultKinds
  <1>2. CASE persist(p)
    <2>1. /\ Written(Line(Last(mem[p]))) \in Seq(Lines) /\ Last(mem[p]).entry_id \in Nat
          /\ damaged \in 0 .. Len(Written(Line(Last(mem[p]))))
      BY <1>2, PendingEntry, WrittenLine DEF persist, WriteLine, Lines
    <2> QED BY <1>2, <2>1 DEF persist, WriteLine, Change, Shape, TypeOK, Lines, FaultKinds
  <1>3. CASE persist_raises(p)
    <2>1. /\ Written(Torn) \in Seq(Lines) /\ Written(Torn) # << >>
          /\ damaged \in 0 .. Len(Written(Torn))
      BY WrittenLine DEF Lines
    <2> QED BY <1>3, <2>1 DEF persist_raises, Shape, TypeOK, Lines, FaultKinds
  <1>4. CASE Crash(p)
    <2>1. ASSUME NEW l \in Lines
          PROVE  Written(l) \in Seq(Lines) /\ Written(l) # << >> /\ damaged \in 0 .. Len(Written(l))
      BY WrittenLine
    <2>2. /\ file' \in Seq(Lines) /\ eol' \in BOOLEAN /\ (~eol' => file' # << >>)
          /\ damaged \in 0 .. Len(file')
      <3>1. CASE UNCHANGED <<file, eol>>
        BY <3>1 DEF Shape, TypeOK, Lines
      <3>2. CASE /\ pc[p] = "persist" /\ eol' \in BOOLEAN
                 /\ \E l \in {Torn, Line(Last(mem[p]))} : file' = Written(l)
        BY <2>1, <3>2, PendingEntry DEF Lines
      <3> QED BY <1>4, <3>1, <3>2 DEF Crash, WriteLine
    <2>3. /\ mem' \in [Procs -> Seq(Entry)]
          /\ pc' \in [Procs -> {"down", "refused", "idle", "persist"}]
          /\ \A q \in Procs : pc'[q] = "persist" => mem'[q] # << >>
      BY <1>4, EmptySeq DEF Crash, Shape, TypeOK
    <2>4. happened' \subseteq FaultKinds
      BY <1>4 DEF Crash, WriteLine, Change, Shape, TypeOK, FaultKinds
    <2> QED BY <1>4, <2>2, <2>3, <2>4 DEF Crash, Shape, TypeOK, Lines
  <1>5. CASE \E d \in Data : append(p, d)
    <2>1. PICK d \in Data : append(p, d)
      BY <1>5
    <2>2. mem[p] \in Seq(Entry) /\ next_id \in Nat
      BY DEF Shape, TypeOK
    <2>3. NewEntry(next_id + 1, d, HashAt(mem[p], Len(mem[p]))) \in Entry
      BY <2>2, NewEntryType
    <2>4. mem'[p] \in Seq(Entry) /\ mem'[p] # << >>
      BY <2>1, <2>2, <2>3, AppendProperties DEF append, Shape, TypeOK
    <2> QED BY <2>1, <2>2, <2>4 DEF append, Shape, TypeOK
  <1> QED BY <1>1, <1>2, <1>3, <1>4, <1>5

\* A prefix of the file, which is what a loss of power leaves.
LEMMA PrefixOfFile ==
    ASSUME Shape, NEW n \in 0 .. Len(file)
    PROVE  /\ SubSeq(file, 1, n) \in Seq(Lines) /\ Len(SubSeq(file, 1, n)) = n
           /\ \A i \in 1 .. n : SubSeq(file, 1, n)[i] = file[i]
  <1>1. file \in Seq(Lines) /\ Len(file) \in Nat
    BY LenProperties DEF Shape, TypeOK, Lines
  <1>2. \A i \in 1 .. n : file[i] \in Lines
    BY <1>1, ElementOfSeq
  <1> QED BY <1>1, <1>2, SubSeqProperties

LEMMA StorageShape ==
    ASSUME Shape, PowerLoss \/ \E i \in DOMAIN file : Damage(i)
    PROVE  Shape'
  <1>0. file \in Seq(Lines) /\ Len(file) \in Nat /\ DOMAIN file = 1 .. Len(file)
    BY LenProperties DEF Shape, TypeOK, Lines
  <1>1. CASE PowerLoss
    <2>1. PICK n \in 0 .. Len(file) :
            /\ damaged' = IF damaged <= n THEN damaged ELSE 0
            /\ \/ /\ file' = SubSeq(file, 1, n) /\ eol' = (n = Len(file) => eol)
                  /\ happened' = happened \cup {"power"}
               \/ /\ "torn" \in Faults /\ n < Len(file)
                  /\ file' = Append(SubSeq(file, 1, n), Torn) /\ eol' = FALSE
                  /\ happened' = happened \cup {"power", "torn"}
      BY <1>1 DEF PowerLoss
    <2>2. SubSeq(file, 1, n) \in Seq(Lines) /\ Len(SubSeq(file, 1, n)) = n
      BY PrefixOfFile
    <2>3. Append(SubSeq(file, 1, n), Torn) \in Seq(Lines)
          /\ Append(SubSeq(file, 1, n), Torn) # << >>
      BY <2>2, AppendProperties DEF Lines
    <2>4. n = Len(file) /\ file # << >> => SubSeq(file, 1, n) # << >>
      BY <1>0, <2>2, EmptySeq
    <2>5. file' \in Seq(Lines) /\ eol' \in BOOLEAN /\ (~eol' => file' # << >>)
      BY <2>1, <2>2, <2>3, <2>4 DEF Shape, TypeOK
    <2>7. damaged' \in 0 .. Len(file')
      <3>1. damaged' \in 0 .. n
        BY <2>1 DEF Shape, TypeOK
      <3>2. Len(Append(SubSeq(file, 1, n), Torn)) = n + 1
        BY <2>2, AppendProperties DEF Lines
      <3> QED BY <2>1, <2>2, <3>1, <3>2
    <2>6. happened' \subseteq FaultKinds
      BY <2>1 DEF Shape, TypeOK, FaultKinds
    <2> QED BY <1>1, <2>5, <2>6, <2>7, EmptySeq DEF PowerLoss, Shape, TypeOK, Lines
  <1>2. CASE \E i \in DOMAIN file : Damage(i)
    <2>1. PICK i \in 1 .. Len(file) : Damage(i)
      BY <1>0, <1>2
    <2>2. file[i] \in Entry
      BY <1>0, <2>1, ElementOfSeq DEF Damage, Lines
    <2>3. \E l \in Entry : file' = [file EXCEPT ![i] = l]
      BY <1>0, <2>1, <2>2, DataAssumption DEF Damage, Entry
    <2>4. file' \in Seq(Lines) /\ Len(file') = Len(file) /\ damaged' \in 0 .. Len(file')
      BY <1>0, <2>1, <2>3, ExceptSeq DEF Lines, Damage
    <2>5. file' # << >>
      BY <1>0, <2>1, <2>4, EmptySeq
    <2> QED BY <2>1, <2>4, <2>5 DEF Damage, Shape, TypeOK, Lines, FaultKinds
  <1> QED BY <1>1, <1>2

LEMMA NextShape == Shape /\ [Next]_vars => Shape'
  <1>1. Shape /\ UNCHANGED vars => Shape'
    BY DEF Shape, TypeOK, vars
  <1> QED BY <1>1, ProcessShape, StorageShape DEF Next

\* Type correctness of the log and its file (audit/log.py:40-125).
THEOREM TypeCorrect == Spec => []TypeOK
  <1>1. Spec => []Shape
    BY InitShape, NextShape, PTL DEF Spec
  <1> QED BY <1>1, PTL DEF Shape

-----------------------------------------------------------------------------
\* The log verifies up to the damaged line, while no other fault has been but crashes,
\* torn lines and losses of power.
Calm == Never({"shared", "refused", "changed"})

\* s links up to position d, which does not.
BrokenFirst(s, d) == d \in 1 .. Len(s) /\ ~Links(s, d) /\ \A i \in 1 .. d - 1 : Links(s, i)

\* What makes it inductive: one process runs, the entries in its memory are chained
\* but for the damaged line, the readable lines are too, and while every line is
\* readable and none damaged they are the entries in memory but the one being
\* persisted.
OneUp      == \A p, q \in Up : p = q
FileMarked == \A i \in DOMAIN file : (\A j \in 1 .. i : file[j] # Torn) =>
                  /\ damaged = 0 \/ i < damaged => Links(file, i)
                  /\ i = damaged => ~Links(file, i)
MemMarked  == \A p \in Up : \/ \A i \in 1 .. Len(mem[p]) : Links(mem[p], i)
                            \/ BrokenFirst(mem[p], damaged)
MemLeads   == \A p \in Up : NoTorn /\ damaged = 0 =>
                  /\ pc[p] = "idle" => mem[p] = file
                  /\ pc[p] = "persist" => mem[p] = Append(file, Last(mem[p]))

Chained  == FileMarked /\ OneUp /\ MemMarked /\ MemLeads
ChainInv == /\ Shape /\ (Calm => Chained)
            /\ "damage" \notin happened => damaged = 0

\* Whether a position links depends on it and the position before it only.
LEMMA LinksAgree ==
    ASSUME NEW s, NEW t, NEW i \in Nat \ {0}, s[i] = t[i], i # 1 => s[i - 1] = t[i - 1],
           Links(s, i)
    PROVE  Links(t, i)
  BY DEF Links, HashAt, compute_hash

\* The entry append() makes links to the sequence it is appended to.
LEMMA NewLinks ==
    ASSUME NEW s \in Seq(Entry), NEW d \in Data, NEW id \in Nat,
           \A i \in 1 .. Len(s) : Links(s, i)
    PROVE  LET e == NewEntry(id, d, HashAt(s, Len(s)))
           IN  \A i \in 1 .. Len(s) + 1 : Links(Append(s, e), i)
  <1> DEFINE e == NewEntry(id, d, HashAt(s, Len(s)))
             t == Append(s, e)
  <1>1. e \in Entry
    BY NewEntryType
  <1>2. Len(s) \in Nat /\ t[Len(s) + 1] = e /\ \A i \in 1 .. Len(s) : t[i] = s[i]
    BY <1>1, AppendProperties, LenProperties
  <1>3. ASSUME NEW i \in 1 .. Len(s) PROVE Links(t, i)
    <2> HIDE DEF t
    <2>1. i \in Nat \ {0} /\ t[i] = s[i] /\ (i # 1 => t[i - 1] = s[i - 1])
      BY <1>2
    <2> QED BY <2>1, LinksAgree
  <1>4. Links(t, Len(s) + 1)
    <2>1. HashAt(t, Len(s)) = HashAt(s, Len(s))
      BY <1>2 DEF HashAt
    <2> QED BY <1>2, <2>1 DEF Links, NewEntry, compute_hash
  <1>5. \A i \in 1 .. Len(s) + 1 : i \in 1 .. Len(s) \/ i = Len(s) + 1
    BY <1>2
  <1> HIDE DEF e, t
  <1>6. \A i \in 1 .. Len(s) + 1 : Links(t, i)
    BY <1>3, <1>4, <1>5
  <1> QED BY <1>6 DEF e, t

\* So the first break of a sequence is that of every longer one.
LEMMA BrokenStays ==
    ASSUME NEW s, NEW t, NEW d, BrokenFirst(s, d), Len(s) \in Nat, Len(t) \in Nat,
           Len(s) <= Len(t), \A i \in 1 .. Len(s) : t[i] = s[i]
    PROVE  BrokenFirst(t, d)
  <1>1. d \in 1 .. Len(s) /\ ~Links(s, d) /\ \A i \in 1 .. d - 1 : Links(s, i)
    BY DEF BrokenFirst
  <1>2. ASSUME NEW i \in 1 .. d PROVE Links(t, i) <=> Links(s, i)
    <2>1. i \in Nat \ {0} /\ t[i] = s[i] /\ (i # 1 => t[i - 1] = s[i - 1])
      BY <1>1
    <2> QED BY <2>1, LinksAgree
  <1>3. d \in 1 .. Len(t) /\ d \in 1 .. d /\ \A i \in 1 .. d - 1 : i \in 1 .. d
    BY <1>1
  <1> QED BY <1>1, <1>2, <1>3 DEF BrokenFirst

\* A write keeps the marks of the file if the line it adds to a readable file that
\* is not damaged links.
LEMMA WriteKeepsMarks ==
    ASSUME Shape, FileMarked, NEW l \in Lines, file' = Written(l), damaged' = damaged,
           NoTorn /\ eol /\ l # Torn /\ damaged = 0 => Links(Append(file, l), Len(file) + 1)
    PROVE  FileMarked'
  <1>0. /\ file \in Seq(Lines) /\ Len(file) \in Nat /\ DOMAIN file = 1 .. Len(file)
        /\ damaged \in 0 .. Len(file)
    BY LenProperties DEF Shape, TypeOK, Lines
  <1>1. /\ Written(l) \in Seq(Lines)
        /\ \A i \in 1 .. Len(file) - 1 : Written(l)[i] = file[i]
        /\ eol => /\ Len(Written(l)) = Len(file) + 1
                  /\ \A i \in 1 .. Len(file) : Written(l)[i] = file[i]
                  /\ Written(l)[Len(file) + 1] = l
        /\ ~eol => /\ Len(Written(l)) = Len(file) /\ Len(file) # 0
                   /\ Written(l)[Len(file)] = Torn
    BY WrittenLine
  <1>2. DOMAIN Written(l) = 1 .. Len(Written(l))
    BY <1>1, LenProperties
  <1> SUFFICES ASSUME NEW i \in 1 .. Len(Written(l)), \A j \in 1 .. i : Written(l)[j] # Torn
               PROVE  /\ damaged = 0 \/ i < damaged => Links(Written(l), i)
                      /\ i = damaged => ~Links(Written(l), i)
    BY <1>2 DEF FileMarked
  <1>3. CASE eol /\ i = Len(file) + 1
    <2>1. NoTorn /\ l # Torn
      BY <1>0, <1>1, <1>3 DEF NoTorn
    <2>2. Written(l) = Append(file, l)
      BY <1>3 DEF Written
    <2>3. ~(i < damaged) /\ i # damaged
      BY <1>0, <1>3
    <2> QED BY <1>3, <2>1, <2>2, <2>3
  <1>4. CASE i \in 1 .. Len(file) /\ (eol \/ i < Len(file))
    <2>1. \A j \in 1 .. i : Written(l)[j] = file[j]
      BY <1>0, <1>1, <1>4
    <2>2. /\ damaged = 0 \/ i < damaged => Links(file, i)
          /\ i = damaged => ~Links(file, i)
      BY <1>0, <1>4, <2>1 DEF FileMarked
    <2>3. i \in Nat \ {0} /\ Written(l)[i] = file[i] /\ (i # 1 => Written(l)[i - 1] = file[i - 1])
      BY <1>0, <1>4, <2>1
    <2>4. Links(file, i) <=> Links(Written(l), i)
      BY <2>3, LinksAgree
    <2> QED BY <2>2, <2>4
  <1>5. CASE ~eol /\ i = Len(file)
    BY <1>0, <1>1, <1>5
  <1>6. CASE eol
    <2>1. i \in 1 .. Len(file) \/ i = Len(file) + 1
      BY <1>0, <1>1, <1>6
    <2> QED BY <1>3, <1>4, <1>6, <2>1
  <1>7. CASE ~eol
    <2>1. Len(Written(l)) = Len(file) /\ Len(file) \in Nat
      BY <1>0, <1>1, <1>7
    <2>2. i \in 1 .. Len(file) /\ (i < Len(file) \/ i = Len(file))
      BY <2>1
    <2> QED BY <1>4, <1>5, <1>7, <2>2
  <1> QED BY <1>6, <1>7

LEMMA InitChain == Init => ChainInv
  <1> SUFFICES ASSUME Init PROVE ChainInv
    OBVIOUS
  <1>1. Up = {}
    BY DEF Init, Up
  <1>2. DOMAIN file = {}
    BY DEF Init
  <1>3. damaged = 0
    BY DEF Init
  <1> QED BY <1>1, <1>2, <1>3, InitShape
          DEF ChainInv, Chained, FileMarked, OneUp, MemMarked, MemLeads

\* The log of a process that opens the file.
LEMMA LoadChain ==
    ASSUME Shape, Chained, Calm', NEW p \in Procs, Load(p)
    PROVE  Chained'
  <1>2. Up = {} /\ file' = file /\ damaged' = damaged
    BY DEF Load, Calm, Never
  <1>3. CASE NoTorn
    <2>1. Up' = {p} /\ pc'[p] = "idle" /\ mem'[p] = file
      BY <1>2, <1>3 DEF Load, Up, Shape, TypeOK
    <2>2. DOMAIN file = 1 .. Len(file) /\ Len(file) \in Nat /\ damaged \in 0 .. Len(file)
      BY LenProperties DEF Shape, TypeOK
    <2>3. \A i \in 1 .. Len(file) : /\ damaged = 0 \/ i < damaged => Links(file, i)
                                    /\ i = damaged => ~Links(file, i)
      BY <1>3, <2>2 DEF Chained, FileMarked, NoTorn
    <2>4. (\A i \in 1 .. Len(file) : Links(file, i)) \/ BrokenFirst(file, damaged)
      <3>1. CASE damaged = 0
        BY <2>3, <3>1
      <3>2. CASE damaged # 0
        <4>1. damaged \in 1 .. Len(file) /\ \A i \in 1 .. damaged - 1 : i \in 1 .. Len(file) /\ i < damaged
          BY <2>2, <3>2
        <4> QED BY <2>3, <4>1 DEF BrokenFirst
      <3> QED BY <3>1, <3>2
    <2>5. MemMarked'
      BY <1>2, <2>1, <2>4 DEF MemMarked, BrokenFirst
    <2> QED BY <1>2, <2>1, <2>5 DEF Chained, FileMarked, OneUp, MemLeads
  <1>4. CASE ~NoTorn
    <2>1. Up' = {}
      BY <1>2, <1>4 DEF Load, Up, Shape, TypeOK
    <2> QED BY <1>2, <2>1 DEF Chained, FileMarked, OneUp, MemMarked, MemLeads
  <1> QED BY <1>3, <1>4

LEMMA AppendChain ==
    ASSUME Shape, Chained, Calm', NEW p \in Procs, NEW d \in Data, append(p, d)
    PROVE  Chained'
  <1> DEFINE e == NewEntry(next_id + 1, d, HashAt(mem[p], Len(mem[p])))
  <1>2. /\ mem[p] \in Seq(Entry) /\ next_id + 1 \in Nat /\ e \in Entry
        /\ Len(mem[p]) \in Nat
    BY NewEntryType, LenProperties DEF Shape, TypeOK
  <1>3. /\ Up' = Up /\ p \in Up /\ file' = file /\ mem'[p] = Append(mem[p], e)
        /\ damaged' = damaged
        /\ \A q \in Procs : q # p => mem'[q] = mem[q] /\ pc'[q] = pc[q]
        /\ pc[p] = "idle" /\ pc'[p] = "persist"
    BY DEF append, Up, Shape, TypeOK
  <1>4. Up = {p}
    BY <1>3 DEF Chained, OneUp
  <1>5. /\ Len(mem'[p]) = Len(mem[p]) + 1 /\ mem'[p][Len(mem[p]) + 1] = e
        /\ \A i \in 1 .. Len(mem[p]) : mem'[p][i] = mem[p][i]
    BY <1>2, <1>3, AppendProperties
  <1>6. MemMarked'
    <2>1. CASE \A i \in 1 .. Len(mem[p]) : Links(mem[p], i)
      <3>1. \A i \in 1 .. Len(mem[p]) + 1 : Links(mem'[p], i)
        BY <1>2, <1>3, <2>1, NewLinks
      <3> QED BY <1>3, <1>4, <1>5, <3>1 DEF MemMarked
    <2>2. CASE BrokenFirst(mem[p], damaged)
      <3> DEFINE old == mem[p]
                 new == mem'[p]
      <3>1. BrokenFirst(old, damaged) /\ Len(old) \in Nat /\ Len(new) \in Nat
            /\ Len(old) <= Len(new) /\ \A i \in 1 .. Len(old) : new[i] = old[i]
        BY <1>2, <1>5, <2>2
      <3>2. BrokenFirst(new, damaged)
        <4> HIDE DEF old, new
        <4> QED BY <3>1, BrokenStays
      <3>3. BrokenFirst(mem[p], damaged)'
        BY <1>3, <3>2 DEF BrokenFirst
      <3> QED BY <1>3, <1>4, <3>3 DEF MemMarked
    <2> QED BY <1>3, <2>1, <2>2 DEF Chained, MemMarked
  <1>7. Last(mem'[p]) = e
    BY <1>5 DEF Last
  <1>8. MemLeads'
    <2>1. NoTorn' = NoTorn
      BY <1>3 DEF NoTorn
    <2>2. NoTorn /\ damaged = 0 => mem[p] = file
      BY <1>3 DEF Chained, MemLeads
    <2> QED BY <1>3, <1>4, <1>7, <2>1, <2>2 DEF MemLeads
  <1> QED BY <1>3, <1>6, <1>8 DEF Chained, FileMarked, OneUp

\* The line of a pending entry keeps the marks of the file: it is the entry itself,
\* and it follows the last readable line.
LEMMA PendingKeepsMarks ==
    ASSUME Shape, Chained, NEW p \in Up, pc[p] = "persist", damaged' = damaged,
           Change(Last(mem[p])) = {}, NEW l \in {Torn, Line(Last(mem[p]))}
    PROVE  /\ l \in Lines /\ Line(Last(mem[p])) = Last(mem[p])
           /\ file' = Written(l) => FileMarked'
  <1>1. p \in Procs
    BY DEF Up
  <1>2. Last(mem[p]) \in Entry /\ Line(Last(mem[p])) \in Entry
    BY <1>1, PendingEntry
  <1>3. Line(Last(mem[p])) = Last(mem[p])
    BY <1>2 DEF Change, Line, Entry
  <1>4. l \in Lines
    BY <1>2 DEF Lines
  <1>5. NoTorn /\ l # Torn /\ damaged = 0 => Links(Append(file, l), Len(file) + 1)
    <2> SUFFICES ASSUME NoTorn, l # Torn, damaged = 0 PROVE Links(mem[p], Len(file) + 1)
      BY <1>3 DEF Chained, MemLeads
    <2>1. file \in Seq(Lines) /\ l \in Lines /\ mem[p] = Append(file, l) /\ Len(file) \in Nat
      BY <1>1, <1>3, <1>4, LenProperties DEF Chained, MemLeads, Shape, TypeOK, Lines
    <2>2. Len(mem[p]) = Len(file) + 1
      BY <2>1, AppendProperties
    <2>3. Len(file) + 1 \in 1 .. Len(mem[p])
      BY <2>1, <2>2
    <2>4. ~BrokenFirst(mem[p], damaged)
      BY DEF BrokenFirst
    <2> QED BY <2>3, <2>4 DEF Chained, MemMarked
  <1> QED BY <1>1, <1>3, <1>4, <1>5, WriteKeepsMarks DEF Chained

LEMMA PersistChain ==
    ASSUME Shape, Chained, Calm', NEW p \in Procs, persist(p)
    PROVE  Chained'
  <1> DEFINE e == Last(mem[p])
  <1>2. p \in Up /\ pc[p] = "persist" /\ Up' = Up /\ mem' = mem /\ pc'[p] = "idle"
        /\ damaged' = damaged
    BY DEF persist, Up, Shape, TypeOK
  <1>3. Up = {p}
    BY <1>2 DEF Chained, OneUp
  <1>4. file' = Written(e) /\ e \in Lines /\ FileMarked'
    <2>1. Change(e) = {}
      BY DEF persist, WriteLine, Change, Calm, Never
    <2> QED BY <1>2, <2>1, PendingKeepsMarks DEF persist, WriteLine
  <1>5. MemLeads'
    <2> SUFFICES ASSUME NoTorn', damaged = 0 PROVE mem[p] = file'
      BY <1>2, <1>3 DEF MemLeads
    <2>1. file \in Seq(Lines) /\ Len(file) \in Nat /\ DOMAIN file = 1 .. Len(file)
      BY LenProperties DEF Shape, TypeOK, Lines
    <2>2. /\ Written(e) \in Seq(Lines)
          /\ eol => /\ Len(Written(e)) = Len(file) + 1
                    /\ \A i \in 1 .. Len(file) : Written(e)[i] = file[i]
          /\ ~eol => /\ Len(Written(e)) = Len(file) /\ Len(file) # 0
                     /\ Written(e)[Len(file)] = Torn
      BY <1>4, WrittenLine
    <2>3. DOMAIN Written(e) = 1 .. Len(Written(e))
      BY <2>2, LenProperties
    <2>4. eol
      <3> SUFFICES ASSUME ~eol PROVE FALSE
        BY DEF Shape, TypeOK
      <3>1. Len(file) \in DOMAIN Written(e) /\ Written(e)[Len(file)] = Torn
        BY <2>1, <2>2, <2>3
      <3> QED BY <1>4, <3>1 DEF NoTorn
    <2>5. NoTorn
      <3>1. \A i \in 1 .. Len(file) : i \in DOMAIN Written(e) /\ Written(e)[i] = file[i]
        BY <2>1, <2>2, <2>3, <2>4
      <3> QED BY <1>4, <2>1, <3>1 DEF NoTorn
    <2>6. mem[p] = Append(file, e)
      BY <1>2, <2>5 DEF Chained, MemLeads
    <2> QED BY <1>4, <2>4, <2>6 DEF Written
  <1> QED BY <1>2, <1>4, <1>5 DEF Chained, OneUp, MemMarked, BrokenFirst

LEMMA CrashChain ==
    ASSUME Shape, Chained, Calm', NEW p \in Procs, Crash(p)
    PROVE  Chained'
  <1>2. p \in Up
    BY DEF Crash
  <1>3. Up = {p}
    BY <1>2 DEF Chained, OneUp
  <1>6. damaged' = damaged
    BY DEF Crash
  <1>4. Up' = {}
    BY <1>3 DEF Crash, Up, Shape, TypeOK
  <1>5. FileMarked'
    <2>1. CASE UNCHANGED <<file, eol>>
      BY <1>6, <2>1 DEF Chained, FileMarked
    <2>2. CASE /\ pc[p] = "persist" /\ Change(Last(mem[p])) = {}
               /\ \E l \in {Torn, Line(Last(mem[p]))} : file' = Written(l)
      BY <1>2, <1>6, <2>2, PendingKeepsMarks
    <2> QED BY <2>1, <2>2 DEF Crash, WriteLine, Change, Calm, Never
  <1> QED BY <1>4, <1>5 DEF Chained, OneUp, MemMarked, MemLeads

\* A loss of power leaves a prefix of the file, and perhaps a torn line.
LEMMA PowerChain ==
    ASSUME Shape, Chained, PowerLoss
    PROVE  Chained'
  <1>2. Up' = {}
    BY DEF PowerLoss, Up
  <1>3. FileMarked'
    <2>1. PICK n \in 0 .. Len(file) :
            /\ file' \in {SubSeq(file, 1, n), Append(SubSeq(file, 1, n), Torn)}
            /\ damaged' = IF damaged <= n THEN damaged ELSE 0
      BY DEF PowerLoss
    <2>2. /\ file \in Seq(Lines) /\ Len(file) \in Nat /\ DOMAIN file = 1 .. Len(file)
          /\ Torn \in Lines /\ damaged \in 0 .. Len(file)
      BY LenProperties DEF Shape, TypeOK, Lines
    <2>3. /\ SubSeq(file, 1, n) \in Seq(Lines) /\ Len(SubSeq(file, 1, n)) = n
          /\ \A i \in 1 .. n : SubSeq(file, 1, n)[i] = file[i]
      BY PrefixOfFile
    <2>4. /\ file' \in Seq(Lines) /\ Len(file') \in {n, n + 1}
          /\ \A i \in 1 .. n : file'[i] = file[i]
          /\ Len(file') = n + 1 => file'[n + 1] = Torn
      <3> DEFINE kept == SubSeq(file, 1, n)
      <3>1. /\ Append(kept, Torn) \in Seq(Lines) /\ Len(Append(kept, Torn)) = n + 1
            /\ \A i \in 1 .. n : Append(kept, Torn)[i] = kept[i]
            /\ Append(kept, Torn)[n + 1] = Torn
        BY <2>2, <2>3, AppendProperties
      <3>2. n \in Nat
        BY <2>2
      <3> HIDE DEF kept
      <3>3. CASE file' = kept
        BY <2>3, <3>2, <3>3 DEF kept
      <3>4. CASE file' = Append(kept, Torn)
        BY <2>3, <3>1, <3>2, <3>4 DEF kept
      <3> QED BY <2>1, <3>3, <3>4 DEF kept
    <2>5. DOMAIN file' = 1 .. Len(file')
      BY <2>4, LenProperties
    <2>6. ASSUME NEW i \in 1 .. Len(file'), \A j \in 1 .. i : file'[j] # Torn
          PROVE  /\ damaged' = 0 \/ i < damaged' => Links(file', i)
                 /\ i = damaged' => ~Links(file', i)
      <3>1. i \in 1 .. n
        BY <2>2, <2>4, <2>6
      <3>2. \A j \in 1 .. i : file'[j] = file[j]
        BY <2>2, <2>4, <3>1
      <3>3. /\ damaged = 0 \/ i < damaged => Links(file, i)
            /\ i = damaged => ~Links(file, i)
        BY <2>2, <2>6, <3>1, <3>2 DEF Chained, FileMarked
      <3>4. i \in Nat \ {0} /\ file[i] = file'[i] /\ (i # 1 => file[i - 1] = file'[i - 1])
        BY <2>2, <3>1, <3>2
      <3>5. Links(file', i) <=> Links(file, i)
        BY <3>4, LinksAgree
      <3>6. /\ damaged' = 0 \/ i < damaged' => damaged = 0 \/ i < damaged
            /\ i = damaged' => i = damaged
        BY <2>1, <2>2, <3>1
      <3> QED BY <3>3, <3>5, <3>6
    <2> QED BY <2>5, <2>6 DEF FileMarked
  <1> QED BY <1>2, <1>3 DEF Chained, OneUp, MemMarked, MemLeads

\* A damaged line does not link, and those before it still do.
LEMMA DamageChain ==
    ASSUME Shape, Chained, NEW i \in DOMAIN file, Damage(i)
    PROVE  Chained'
  <1>1. /\ file \in Seq(Lines) /\ Len(file) \in Nat /\ DOMAIN file = 1 .. Len(file)
        /\ damaged = 0 /\ damaged' = i /\ pc' = pc /\ mem' = mem /\ file[i] # Torn
    BY LenProperties DEF Shape, TypeOK, Lines, Damage
  <1>2. file[i] \in Entry
    BY <1>1, ElementOfSeq DEF Lines
  <1>3. PICK l \in Entry : /\ file' = [file EXCEPT ![i] = l]
                           /\ \/ /\ l.data # file[i].data /\ l.prev_hash = file[i].prev_hash
                                 /\ l.entry_hash = file[i].entry_hash
                              \/ l.prev_hash # file[i].prev_hash
                              \/ /\ l.entry_hash # file[i].entry_hash /\ l.data = file[i].data
                                 /\ l.prev_hash = file[i].prev_hash
    <2>1. ASSUME NEW d \in Data \ {file[i].data}, file' = [file EXCEPT ![i].data = d]
          PROVE  /\ [file[i] EXCEPT !.data = d] \in Entry
                 /\ file' = [file EXCEPT ![i] = [file[i] EXCEPT !.data = d]]
      BY <1>1, <1>2, <2>1 DEF Entry
    <2>2. ASSUME NEW h \in Garbage \ {file[i].prev_hash}, file' = [file EXCEPT ![i].prev_hash = h]
          PROVE  /\ [file[i] EXCEPT !.prev_hash = h] \in Entry
                 /\ file' = [file EXCEPT ![i] = [file[i] EXCEPT !.prev_hash = h]]
      BY <1>1, <1>2, <2>2, DataAssumption DEF Entry
    <2>3. ASSUME NEW h \in Garbage \ {file[i].entry_hash}, file' = [file EXCEPT ![i].entry_hash = h]
          PROVE  /\ [file[i] EXCEPT !.entry_hash = h] \in Entry
                 /\ file' = [file EXCEPT ![i] = [file[i] EXCEPT !.entry_hash = h]]
      BY <1>1, <1>2, <2>3, DataAssumption DEF Entry
    <2> QED BY <1>2, <2>1, <2>2, <2>3 DEF Damage, Entry
  <1>4. /\ DOMAIN file' = 1 .. Len(file) /\ file'[i] = l
        /\ \A j \in 1 .. Len(file) : j # i => file'[j] = file[j]
    BY <1>1, <1>3
  <1>5. ASSUME NEW j \in 1 .. i, \A k \in 1 .. j : file'[k] # Torn PROVE Links(file, j)
    <2>1. j \in 1 .. Len(file) /\ \A k \in 1 .. j : file[k] # Torn
      BY <1>1, <1>4, <1>5
    <2> QED BY <1>1, <2>1 DEF Chained, FileMarked
  <1>6. ASSUME NEW j \in 1 .. i, j < i, \A k \in 1 .. j : file'[k] # Torn PROVE Links(file', j)
    <2>1. j \in Nat \ {0} /\ file[j] = file'[j] /\ (j # 1 => file[j - 1] = file'[j - 1])
      BY <1>1, <1>4, <1>6
    <2> QED BY <1>5, <1>6, <2>1, LinksAgree
  <1>7. ASSUME \A k \in 1 .. i : file'[k] # Torn PROVE ~Links(file', i)
    <2>1. i \in Nat \ {0} /\ i \in 1 .. i /\ (i # 1 => file'[i - 1] = file[i - 1])
      BY <1>1, <1>4
    <2>2. /\ file[i].prev_hash = HashAt(file, i - 1)
          /\ file[i].entry_hash = Append(file[i].prev_hash, file[i].data)
      BY <1>5, <1>7, <2>1 DEF Links, compute_hash
    <2>3. HashAt(file', i - 1) = HashAt(file, i - 1)
      BY <2>1 DEF HashAt
    <2>4. l.data # file[i].data => Append(file[i].prev_hash, l.data) # Append(file[i].prev_hash, file[i].data)
      <3>1. file[i].prev_hash \in Seq(Data) /\ l.data \in Data /\ file[i].data \in Data
        BY <1>2, <1>3 DEF Entry, Digest
      <3> QED BY <3>1, AppendInjective
    <2> QED BY <1>3, <1>4, <2>2, <2>3, <2>4 DEF Links, compute_hash
  <1>8. FileMarked'
    <2> SUFFICES ASSUME NEW j \in 1 .. Len(file), \A k \in 1 .. j : file'[k] # Torn
                 PROVE  (j < i => Links(file', j)) /\ (j = i => ~Links(file', j))
      BY <1>1, <1>4 DEF FileMarked
    <2>1. CASE j < i
      BY <1>1, <1>6, <2>1
    <2>2. CASE j = i
      BY <1>7, <2>2
    <2> QED BY <1>1, <2>1, <2>2
  <1>9. MemMarked'
    <2>1. \A s : ~BrokenFirst(s, 0)
      BY DEF BrokenFirst
    <2>2. \A p \in Up : \A k \in 1 .. Len(mem[p]) : Links(mem[p], k)
      BY <1>1, <2>1 DEF Chained, MemMarked
    <2> QED BY <1>1, <2>2 DEF MemMarked, Up
  <1>10. MemLeads'
    BY <1>1 DEF MemLeads
  <1>11. OneUp'
    BY <1>1 DEF Chained, OneUp, Up
  <1> QED BY <1>8, <1>9, <1>10, <1>11 DEF Chained

LEMMA NextChain == ASSUME ChainInv, [Next]_vars PROVE ChainInv'
  <1>1. Shape'
    BY NextShape DEF ChainInv
  <1>2. happened \subseteq happened'
    BY DEF Next, Load, append, persist, persist_raises, Crash, WriteLine, PowerLoss, Damage, vars
  <1>8. "damage" \notin happened' => damaged' = 0
    <2>1. damaged' # damaged /\ damaged' # 0 => "damage" \in happened'
      BY DEF Next, Load, append, persist, persist_raises, Crash, PowerLoss, Damage, vars
    <2> QED BY <1>2, <2>1 DEF ChainInv
  <1> SUFFICES ASSUME Calm' PROVE Chained'
    BY <1>1, <1>8 DEF ChainInv
  <1>3. Shape /\ Chained
    BY <1>2 DEF ChainInv, Calm, Never
  <1>4. CASE UNCHANGED vars
    BY <1>3, <1>4 DEF vars, Chained, FileMarked, OneUp, MemMarked, MemLeads, Up, NoTorn, BrokenFirst
  <1>5. ASSUME NEW i \in DOMAIN file, Damage(i) PROVE Chained'
    BY <1>3, <1>5, DamageChain
  <1>6. ASSUME NEW p \in Procs PROVE ~persist_raises(p)
    BY DEF persist_raises, Calm, Never
  <1>7. ASSUME NEW p \in Procs,
               Load(p) \/ persist(p) \/ Crash(p) \/ \E d \in Data : append(p, d)
        PROVE  Chained'
    BY <1>3, <1>7, LoadChain, PersistChain, CrashChain, AppendChain
  <1> QED BY <1>3, <1>4, <1>5, <1>6, <1>7, PowerChain DEF Next

LEMMA ChainInvariant == Spec => []ChainInv
  <1>1. ChainInv /\ [Next]_vars => ChainInv'
    BY NextChain
  <1> QED BY <1>1, InitChain, PTL DEF Spec

\* Nothing but damage damages a line.
LEMMA CalmAndWhole ==
    ASSUME ChainInv, Never({"shared", "refused", "changed", "damage"})
    PROVE  Shape /\ Chained /\ damaged = 0
  BY DEF ChainInv, Calm, Never

\* A sequence whose positions all link has no break.
LEMMA NoBreak ==
    ASSUME NEW s, DOMAIN s = 1 .. Len(s), \A i \in 1 .. Len(s) : Links(s, i)
    PROVE  verify_chain(s) = Intact
  <1>1. Broken(s) = {}
    BY DEF Broken
  <1> QED BY <1>1 DEF verify_chain

\* verify_chain() answers with the first break.
LEMMA FirstBreak ==
    ASSUME NEW s, Len(s) \in Nat, DOMAIN s = 1 .. Len(s), NEW d, BrokenFirst(s, d)
    PROVE  verify_chain(s) = d
  <1>1. d \in 1 .. Len(s) /\ ~Links(s, d) /\ \A i \in 1 .. d - 1 : Links(s, i)
    BY DEF BrokenFirst
  <1>2. d \in Broken(s)
    BY <1>1 DEF Broken
  <1>3. \A j \in Broken(s) : j \in Nat /\ d <= j
    <2> SUFFICES ASSUME NEW j \in 1 .. Len(s), ~Links(s, j), ~(d <= j) PROVE FALSE
      BY <1>1 DEF Broken
    <2>1. j \in 1 .. d - 1
      BY <1>1
    <2> QED BY <1>1, <2>1
  <1>4. \A i \in Broken(s) : (\A j \in Broken(s) : i <= j) => i = d
    BY <1>1, <1>2, <1>3
  <1> QED BY <1>2, <1>3, <1>4 DEF verify_chain

\* verify_chain() answers (True, None) in every running process, whatever
\* crashes, torn lines and losses of power came before (audit/log.py:63-79).
THEOREM LogVerifies == Spec => []ChainIntact
  <1>1. ChainInv => ChainIntact
    <2> SUFFICES ASSUME ChainInv, Never({"shared", "refused", "changed", "damage"}), NEW p \in Up
                 PROVE  verify_chain(mem[p]) = Intact
      BY DEF ChainIntact
    <2>1. Shape /\ Chained /\ damaged = 0
      BY CalmAndWhole
    <2>2. DOMAIN mem[p] = 1 .. Len(mem[p])
      BY <2>1, LenProperties DEF Shape, TypeOK, Up
    <2>3. ~BrokenFirst(mem[p], damaged)
      BY <2>1 DEF BrokenFirst
    <2>4. \A i \in 1 .. Len(mem[p]) : Links(mem[p], i)
      BY <2>1, <2>3 DEF Chained, MemMarked
    <2> QED BY <2>2, <2>4, NoBreak
  <1> QED BY <1>1, ChainInvariant, PTL

\* An idle process has in memory exactly what a restart reads
\* (audit/log.py:49-61, 107-125).
THEOREM MemoryMatchesFile == Spec => []MemoryIsFile
  <1>1. ChainInv => MemoryIsFile
    BY CalmAndWhole DEF Chained, MemLeads, MemoryIsFile
  <1> QED BY <1>1, ChainInvariant, PTL

\* verify_chain() points at the line that was damaged, in the file and in every
\* process that has read it, whatever was appended and torn since
\* (audit/log.py:4-6, 69-70).
THEOREM DamageIsLocated == Spec => []DamageLocated
  <1>1. ChainInv => DamageLocated
    <2> SUFFICES ASSUME Shape, Chained
                 PROVE  /\ damaged # 0 /\ NoTorn => verify_chain(file) = damaged
                        /\ \A p \in Up : verify_chain(mem[p]) \in {Intact, damaged}
      BY DEF ChainInv, Calm, DamageLocated
    <2>1. ASSUME damaged # 0, NoTorn PROVE verify_chain(file) = damaged
      <3>1. /\ Len(file) \in Nat /\ DOMAIN file = 1 .. Len(file)
            /\ damaged \in 1 .. Len(file)
        BY <2>1, LenProperties DEF Shape, TypeOK
      <3>2. \A i \in 1 .. Len(file) : /\ i < damaged => Links(file, i)
                                      /\ i = damaged => ~Links(file, i)
        BY <2>1, <3>1 DEF Chained, FileMarked, NoTorn
      <3>3. \A i \in 1 .. damaged - 1 : i \in 1 .. Len(file) /\ i < damaged
        BY <3>1
      <3>4. BrokenFirst(file, damaged)
        BY <3>1, <3>2, <3>3 DEF BrokenFirst
      <3> QED BY <3>1, <3>4, FirstBreak
    <2>2. ASSUME NEW p \in Up PROVE verify_chain(mem[p]) \in {Intact, damaged}
      <3>1. Len(mem[p]) \in Nat /\ DOMAIN mem[p] = 1 .. Len(mem[p])
        BY LenProperties DEF Shape, TypeOK, Up
      <3> QED BY <3>1, NoBreak, FirstBreak DEF Chained, MemMarked
    <2> QED BY <2>1, <2>2
  <1> QED BY <1>1, ChainInvariant, PTL

-----------------------------------------------------------------------------
\* No acknowledged entry is lost while the storage keeps whole lines, even if
\* processes share the file, lines are refused and json changes contents
\* (audit/log.py:49-61, 101-105).
Kept == Never({"torn", "power"})
KeptInv == Shape /\ (Kept => eol /\ AckedOnFile)

\* The entry _persist has written is in the file, and none that was has gone.
LEMMA WrittenIsStored ==
    ASSUME Shape, eol, Kept, AckedOnFile, NEW p \in Procs, pc[p] = "persist",
           file' = Written(Line(Last(mem[p]))),
           acked' \subseteq acked \cup {Last(mem[p]).entry_id}
    PROVE  AckedOnFile'
  <1> DEFINE l == Line(Last(mem[p]))
  <1>1. l \in Entry /\ l.entry_id = Last(mem[p]).entry_id
    BY PendingEntry
  <1>2. l \in Lines /\ l # Torn
    BY <1>1, TornAssumption DEF Lines
  <1>3. /\ Written(l) \in Seq(Lines) /\ Len(Written(l)) = Len(file) + 1
        /\ \A i \in 1 .. Len(file) : Written(l)[i] = file[i]
        /\ Written(l)[Len(file) + 1] = l
    BY <1>2, WrittenLine
  <1>4. /\ DOMAIN file = 1 .. Len(file) /\ Len(file) \in Nat
        /\ DOMAIN file' = 1 .. Len(file) + 1
    BY <1>3, LenProperties DEF Shape, TypeOK
  <1>5. \A i \in DOMAIN file : i \in DOMAIN file' /\ file'[i] = file[i]
    BY <1>3, <1>4
  <1>6. Len(file) + 1 \in DOMAIN file' /\ file'[Len(file) + 1] = l
    BY <1>3, <1>4
  <1> HIDE DEF l
  <1> QED BY <1>1, <1>2, <1>5, <1>6 DEF AckedOnFile, Kept, l

\* A damaged line keeps its entry_id.
LEMMA DamageKeepsIds ==
    ASSUME Shape, Kept, AckedOnFile, NEW i \in DOMAIN file, Damage(i)
    PROVE  AckedOnFile'
  <1>1. /\ file \in Seq(Lines) /\ Len(file) \in Nat /\ DOMAIN file = 1 .. Len(file)
    BY LenProperties DEF Shape, TypeOK, Lines
  <1>2. file[i] \in Entry
    BY <1>1, ElementOfSeq DEF Damage, Lines
  <1>3. PICK l \in Entry : file' = [file EXCEPT ![i] = l] /\ l.entry_id = file[i].entry_id
    BY <1>1, <1>2, DataAssumption DEF Damage, Entry
  <1>4. \A j \in DOMAIN file : j \in DOMAIN file' /\ file'[j] = IF j = i THEN l ELSE file[j]
    BY <1>1, <1>3
  <1>5. l # Torn
    BY <1>3, TornAssumption
  <1>6. acked' = acked
    BY DEF Damage
  <1> QED BY <1>3, <1>4, <1>5, <1>6 DEF AckedOnFile, Kept

\* An entry whose append() returned is in the file, whichever process wrote it
\* and whatever was refused or changed since (audit/log.py:49-61, 101-105).
THEOREM AcknowledgedIsStored == Spec => []AckedOnFile
  <1>1. Init => KeptInv
    BY InitShape DEF Init, KeptInv, AckedOnFile
  <1>2. KeptInv /\ [Next]_vars => KeptInv'
    <2> SUFFICES ASSUME KeptInv, [Next]_vars, Kept' PROVE eol' /\ AckedOnFile'
      BY NextShape DEF KeptInv
    <2>1. happened \subseteq happened'
      BY DEF Next, Load, append, persist, persist_raises, Crash, WriteLine, PowerLoss, Damage,
             vars
    <2>2. Shape /\ Kept /\ eol /\ AckedOnFile
      BY <2>1 DEF KeptInv, Kept, Never
    <2>3. CASE UNCHANGED <<file, eol, acked>>
      BY <2>2, <2>3 DEF AckedOnFile, Kept
    <2>4. ASSUME NEW p \in Procs, pc[p] = "persist", eol' = TRUE, WriteLine(Last(mem[p])),
                 acked' \subseteq acked \cup {Last(mem[p]).entry_id}
          PROVE  eol' /\ AckedOnFile'
      BY <2>2, <2>4, WrittenIsStored DEF WriteLine
    <2>5. ASSUME NEW p \in Procs,
                 Load(p) \/ persist(p) \/ persist_raises(p) \/ Crash(p)
                     \/ \E d \in Data : append(p, d)
          PROVE  eol' /\ AckedOnFile'
      BY <2>3, <2>4, <2>5 DEF Load, persist, persist_raises, Crash, append, Kept, Never
    <2>6. ~PowerLoss
      BY DEF PowerLoss, Kept, Never
    <2>7. ASSUME NEW i \in DOMAIN file, Damage(i) PROVE eol' /\ AckedOnFile'
      BY <2>2, <2>7, DamageKeepsIds DEF Damage
    <2> QED BY <2>3, <2>5, <2>6, <2>7 DEF Next, vars
  <1>3. Spec => []KeptInv
    BY <1>1, <1>2, PTL DEF Spec
  <1>4. KeptInv => AckedOnFile
    BY DEF KeptInv, Kept, AckedOnFile
  <1> QED BY <1>3, <1>4, PTL
-----------------------------------------------------------------------------
\* The lines of the file are one history: each continues a longer chain than all
\* lines before it, also when lines are missing between them.
Single == Never({"shared", "damage"})

\* The digest of an entry is longer than the digest it continues.
Longer(e) == Len(e.entry_hash) = Len(e.prev_hash) + 1

\* All readable lines of f continue a chain of fewer than n entries.
Below(f, n) == \A i \in DOMAIN f : f[i] # Torn => Len(f[i].prev_hash) < n

\* The length of the chain the next line of p continues.
Reach(p) == IF pc[p] = "persist" THEN Len(Last(mem[p]).prev_hash)
            ELSE Len(HashAt(mem[p], Len(mem[p])))

FileAscends(f) ==
    /\ \A i \in DOMAIN f : f[i] # Torn => Longer(f[i])
    /\ \A i, j \in DOMAIN f :
          i < j /\ f[i] # Torn /\ f[j] # Torn => Len(f[i].prev_hash) < Len(f[j].prev_hash)
MemAscends == \A p \in Up : /\ \A i \in 1 .. Len(mem[p]) : Longer(mem[p][i])
                            /\ Below(file, Reach(p))

Ascends   == OneUp /\ FileAscends(file) /\ MemAscends
AscendInv == Shape /\ (Single => Ascends)

\* Digests have lengths.
LEMMA DigestLengths ==
    ASSUME NEW e \in Entry
    PROVE  Len(e.prev_hash) \in Nat /\ Len(e.entry_hash) \in Nat
  BY LenProperties DEF Entry, Digest

\* A written line ascends if what is written does.
LEMMA WriteAscends ==
    ASSUME Shape, FileAscends(file), NEW l \in Lines, NEW n \in Nat, Below(file, n),
           l # Torn => Longer(l) /\ Below(file, Len(l.prev_hash)) /\ Len(l.prev_hash) < n
    PROVE  FileAscends(Written(l)) /\ Below(Written(l), n)
  <1>1. /\ Len(file) \in Nat /\ DOMAIN file = 1 .. Len(file)
    BY LenProperties DEF Shape, TypeOK, Lines
  <1>2. /\ Written(l) \in Seq(Lines)
        /\ \A i \in 1 .. Len(file) - 1 : Written(l)[i] = file[i]
        /\ eol => /\ Len(Written(l)) = Len(file) + 1
                  /\ \A i \in 1 .. Len(file) : Written(l)[i] = file[i]
                  /\ Written(l)[Len(file) + 1] = l
        /\ ~eol => /\ Len(Written(l)) = Len(file) /\ Len(file) # 0
                   /\ Written(l)[Len(file)] = Torn
    BY WrittenLine
  <1>3. DOMAIN Written(l) = 1 .. Len(Written(l))
    BY <1>2, LenProperties
  <1>4. ASSUME NEW i \in DOMAIN Written(l), Written(l)[i] # Torn
        PROVE  \/ i \in DOMAIN file /\ Written(l)[i] = file[i]
               \/ i = Len(file) + 1 /\ Written(l)[i] = l
    <2>1. CASE eol
      <3>1. i \in 1 .. Len(file) \/ i = Len(file) + 1
        BY <1>1, <1>2, <1>3, <2>1
      <3> QED BY <1>1, <1>2, <2>1, <3>1
    <2>2. CASE ~eol
      <3>1. Len(Written(l)) = Len(file)
        BY <1>2, <2>2
      <3>2. i \in 1 .. Len(file) /\ i # Len(file)
        BY <1>2, <1>3, <1>4, <2>2, <3>1
      <3> QED BY <1>1, <1>2, <3>2
    <2> QED BY <2>1, <2>2
  <1>5. Below(Written(l), n)
    BY <1>4 DEF Below
  <1>6. \A i \in DOMAIN Written(l) : Written(l)[i] # Torn => Longer(Written(l)[i])
    BY <1>4 DEF FileAscends
  <1>7. ASSUME NEW i \in DOMAIN Written(l), NEW j \in DOMAIN Written(l), i < j,
               Written(l)[i] # Torn, Written(l)[j] # Torn
        PROVE  Len(Written(l)[i].prev_hash) < Len(Written(l)[j].prev_hash)
    <2>1. i \in DOMAIN file /\ Written(l)[i] = file[i]
      <3>1. i # Len(file) + 1
        <4>1. j \in Nat /\ j <= Len(file) + 1
          BY <1>1, <1>4, <1>7
        <4> QED BY <1>1, <1>3, <1>7, <4>1
      <3> QED BY <1>4, <1>7, <3>1
    <2>2. CASE j \in DOMAIN file /\ Written(l)[j] = file[j]
      BY <1>7, <2>1, <2>2 DEF FileAscends
    <2>3. CASE Written(l)[j] = l
      BY <1>7, <2>1, <2>3 DEF Below
    <2> QED BY <1>4, <1>7, <2>2, <2>3
  <1> QED BY <1>5, <1>6, <1>7 DEF FileAscends

\* The line of a pending entry.
LEMMA PendingAscends ==
    ASSUME Shape, Ascends, NEW p \in Up, pc[p] = "persist",
           NEW l \in {Torn, Line(Last(mem[p]))}
    PROVE  /\ Len(HashAt(mem[p], Len(mem[p]))) \in Nat
           /\ FileAscends(Written(l)) /\ Below(Written(l), Len(HashAt(mem[p], Len(mem[p]))))
           /\ Below(file, Len(HashAt(mem[p], Len(mem[p]))))
  <1> DEFINE e == Last(mem[p])
             n == Len(HashAt(mem[p], Len(mem[p])))
  <1>1. p \in Procs /\ mem[p] \in Seq(Entry) /\ mem[p] # << >>
    BY DEF Up, Shape, TypeOK
  <1>2. e \in Entry /\ Line(e) \in Entry
    BY <1>1, PendingEntry
  <1>3. Line(e).prev_hash = e.prev_hash /\ Line(e).entry_hash = e.entry_hash
    BY <1>2 DEF Line, Entry
  <1>4. Len(mem[p]) # 0 /\ Len(mem[p]) \in 1 .. Len(mem[p])
    BY <1>1, EmptySeq, LenProperties
  <1>5. n = Len(e.entry_hash) /\ Longer(e)
    BY <1>4 DEF HashAt, Last, Ascends, MemAscends
  <1>6. Len(e.prev_hash) \in Nat /\ n = Len(e.prev_hash) + 1
    BY <1>2, <1>5, DigestLengths DEF Longer
  <1>7. Below(file, Len(e.prev_hash))
    BY DEF Ascends, MemAscends, Reach
  <1>8. Below(file, n)
    <2>1. \A i \in DOMAIN file : file[i] # Torn => Len(file[i].prev_hash) \in Nat
      <3>1. \A i \in DOMAIN file : file[i] \in Lines
        BY LenProperties, ElementOfSeq DEF Shape, TypeOK, Lines
      <3> QED BY <3>1, DigestLengths DEF Lines
    <2> HIDE DEF e, n
    <2> QED BY <1>6, <1>7, <2>1 DEF Below
  <1>9. l \in Lines /\ (l # Torn => Longer(l) /\ l.prev_hash = e.prev_hash)
    BY <1>2, <1>3, <1>5 DEF Lines, Longer
  <1>10. FileAscends(Written(l)) /\ Below(Written(l), n)
    <2> HIDE DEF e, n
    <2> QED BY <1>6, <1>7, <1>8, <1>9, WriteAscends DEF Ascends
  <1> QED BY <1>6, <1>8, <1>10

LEMMA ProcessAscends ==
    ASSUME Shape, Ascends, Single', NEW p \in Procs,
           Load(p) \/ persist(p) \/ persist_raises(p) \/ Crash(p) \/ \E d \in Data : append(p, d)
    PROVE  Ascends'
  <1>0. \A q \in Up : Up = {q}
    BY DEF Ascends, OneUp
  <1>1. CASE Load(p)
    <2>1. Up = {} /\ file' = file
      BY <1>1 DEF Load, Single, Never
    <2>2. CASE NoTorn
      <3>1. Up' = {p} /\ pc'[p] = "idle" /\ mem'[p] = file
        BY <1>1, <2>1, <2>2 DEF Load, Up, Shape, TypeOK
      <3>2. DOMAIN file = 1 .. Len(file) /\ Len(file) \in Nat
        BY LenProperties DEF Shape, TypeOK
      <3>3. \A i \in 1 .. Len(file) : Longer(file[i]) /\ file[i] \in Entry
        <4>1. \A i \in 1 .. Len(file) : file[i] \in Lines /\ file[i] # Torn
          BY <2>2, <3>2, ElementOfSeq DEF Shape, TypeOK, Lines, NoTorn
        <4> QED BY <3>2, <4>1 DEF Ascends, FileAscends, Lines
      <3>4. Below(file, Len(HashAt(file, Len(file))))
        <4> SUFFICES ASSUME NEW i \in 1 .. Len(file)
                     PROVE  Len(file[i].prev_hash) < Len(HashAt(file, Len(file)))
          BY <3>2 DEF Below
        <4>1. Len(file) \in 1 .. Len(file) /\ HashAt(file, Len(file)) = file[Len(file)].entry_hash
          BY <3>2 DEF HashAt
        <4>2. /\ Len(HashAt(file, Len(file))) = Len(file[Len(file)].prev_hash) + 1
              /\ Len(file[Len(file)].prev_hash) \in Nat /\ Len(file[i].prev_hash) \in Nat
          BY <3>3, <4>1, DigestLengths DEF Longer
        <4>3. i = Len(file) \/ Len(file[i].prev_hash) < Len(file[Len(file)].prev_hash)
          <5>0. Len(file) \in Nat /\ i \in Nat /\ i <= Len(file)
            BY <3>2
          <5>1. i = Len(file) \/ i < Len(file)
            BY <5>0
          <5>2. i \in DOMAIN file /\ Len(file) \in DOMAIN file
            BY <3>2, <4>1
          <5> QED BY <2>2, <5>1, <5>2 DEF Ascends, FileAscends, NoTorn
        <4> QED BY <4>2, <4>3
      <3> QED BY <2>1, <3>1, <3>3, <3>4 DEF Ascends, OneUp, MemAscends, Reach
    <2>3. CASE ~NoTorn
      <3>1. Up' = {}
        BY <1>1, <2>1, <2>3 DEF Load, Up, Shape, TypeOK
      <3> QED BY <2>1, <3>1 DEF Ascends, OneUp, MemAscends
    <2> QED BY <2>2, <2>3
  <1>2. ASSUME p \in Up, pc[p] = "persist", Up' = Up, mem' = mem, pc'[p] = "idle",
               NEW l \in {Torn, Line(Last(mem[p]))}, file' = file \/ file' = Written(l)
        PROVE  Ascends'
    <2>1. /\ FileAscends(Written(l)) /\ Below(Written(l), Len(HashAt(mem[p], Len(mem[p]))))
          /\ Below(file, Len(HashAt(mem[p], Len(mem[p]))))
      BY <1>2, PendingAscends
    <2>2. FileAscends(file') /\ Below(file', Len(HashAt(mem[p], Len(mem[p]))))
      BY <1>2, <2>1 DEF Ascends
    <2>3. Reach(p)' = Len(HashAt(mem[p], Len(mem[p])))
      BY <1>2 DEF Reach
    <2>4. Up' = {p}
      BY <1>0, <1>2
    <2> QED BY <1>2, <2>2, <2>3, <2>4 DEF Ascends, OneUp, MemAscends
  <1>3. CASE persist(p)
    <2>1. p \in Up /\ Up' = Up /\ pc'[p] = "idle"
      BY <1>3 DEF persist, Up, Shape, TypeOK
    <2> QED BY <1>2, <1>3, <2>1 DEF persist, WriteLine
  <1>4. CASE persist_raises(p)
    <2>1. p \in Up /\ Up' = Up /\ pc'[p] = "idle"
      BY <1>4 DEF persist_raises, Up, Shape, TypeOK
    <2> QED BY <1>2, <1>4, <2>1 DEF persist_raises
  <1>5. CASE Crash(p)
    <2>1. p \in Up /\ Up' = {}
      BY <1>0, <1>5 DEF Crash, Up, Shape, TypeOK
    <2>2. FileAscends(file')
      <3>1. ASSUME pc[p] = "persist", NEW l \in {Torn, Line(Last(mem[p]))}, file' = Written(l)
            PROVE  FileAscends(file')
        BY <2>1, <3>1, PendingAscends
      <3> QED BY <1>5, <3>1 DEF Crash, WriteLine, Ascends
    <2> QED BY <2>1, <2>2 DEF Ascends, OneUp, MemAscends
  <1>6. CASE \E d \in Data : append(p, d)
    <2>1. PICK d \in Data : append(p, d)
      BY <1>6
    <2> DEFINE n == Len(mem[p])
               e == NewEntry(next_id + 1, d, HashAt(mem[p], n))
    <2>2. /\ mem[p] \in Seq(Entry) /\ n \in Nat /\ e \in Entry /\ HashAt(mem[p], n) \in Seq(Data)
      BY NewEntryType, LenProperties DEF Shape, TypeOK, Digest
    <2>3. /\ Up' = Up /\ p \in Up /\ file' = file /\ mem'[p] = Append(mem[p], e)
          /\ pc[p] = "idle" /\ pc'[p] = "persist"
      BY <2>1 DEF append, Up, Shape, TypeOK
    <2>4. /\ Len(mem'[p]) = n + 1 /\ mem'[p][n + 1] = e
          /\ \A i \in 1 .. n : mem'[p][i] = mem[p][i]
      BY <2>2, <2>3, AppendProperties
    <2>5. Longer(e)
      BY <2>2, AppendProperties DEF NewEntry, Longer
    <2>6. \A i \in 1 .. Len(mem'[p]) : Longer(mem'[p][i])
      <3>1. \A i \in 1 .. n + 1 : i \in 1 .. n \/ i = n + 1
        BY <2>2
      <3>2. \A i \in 1 .. n : Longer(mem[p][i])
        BY <2>3 DEF Ascends, MemAscends
      <3> HIDE DEF n, e
      <3> QED BY <2>4, <2>5, <3>1, <3>2
    <2>7. Reach(p)' = Reach(p)
      <3>1. Last(mem'[p]) = e
        BY <2>4 DEF Last
      <3> QED BY <2>3, <3>1 DEF Reach, NewEntry
    <2>8. Up' = {p} /\ Below(file', Reach(p)')
      BY <1>0, <2>3, <2>7 DEF Ascends, MemAscends
    <2> QED BY <2>3, <2>6, <2>8 DEF Ascends, OneUp, MemAscends
  <1> QED BY <1>1, <1>3, <1>4, <1>5, <1>6

LEMMA PowerAscends ==
    ASSUME Shape, Ascends, PowerLoss
    PROVE  Ascends'
  <1>1. Up' = {}
    BY DEF PowerLoss, Up
  <1>2. PICK n \in 0 .. Len(file) :
          file' \in {SubSeq(file, 1, n), Append(SubSeq(file, 1, n), Torn)}
    BY DEF PowerLoss
  <1>3. Len(file) \in Nat /\ DOMAIN file = 1 .. Len(file) /\ Torn \in Lines
    BY LenProperties DEF Shape, TypeOK, Lines
  <1>4. /\ SubSeq(file, 1, n) \in Seq(Lines) /\ Len(SubSeq(file, 1, n)) = n
        /\ \A i \in 1 .. n : SubSeq(file, 1, n)[i] = file[i]
    BY PrefixOfFile
  <1>5. \A i \in DOMAIN file' : file'[i] # Torn => i \in 1 .. n /\ file'[i] = file[i]
    <2> DEFINE kept == SubSeq(file, 1, n)
    <2>1. /\ Append(kept, Torn) \in Seq(Lines) /\ Len(Append(kept, Torn)) = n + 1
          /\ \A i \in 1 .. n : Append(kept, Torn)[i] = kept[i]
          /\ Append(kept, Torn)[n + 1] = Torn
      BY <1>3, <1>4, AppendProperties
    <2>2. DOMAIN kept = 1 .. n /\ DOMAIN Append(kept, Torn) = 1 .. n + 1
      BY <1>4, <2>1, LenProperties
    <2>3. \A i \in 1 .. n + 1 : i \in 1 .. n \/ i = n + 1
      BY <1>3
    <2> HIDE DEF kept
    <2>4. \A i \in 1 .. n : kept[i] = file[i]
      BY <1>4 DEF kept
    <2>5. file' \in {kept, Append(kept, Torn)}
      BY <1>2 DEF kept
    <2> QED BY <2>1, <2>2, <2>3, <2>4, <2>5
  <1>6. \A i \in 1 .. n : i \in DOMAIN file
    BY <1>3
  <1>7. FileAscends(file')
    BY <1>5, <1>6 DEF Ascends, FileAscends
  <1> QED BY <1>1, <1>7 DEF Ascends, OneUp, MemAscends

LEMMA NextAscends == ASSUME AscendInv, [Next]_vars PROVE AscendInv'
  <1>1. Shape'
    BY NextShape DEF AscendInv
  <1> SUFFICES ASSUME Single' PROVE Ascends'
    BY <1>1 DEF AscendInv
  <1>2. happened \subseteq happened'
    BY DEF Next, Load, append, persist, persist_raises, Crash, WriteLine, PowerLoss, Damage, vars
  <1>3. Shape /\ Ascends
    BY <1>2 DEF AscendInv, Single, Never
  <1>4. CASE UNCHANGED vars
    BY <1>3, <1>4 DEF vars, Ascends, OneUp, MemAscends, Up, Reach
  <1>5. ASSUME NEW i \in DOMAIN file PROVE ~Damage(i)
    BY DEF Damage, Single, Never
  <1> QED BY <1>3, <1>4, <1>5, ProcessAscends, PowerAscends DEF Next

\* The log is well formed, and no two of its lines continue the same entry: one
\* process after another, failed, torn and lost writes leave gaps in the chain but
\* never two histories (audit/log.py:51-61).
THEOREM LogIsOneHistory == Spec => []LogInv
  <1>1. Init => AscendInv
    <2> SUFFICES ASSUME Init PROVE AscendInv
      OBVIOUS
    <2>1. Up = {} /\ DOMAIN file = {}
      BY DEF Init, Up
    <2> QED BY <2>1, InitShape DEF AscendInv, Ascends, OneUp, FileAscends, MemAscends
  <1>2. AscendInv /\ [Next]_vars => AscendInv'
    BY NextAscends
  <1>3. AscendInv => LogInv
    <2> SUFFICES ASSUME AscendInv, Single, NEW i \in DOMAIN file, NEW j \in DOMAIN file, i # j,
                        file[i] # Torn, file[j] # Torn
                 PROVE  file[i].prev_hash # file[j].prev_hash
      BY DEF LogInv, NoFork, Single, AscendInv, Shape
    <2>1. i \in Nat /\ j \in Nat /\ file[i] \in Entry /\ file[j] \in Entry
      BY LenProperties, ElementOfSeq DEF AscendInv, Shape, TypeOK
    <2>2. \/ Len(file[i].prev_hash) < Len(file[j].prev_hash)
          \/ Len(file[j].prev_hash) < Len(file[i].prev_hash)
      BY <2>1 DEF AscendInv, Ascends, FileAscends
    <2> QED BY <2>1, <2>2, DigestLengths
  <1> QED BY <1>1, <1>2, <1>3, PTL DEF Spec
-----------------------------------------------------------------------------
\* The log implements the Ledger until a fault spoils the file.
Smooth    == Never({"shared", "torn", "refused", "changed", "damage"})
SmoothInv == ChainInv /\ (Smooth => NoTorn /\ eol)

\* The contents of a file without torn lines.
LEMMA ContentsOfEntries ==
    ASSUME NEW s \in Seq(Entry)
    PROVE  /\ Contents(s) \in Seq(Data) /\ Len(Contents(s)) = Len(s)
           /\ \A i \in 1 .. Len(s) : Contents(s)[i] = s[i].data
  <1>1. /\ Len(s) \in Nat /\ DOMAIN s = 1 .. Len(s)
        /\ \A i \in 1 .. Len(s) : s[i] \in Entry
    BY LenProperties, ElementOfSeq
  <1>2. Contents(s) = [i \in 1 .. Len(s) |-> s[i].data]
    BY <1>1, TornAssumption DEF Contents
  <1>3. \A i \in 1 .. Len(s) : s[i].data \in Data
    BY <1>1 DEF Entry
  <1>4. Contents(s) \in [1 .. Len(s) -> Data]
    BY <1>2, <1>3
  <1>5. Contents(s) \in Seq(Data)
    BY <1>1, <1>4, SeqDef
  <1>6. DOMAIN Contents(s) = 1 .. Len(s)
    BY <1>4
  <1>7. Len(Contents(s)) = Len(s)
    BY <1>1, <1>5, <1>6, LenProperties
  <1> QED BY <1>2, <1>5, <1>7

LEMMA ContentsOfAppended ==
    ASSUME NEW s \in Seq(Entry), NEW e \in Entry
    PROVE  Contents(Append(s, e)) = Append(Contents(s), e.data)
  <1> DEFINE t == Append(s, e)
             c == Contents(s)
  <1>1. /\ t \in Seq(Entry) /\ Len(t) = Len(s) + 1 /\ t[Len(s) + 1] = e
        /\ \A i \in 1 .. Len(s) : t[i] = s[i]
        /\ Len(s) \in Nat /\ e.data \in Data
    BY AppendProperties, LenProperties DEF Entry
  <1>2. /\ c \in Seq(Data) /\ Len(c) = Len(s) /\ \A i \in 1 .. Len(s) : c[i] = s[i].data
    BY ContentsOfEntries
  <1>3. /\ Contents(t) \in Seq(Data) /\ Len(Contents(t)) = Len(s) + 1
        /\ \A i \in 1 .. Len(s) + 1 : Contents(t)[i] = t[i].data
    <2> HIDE DEF t
    <2> QED BY <1>1, ContentsOfEntries
  <1>4. /\ Append(c, e.data) \in Seq(Data) /\ Len(Append(c, e.data)) = Len(s) + 1
        /\ Append(c, e.data)[Len(s) + 1] = e.data
        /\ \A i \in 1 .. Len(s) : Append(c, e.data)[i] = c[i]
    <2> HIDE DEF c
    <2> QED BY <1>1, <1>2, AppendProperties
  <1>5. ASSUME NEW i \in 1 .. Len(s) + 1 PROVE Contents(t)[i] = Append(c, e.data)[i]
    <2> HIDE DEF t, c
    <2>1. i \in 1 .. Len(s) \/ i = Len(s) + 1
      BY <1>1
    <2> QED BY <1>1, <1>2, <1>3, <1>4, <2>1
  <1> HIDE DEF t, c
  <1>6. Contents(t) = Append(c, e.data)
    BY <1>3, <1>4, <1>5, SeqEqual
  <1> QED BY <1>6 DEF t, c

\* What is before the last entry.
LEMMA FrontOfAppended ==
    ASSUME NEW s \in Seq(Entry), NEW e \in Entry
    PROVE  Front(Append(s, e)) = s
  <1>1. Len(Append(s, e)) = Len(s) + 1 /\ Len(s) \in Nat
    BY AppendProperties, LenProperties
  <1>2. SubSeq(Append(s, e), 1, Len(s) + 1 - 1) = s
    BY <1>1, AppendProperties
  <1> QED BY <1>1, <1>2 DEF Front
\* While nothing has spoiled the file, all its lines are entries.
LEMMA SmoothFile ==
    ASSUME SmoothInv, Smooth
    PROVE  /\ Shape /\ Chained /\ NoTorn /\ eol /\ damaged = 0 /\ file \in Seq(Entry)
           /\ \A l : Written(l) = Append(file, l)
  <1>1. Shape /\ Chained /\ NoTorn /\ eol /\ damaged = 0
    BY DEF SmoothInv, Smooth, ChainInv, Calm, Never
  <1>2. file \in Seq(Lines) /\ DOMAIN file = 1 .. Len(file) /\ Len(file) \in Nat
        /\ file \in [1 .. Len(file) -> Lines]
    BY <1>1, LenProperties DEF Shape, TypeOK, Lines
  <1>3. file \in [1 .. Len(file) -> Entry]
    BY <1>1, <1>2 DEF NoTorn, Lines
  <1>4. file \in Seq(Entry)
    BY <1>2, <1>3, SeqDef
  <1> QED BY <1>1, <1>4 DEF Written

\* An entry about to be written: its line is itself, and the file is what is before it.
LEMMA SmoothPending ==
    ASSUME SmoothInv, Smooth, NEW p \in Up, pc[p] = "persist"
    PROVE  /\ Last(mem[p]) \in Entry /\ Last(mem[p]).data \in Data
           /\ mem[p] = Append(file, Last(mem[p])) /\ Front(mem[p]) = file
           /\ Contents(mem[p]) = Append(Contents(file), Last(mem[p]).data)
           /\ Change(Last(mem[p])) = {} => Line(Last(mem[p])) = Last(mem[p])
  <1>1. p \in Procs /\ Shape /\ Chained /\ NoTorn /\ damaged = 0 /\ file \in Seq(Entry)
    BY SmoothFile DEF Up
  <1>2. Last(mem[p]) \in Entry /\ mem[p] = Append(file, Last(mem[p]))
    BY <1>1, PendingEntry DEF Chained, MemLeads
  <1>3. Front(mem[p]) = file
    BY <1>1, <1>2, FrontOfAppended
  <1>4. Contents(mem[p]) = Append(Contents(file), Last(mem[p]).data)
    BY <1>1, <1>2, ContentsOfAppended
  <1>5. Change(Last(mem[p])) = {} => Line(Last(mem[p])) = Last(mem[p])
    BY <1>2 DEF Change, Line, Entry
  <1> QED BY <1>2, <1>3, <1>4, <1>5 DEF Entry

\* What is lost with power is a suffix of the file.
LEMMA PrefixContents ==
    ASSUME NEW s \in Seq(Entry), NEW n \in 0 .. Len(s)
    PROVE  /\ SubSeq(s, 1, n) \in Seq(Entry)
           /\ Contents(SubSeq(s, 1, n)) = SubSeq(Contents(s), 1, n)
           /\ IsPrefix(SubSeq(Contents(s), 1, n), Contents(s))
  <1> DEFINE t == SubSeq(s, 1, n)
             c == Contents(s)
             d == SubSeq(c, 1, n)
  <1>1. n \in Nat /\ n <= Len(s) /\ Len(s) \in Nat
    BY LenProperties
  <1>2. c \in Seq(Data) /\ Len(c) = Len(s) /\ \A i \in 1 .. Len(s) : c[i] = s[i].data
    BY ContentsOfEntries
  <1>3. \A i \in 1 .. n : s[i] \in Entry /\ i \in 1 .. Len(s)
    BY <1>1, ElementOfSeq
  <1>4. t \in Seq(Entry) /\ Len(t) = n /\ \A i \in 1 .. n : t[i] = s[i]
    BY <1>1, <1>3, SubSeqProperties
  <1>5. Contents(t) \in Seq(Data) /\ Len(Contents(t)) = n
        /\ \A i \in 1 .. n : Contents(t)[i] = t[i].data
    <2> HIDE DEF t
    <2> QED BY <1>4, ContentsOfEntries
  <1>6. \A i \in 1 .. n : c[i] \in Data
    <2> HIDE DEF c
    <2> QED BY <1>2, <1>3, ElementOfSeq
  <1>7. d \in Seq(Data) /\ Len(d) = n /\ \A i \in 1 .. n : d[i] = c[i]
    <2> HIDE DEF c
    <2> QED BY <1>1, <1>6, SubSeqProperties
  <1>8. Contents(t) = d
    <2> HIDE DEF t, c, d
    <2>1. \A i \in 1 .. n : Contents(t)[i] = d[i]
      BY <1>2, <1>3, <1>4, <1>5, <1>7
    <2> QED BY <1>5, <1>7, <2>1, SeqEqual
  <1>9. IsPrefix(d, c)
    <2>1. SubSeq(d, 1, Len(d)) = d
      <3> HIDE DEF d
      <3> QED BY <1>7, SubSeqFull
    <2>2. Len(d) <= Len(c) /\ SubSeq(c, 1, Len(d)) = d
      BY <1>1, <1>2, <1>7
    <2> HIDE DEF c, d
    <2> QED BY <2>1, <2>2 DEF IsPrefix
  <1> QED BY <1>4, <1>8, <1>9

LEMMA NextSmooth == ASSUME SmoothInv, [Next]_vars PROVE SmoothInv'
  <1>1. ChainInv'
    BY NextChain DEF SmoothInv
  <1> SUFFICES ASSUME Smooth' PROVE NoTorn' /\ eol'
    BY <1>1 DEF SmoothInv
  <1>2. happened \subseteq happened'
    BY DEF Next, Load, append, persist, persist_raises, Crash, WriteLine, PowerLoss, Damage, vars
  <1>3. Smooth
    BY <1>2 DEF Smooth, Never
  <1>4. NoTorn /\ eol /\ file \in Seq(Entry) /\ \A l : Written(l) = Append(file, l)
    BY <1>3, SmoothFile
  <1>5. CASE UNCHANGED <<file, eol>>
    BY <1>4, <1>5 DEF NoTorn
  <1>6. ASSUME file' \in Seq(Entry), eol' PROVE NoTorn' /\ eol'
    <2>1. DOMAIN file' = 1 .. Len(file') /\ \A i \in 1 .. Len(file') : file'[i] \in Entry
      BY <1>6, LenProperties, ElementOfSeq
    <2> QED BY <1>6, <2>1, TornAssumption DEF NoTorn
  <1>7. ASSUME NEW p \in Up, pc[p] = "persist", eol' = TRUE, WriteLine(Last(mem[p]))
        PROVE  NoTorn' /\ eol'
    <2>1. Last(mem[p]) \in Entry
      BY <1>3, <1>7, SmoothPending
    <2>2. Line(Last(mem[p])) \in Entry
      BY <2>1, DataAssumption DEF Line, Entry
    <2>3. file' \in Seq(Entry)
      BY <1>4, <1>7, <2>2, AppendProperties DEF WriteLine
    <2> QED BY <1>6, <1>7, <2>3
  <1>8. ASSUME NEW p \in Procs,
               Load(p) \/ persist(p) \/ persist_raises(p) \/ Crash(p) \/ \E d \in Data : append(p, d)
        PROVE  NoTorn' /\ eol'
    BY <1>5, <1>7, <1>8 DEF Load, persist, persist_raises, Crash, append, Smooth, Never, Up
  <1>9. ASSUME PowerLoss PROVE NoTorn' /\ eol'
    <2>1. PICK n \in 0 .. Len(file) : file' = SubSeq(file, 1, n) /\ eol' = (n = Len(file) => eol)
      BY <1>9 DEF PowerLoss, Smooth, Never
    <2>2. SubSeq(file, 1, n) \in Seq(Entry)
      BY <1>4, PrefixContents
    <2> QED BY <1>4, <1>6, <2>1, <2>2
  <1>10. ASSUME NEW i \in DOMAIN file PROVE ~Damage(i)
    BY DEF Damage, Smooth, Never
  <1> QED BY <1>5, <1>8, <1>9, <1>10 DEF Next, vars

\* A running process that is at the end of the file sees all of it.
LEMMA ViewIsFile ==
    ASSUME SmoothInv, Smooth, NEW p \in Up
    PROVE  View(p) = Contents(file) /\ Contents(file) \in Seq(Data)
  <1>1. p \in Procs /\ Chained /\ NoTorn /\ damaged = 0 /\ file \in Seq(Entry)
    BY SmoothFile DEF Up
  <1>2. CASE pc[p] = "idle"
    <2>1. mem[p] = file
      BY <1>1, <1>2 DEF Chained, MemLeads
    <2> QED BY <1>1, <1>2, <2>1, ContentsOfEntries DEF View
  <1>3. CASE pc[p] = "persist"
    BY <1>1, <1>3, SmoothPending, ContentsOfEntries DEF View
  <1> QED BY <1>2, <1>3 DEF Up
AllViews == [q \in Procs |-> View(q)]

\* A step of one process moves the view of that process only.
LEMMA ViewMoves ==
    ASSUME NEW p \in Procs,
           \A q \in Procs \ {p} : pc'[q] = pc[q] /\ mem'[q] = mem[q]
    PROVE  AllViews' = [AllViews EXCEPT ![p] = View(p)']
  <1>1. \A q \in Procs \ {p} : View(q)' = View(q)
    BY DEF View, Up, Contents
  <1> QED BY <1>1 DEF AllViews

\* A step while nothing spoils the file is one the Ledger promises, or none.
LEMMA ProcessRefines ==
    ASSUME SmoothInv, SmoothInv', Smooth', Smooth, NEW p \in Procs,
           Load(p) \/ persist(p) \/ persist_raises(p) \/ Crash(p) \/ \E d \in Data : append(p, d)
    PROVE  LedgerOfFile!Promise \/ UNCHANGED <<Contents(file), AllViews>>
  <1> DEFINE records == Contents(file)
  <1>0. /\ Shape /\ Chained /\ NoTorn /\ eol /\ file \in Seq(Entry)
        /\ \A l : Written(l) = Append(file, l)
    BY SmoothFile
  <1>1. \A q \in Procs \ {p} : pc'[q] = pc[q] /\ mem'[q] = mem[q]
    BY <1>0 DEF Load, persist, persist_raises, Crash, append, Shape, TypeOK
  <1>2. AllViews' = [AllViews EXCEPT ![p] = View(p)'] /\ AllViews[p] = View(p)
    BY <1>1, ViewMoves DEF AllViews
  <1>3. p \in Up => View(p) = records /\ View(p) # Closed
    BY ViewIsFile, ClosedAssumption
  <1>4. p \notin Up => View(p) = Closed
    BY DEF View
  <1>5. (p \in Up)' => View(p)' = records'
    <2>1. (p \in Up)' => (View(p) = Contents(file))'
      BY ViewIsFile, PTL
    <2> QED BY <2>1
  <1>6. (p \notin Up)' => View(p)' = Closed
    BY DEF View
  <1>7. CASE Load(p)
    <2>1. p \notin Up /\ (p \in Up)' /\ file' = file
      BY <1>0, <1>7 DEF Load, Up, Shape, TypeOK
    <2>2. LedgerOfFile!Open(p)
      BY <1>2, <1>4, <1>5, <2>1 DEF LedgerOfFile!Open, AllViews
    <2> QED BY <2>2 DEF LedgerOfFile!Promise
  <1>8. ASSUME p \in Up, (p \in Up)', file' = file PROVE UNCHANGED <<Contents(file), AllViews>>
    <2>1. View(p)' = View(p) /\ records' = records
      BY <1>3, <1>5, <1>8
    <2> QED BY <1>2, <2>1 DEF AllViews
  <1>9. CASE \E d \in Data : append(p, d)
    <2>1. p \in Up /\ (p \in Up)' /\ file' = file
      BY <1>0, <1>9 DEF append, Up, Shape, TypeOK
    <2> QED BY <1>8, <2>1
  <1>10. ASSUME p \in Up, pc[p] = "persist", WriteLine(Last(mem[p]))
         PROVE  /\ Last(mem[p]).data \in Data
                /\ records' = Append(records, Last(mem[p]).data)
    <2>1. Change(Last(mem[p])) = {}
      BY <1>10 DEF WriteLine, Change, Smooth, Never
    <2>2. file' = mem[p]
      BY <1>0, <1>10, <2>1, SmoothPending DEF WriteLine
    <2> QED BY <1>10, <2>2, SmoothPending
  <1>11. CASE persist(p)
    <2>1. p \in Up /\ (p \in Up)'
      BY <1>0, <1>11 DEF persist, Up, Shape, TypeOK
    <2>2. PICK d \in Data : records' = Append(records, d)
      BY <1>10, <1>11, <2>1 DEF persist
    <2>3. LedgerOfFile!Record(p, d)
      BY <1>2, <1>3, <1>5, <2>1, <2>2 DEF LedgerOfFile!Record, AllViews
    <2> QED BY <2>3 DEF LedgerOfFile!Promise
  <1>12. ~persist_raises(p)
    BY DEF persist_raises, Smooth, Never
  <1>13. CASE Crash(p)
    <2>1. p \in Up /\ (p \notin Up)'
      BY <1>0, <1>13 DEF Crash, Up, Shape, TypeOK
    <2>2. CASE UNCHANGED file
      <3>1. LedgerOfFile!Close(p)
        BY <1>2, <1>3, <1>6, <2>1, <2>2 DEF LedgerOfFile!Close, AllViews
      <3> QED BY <3>1 DEF LedgerOfFile!Promise
    <2>3. CASE pc[p] = "persist" /\ WriteLine(Last(mem[p]))
      <3>1. PICK d \in Data : records' = Append(records, d)
        BY <1>10, <2>1, <2>3
      <3>2. LedgerOfFile!LastRecord(p, d)
        BY <1>2, <1>3, <1>6, <2>1, <3>1 DEF LedgerOfFile!LastRecord, AllViews
      <3> QED BY <3>2 DEF LedgerOfFile!Promise
    <2> QED BY <1>13, <2>2, <2>3 DEF Crash, Smooth, Never
  <1> QED BY <1>7, <1>9, <1>11, <1>12, <1>13

LEMMA PowerRefines ==
    ASSUME SmoothInv, Smooth', Smooth, PowerLoss
    PROVE  LedgerOfFile!Promise
  <1>1. file \in Seq(Entry)
    BY SmoothFile
  <1>2. PICK n \in 0 .. Len(file) : file' = SubSeq(file, 1, n)
    BY DEF PowerLoss, Smooth, Never
  <1>3. Contents(file)' = SubSeq(Contents(file), 1, n) /\ IsPrefix(Contents(file)', Contents(file))
    <2>1. Contents(file)' = Contents(SubSeq(file, 1, n))
      BY <1>2 DEF Contents
    <2> QED BY <1>1, <2>1, PrefixContents
  <1>4. AllViews' = [r \in Procs |-> Closed]
    BY DEF PowerLoss, AllViews, View, Up
  <1>5. LedgerOfFile!IsPrefix(Contents(file)', Contents(file))
    BY <1>3 DEF IsPrefix, LedgerOfFile!IsPrefix
  <1> QED BY <1>4, <1>5 DEF LedgerOfFile!Promise, LedgerOfFile!PowerLoss, AllViews

\* The log implements the Ledger: its file is one sequence of records that every
\* running process sees whole, extended one record at a time, until a fault other
\* than a crash or a loss of power (audit/log.py:40-61, 101-125).
THEOREM ImplementsLedger == Spec => LedgerSpec
  <1>1. Init => LedgerOfFile!Init
    <2> SUFFICES ASSUME Init PROVE LedgerOfFile!Init
      OBVIOUS
    <2>1. Up = {} /\ DOMAIN file = {} /\ happened = {}
      BY DEF Init, Up
    <2>2. Contents(file) = << >>
      <3>1. file \in Seq(Entry) /\ Len(file) = 0
        BY EmptySeq DEF Init
      <3> QED BY <3>1, ContentsOfEntries, EmptySeq
    <2> QED BY <2>1, <2>2 DEF LedgerOfFile!Init, View, Never
  <1>2. Init => SmoothInv
    BY InitChain DEF SmoothInv, Init, NoTorn
  <1>3. SmoothInv /\ [Next]_vars => SmoothInv'
    BY NextSmooth
  <1>4. ASSUME SmoothInv, SmoothInv', [Next]_vars
        PROVE  [LedgerOfFile!Next]_(LedgerOfFile!vars)
    <2>1. CASE ~Smooth'
      BY <2>1 DEF LedgerOfFile!Next, Smooth, Never
    <2>2. CASE Smooth'
      <3>1. happened \subseteq happened'
        BY <1>4 DEF Next, Load, append, persist, persist_raises, Crash, WriteLine, PowerLoss,
                    Damage, vars
      <3>2. Smooth
        BY <2>2, <3>1 DEF Smooth, Never
      <3>3. LedgerOfFile!Promise \/ UNCHANGED <<Contents(file), AllViews>>
        <4>1. CASE UNCHANGED vars
          BY <4>1 DEF vars, Contents, AllViews, View, Up
        <4>2. ASSUME NEW i \in DOMAIN file PROVE ~Damage(i)
          BY <2>2 DEF Damage, Smooth, Never
        <4> QED BY <1>4, <2>2, <3>2, <4>1, <4>2, ProcessRefines, PowerRefines DEF Next
      <3> QED BY <2>2, <3>2, <3>3 DEF LedgerOfFile!Next, LedgerOfFile!vars, Smooth, Never, AllViews
    <2> QED BY <2>1, <2>2
  <1> QED BY <1>1, <1>2, <1>3, <1>4, PTL DEF Spec, LedgerSpec, LedgerOfFile!Spec
=============================================================================
