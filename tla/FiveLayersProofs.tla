--------------------------- MODULE FiveLayersProofs ---------------------------
(***************************************************************************)
(* For every set of calls, rules, servers and operators and every          *)
(* threshold: the types and counts of the layers agree, the first matching *)
(* rule by priority decides, indices name what operators saw there, and the*)
(* file of the monitor's log verifies.                                     *)
(***************************************************************************)
EXTENDS FiveLayers, FiniteSetTheorems, SequenceTheorems, WellFoundedInduction, TLAPS

\* Every set of positions has a first one.
LEMMA FirstExists ==
    ASSUME NEW S \in SUBSET Nat, S # {}
    PROVE  First(S) \in S /\ \A i \in S : First(S) <= i
  <1> DEFINE Upto == {1 .. n : n \in S}
  <1>1. Upto \subseteq FiniteSubsetsOf(Nat) /\ Upto # {}
    <2>1. \A n \in S : IsFiniteSet(1 .. n) /\ 1 .. n \subseteq Nat
      BY FS_Interval
    <2> QED BY <2>1 DEF FiniteSubsetsOf
  <1>2. \E x \in Upto : \A y \in Upto : ~(<<y, x>> \in StrictSubsetOrdering(Nat))
    <2> HIDE DEF Upto
    <2> QED BY <1>1, FS_StrictSubsetOrderingWellFounded, WFMin
  <1>3. PICK m \in S : \A n \in S : ~(<<1 .. n, 1 .. m>> \in StrictSubsetOrdering(Nat))
    BY <1>2
  <1>4. ASSUME NEW n \in S, n < m PROVE FALSE
    <2>1. m \in 1 .. m /\ m \notin 1 .. n
      BY <1>4
    <2>2. 1 .. n \in SUBSET Nat /\ 1 .. m \in SUBSET Nat /\ 1 .. n \subseteq 1 .. m
      BY <1>4
    <2> QED BY <2>1, <2>2, <1>3 DEF StrictSubsetOrdering
  <1>5. \E i \in S : \A j \in S : i <= j
    BY <1>4
  <1> QED BY <1>5 DEF First

\* A set of positions that has, with one, all before it is the first ones.
LEMMA FirstOnes ==
    ASSUME NEW n \in Nat, NEW S \in SUBSET (1 .. n),
           \A i \in S : \A j \in 1 .. i : j \in S
    PROVE  Cardinality(S) \in 0 .. n /\ \A i \in 1 .. n : i \in S <=> i <= Cardinality(S)
  <1>1. IsFiniteSet(1 .. n) /\ Cardinality(1 .. n) = n
    BY FS_Interval
  <1>2. IsFiniteSet(S) /\ Cardinality(S) \in 0 .. n
    <2>1. IsFiniteSet(S) /\ Cardinality(S) <= Cardinality(1 .. n)
      BY <1>1, FS_Subset
    <2>2. Cardinality(S) \in Nat
      BY <2>1, FS_CardinalityType
    <2> QED BY <1>1, <2>1, <2>2
  <1>3. ASSUME NEW i \in 1 .. n, i \in S PROVE i <= Cardinality(S)
    <2>1. (1 .. i) \in SUBSET S
      BY <1>3
    <2>2. Cardinality(1 .. i) = i
      BY FS_Interval
    <2> QED BY <1>2, <2>1, <2>2, FS_Subset
  <1>4. ASSUME NEW i \in 1 .. n, i \notin S PROVE ~(i <= Cardinality(S))
    <2>1. S \in SUBSET (1 .. i - 1)
      <3>1. ASSUME NEW j \in S, j >= i PROVE FALSE
        <4>1. i \in 1 .. j
          BY <3>1
        <4> QED BY <1>4, <4>1
      <3> QED BY <3>1
    <2>2. IsFiniteSet(1 .. i - 1) /\ Cardinality(1 .. i - 1) = i - 1
      BY FS_Interval
    <2>3. Cardinality(S) <= i - 1
      BY <2>1, <2>2, FS_Subset
    <2> QED BY <1>2, <2>3
  <1> QED BY <1>2, <1>3, <1>4
-----------------------------------------------------------------------------
(* The kinds of values. *)

Kinds ==
    /\ known_servers \subseteq Servers
    /\ rules \in Seq(RulePool) /\ added \in Seq(RulePool) /\ Range(rules) = Range(added)
    /\ verdicts \in [0 .. 5 -> Nat] /\ decisions \in [Actions -> Nat]
    /\ counts \in [blocked : Nat, allowed : Nat]
    /\ quarantined \in Seq(Holding) /\ released \in Nat /\ raised \in Nat
    /\ mem \in Seq(Entry) /\ file \in Seq(Entry)
    /\ egress_rules \in Seq(EgressPool) /\ egress_decisions \in [BOOLEAN -> Nat]
    /\ outputs \in [Actions -> Nat]
    /\ seen \in [Operators -> Seq(Holding)]

\* A new element at a position of a sequence.
LEMMA Inserted ==
    ASSUME NEW S, NEW s \in Seq(S), NEW k \in 1 .. Len(s) + 1, NEW e \in S
    PROVE  /\ InsertAt(s, k, e) \in Seq(S) /\ Len(InsertAt(s, k, e)) = Len(s) + 1
           /\ \A i \in 1 .. Len(s) + 1 :
                InsertAt(s, k, e)[i] = IF i < k THEN s[i] ELSE IF i = k THEN e ELSE s[i - 1]
  <1> DEFINE a == SubSeq(s, 1, k - 1)
             b == SubSeq(s, k, Len(s))
             n == Len(s)
  <1>1. n \in Nat /\ k \in Nat /\ 1 <= k /\ k <= n + 1 /\ \A i \in 1 .. n : s[i] \in S
    BY LenProperties, ElementOfSeq
  <1>2. a \in Seq(S) /\ Len(a) = k - 1 /\ \A i \in 1 .. k - 1 : a[i] = s[i]
    <2>1. \A i \in 1 .. k - 1 : s[i] \in S
      BY <1>1
    <2>2. /\ a \in Seq(S) /\ Len(a) = IF 1 <= k - 1 THEN k - 1 - 1 + 1 ELSE 0
          /\ \A i \in 1 .. k - 1 - 1 + 1 : a[i] = s[1 + i - 1]
      BY <1>1, <2>1, SubSeqProperties
    <2> HIDE DEF a
    <2>3. \A i \in 1 .. k - 1 : i \in 1 .. k - 1 - 1 + 1 /\ 1 + i - 1 = i
      BY <1>1
    <2> QED BY <1>1, <2>2, <2>3
  <1>3. b \in Seq(S) /\ Len(b) = n - k + 1 /\ \A i \in 1 .. n - k + 1 : b[i] = s[k + i - 1]
    <2>1. \A i \in k .. n : s[i] \in S
      BY <1>1
    <2>2. /\ b \in Seq(S) /\ Len(b) = IF k <= n THEN n - k + 1 ELSE 0
          /\ \A i \in 1 .. n - k + 1 : b[i] = s[k + i - 1]
      BY <1>1, <2>1, SubSeqProperties
    <2> HIDE DEF b
    <2> QED BY <1>1, <2>2
  <1>4. <<e>> \in Seq(S) /\ Len(<<e>>) = 1 /\ <<e>>[1] = e
    OBVIOUS
  <1> DEFINE c == a \o <<e>>
  <1>5. c \in Seq(S) /\ Len(c) = k /\ \A i \in 1 .. k : c[i] = IF i < k THEN s[i] ELSE e
    <2> HIDE DEF a
    <2>1. /\ c \in Seq(S) /\ Len(c) = Len(a) + 1
          /\ \A i \in 1 .. Len(a) + 1 : c[i] = IF i <= Len(a) THEN a[i] ELSE <<e>>[i - Len(a)]
      BY <1>2, <1>4, ConcatProperties
    <2>2. Len(a) + 1 = k
      BY <1>1, <1>2
    <2> HIDE DEF c
    <2>3. ASSUME NEW i \in 1 .. k PROVE c[i] = IF i < k THEN s[i] ELSE e
      <3>1. CASE i < k
        <4>1. i \in 1 .. Len(a) + 1 /\ i <= Len(a) /\ i \in 1 .. k - 1
          BY <1>1, <1>2, <3>1
        <4> QED BY <1>2, <2>1, <3>1, <4>1
      <3>2. CASE i = k
        <4>1. i \in 1 .. Len(a) + 1 /\ ~(i <= Len(a)) /\ i - Len(a) = 1
          BY <1>1, <1>2, <3>2
        <4> QED BY <1>4, <2>1, <3>2, <4>1
      <3> QED BY <1>1, <3>1, <3>2
    <2> QED BY <2>1, <2>2, <2>3
  <1>6. /\ c \o b \in Seq(S) /\ Len(c \o b) = k + (n - k + 1)
        /\ \A i \in 1 .. k + (n - k + 1) : (c \o b)[i] = IF i <= k THEN c[i] ELSE b[i - k]
    <2> HIDE DEF b, c
    <2> QED BY <1>3, <1>5, ConcatProperties
  <1>7. InsertAt(s, k, e) = c \o b
    BY DEF InsertAt
  <1>8. ASSUME NEW i \in 1 .. n + 1
        PROVE  (c \o b)[i] = IF i < k THEN s[i] ELSE IF i = k THEN e ELSE s[i - 1]
    <2> HIDE DEF b, c, n
    <2>1. i \in 1 .. k + (n - k + 1)
      BY <1>1
    <2>2. CASE i <= k
      <3>1. i \in 1 .. k /\ (c \o b)[i] = c[i]
        BY <1>1, <1>6, <2>1, <2>2
      <3> QED BY <1>1, <1>5, <2>2, <3>1
    <2>3. CASE ~(i <= k)
      <3>1. i - k \in 1 .. n - k + 1 /\ k + (i - k) - 1 = i - 1
        BY <1>1, <2>3
      <3> QED BY <1>1, <1>3, <1>6, <2>1, <2>3, <3>1
    <2> QED BY <2>2, <2>3
  <1>9. k + (n - k + 1) = n + 1
    BY <1>1
  <1> HIDE DEF b, c
  <1> QED BY <1>6, <1>7, <1>8, <1>9

\* What remains of a sequence without one element.
LEMMA Removed ==
    ASSUME NEW S, NEW s \in Seq(S), NEW k \in 1 .. Len(s)
    PROVE  /\ RemoveAt(s, k) \in Seq(S) /\ Len(RemoveAt(s, k)) = Len(s) - 1
           /\ \A i \in 1 .. Len(s) - 1 : RemoveAt(s, k)[i] = IF i < k THEN s[i] ELSE s[i + 1]
  <1> DEFINE a == SubSeq(s, 1, k - 1)
             b == SubSeq(s, k + 1, Len(s))
             n == Len(s)
  <1>1. n \in Nat /\ k \in Nat /\ 1 <= k /\ k <= n /\ \A i \in 1 .. n : s[i] \in S
    BY LenProperties, ElementOfSeq
  <1>2. a \in Seq(S) /\ Len(a) = k - 1 /\ \A i \in 1 .. k - 1 : a[i] = s[i]
    <2>1. \A i \in 1 .. k - 1 : s[i] \in S
      BY <1>1
    <2>2. /\ a \in Seq(S) /\ Len(a) = IF 1 <= k - 1 THEN k - 1 - 1 + 1 ELSE 0
          /\ \A i \in 1 .. k - 1 - 1 + 1 : a[i] = s[1 + i - 1]
      BY <1>1, <2>1, SubSeqProperties
    <2>3. \A i \in 1 .. k - 1 : a[i] = s[i]
      <3> HIDE DEF a
      <3> SUFFICES ASSUME NEW i \in 1 .. k - 1 PROVE a[i] = s[i]
        OBVIOUS
      <3>1. i \in 1 .. k - 1 - 1 + 1 /\ 1 + i - 1 = i
        BY <1>1
      <3> QED BY <2>2, <3>1
    <2> QED BY <1>1, <2>2, <2>3
  <1>3. b \in Seq(S) /\ Len(b) = n - k /\ \A i \in 1 .. n - k : b[i] = s[k + i]
    <2>1. \A i \in k + 1 .. n : s[i] \in S
      BY <1>1
    <2>2. /\ b \in Seq(S) /\ Len(b) = IF k + 1 <= n THEN n - (k + 1) + 1 ELSE 0
          /\ \A i \in 1 .. n - (k + 1) + 1 : b[i] = s[k + 1 + i - 1]
      BY <1>1, <2>1, SubSeqProperties
    <2>3. \A i \in 1 .. n - k : b[i] = s[k + i]
      <3> HIDE DEF b, n
      <3> SUFFICES ASSUME NEW i \in 1 .. n - k PROVE b[i] = s[k + i]
        OBVIOUS
      <3>1. i \in 1 .. n - (k + 1) + 1 /\ k + 1 + i - 1 = k + i
        BY <1>1
      <3> QED BY <2>2, <3>1
    <2> QED BY <1>1, <2>2, <2>3
  <1>4. /\ a \o b \in Seq(S) /\ Len(a \o b) = Len(a) + Len(b)
        /\ \A i \in 1 .. Len(a) + Len(b) :
              (a \o b)[i] = IF i <= Len(a) THEN a[i] ELSE b[i - Len(a)]
    <2> HIDE DEF a, b
    <2> QED BY <1>2, <1>3, ConcatProperties
  <1>5. RemoveAt(s, k) = a \o b
    BY DEF RemoveAt
  <1>6. Len(a) + Len(b) = n - 1
    <2> HIDE DEF a, b, n
    <2> QED BY <1>1, <1>2, <1>3
  <1> HIDE DEF a, b, n
  <1>7. n = Len(s)
    BY DEF n
  <1>8. ASSUME NEW i \in 1 .. n - 1
        PROVE  (a \o b)[i] = IF i < k THEN s[i] ELSE s[i + 1]
    <2>1. CASE i < k
      <3>1. i <= Len(a) /\ i \in 1 .. k - 1 /\ i \in 1 .. Len(a) + Len(b)
        BY <1>1, <1>2, <1>6, <2>1
      <3> QED BY <1>2, <1>4, <2>1, <3>1
    <2>2. CASE ~(i < k)
      <3>1. /\ ~(i <= Len(a)) /\ i \in 1 .. Len(a) + Len(b)
            /\ i - Len(a) \in 1 .. n - k /\ k + (i - Len(a)) = i + 1
        BY <1>1, <1>2, <1>6, <2>2
      <3> QED BY <1>3, <1>4, <2>2, <3>1
    <2> QED BY <2>1, <2>2
  <1> QED BY <1>4, <1>5, <1>6, <1>7, <1>8
-----------------------------------------------------------------------------
(* The steps keep the kinds. *)

\* What the monitor chains is an entry, and stays one when it is amended.
LEMMA InspectedIsEntry ==
    ASSUME Kinds, NEW score \in 0 .. 100
    PROVE  /\ Inspected(score) \in Entry /\ Amended(Inspected(score)) \in Entry
           /\ Inspected(score).prev_hash = HashAt(mem, Len(mem))
           /\ Inspected(score).entry_hash = compute_hash(Inspected(score))
           /\ Amended(Inspected(score)).entry_hash = Inspected(score).entry_hash
  <1>1. mem \in Seq(Entry) /\ Len(mem) \in Nat
    BY LenProperties DEF Kinds
  <1> DEFINE h == HashAt(mem, Len(mem))
             d == [score |-> score, amended |-> FALSE]
  <1>2. h \in Digest
    <2>1. CASE Len(mem) = 0
      BY <2>1, EmptySeq DEF HashAt, Genesis, Digest
    <2>2. CASE Len(mem) # 0
      <3>1. mem[Len(mem)] \in Entry
        BY <1>1, <2>2, ElementOfSeq
      <3> QED BY <2>2, <3>1 DEF HashAt, Entry
    <2> QED BY <2>1, <2>2
  <1>3. d \in Data /\ [d EXCEPT !.amended = TRUE] \in Data
    BY DataAssumption
  <1>4. Inspected(score) = [entry_id |-> Len(mem) + 1, data |-> d, prev_hash |-> h,
                            entry_hash |-> Append(h, d)]
    BY DEF Inspected, NewEntry
  <1> HIDE DEF h, d
  <1>5. Append(h, d) \in Digest
    BY <1>2, <1>3, AppendProperties DEF Digest
  <1>6. Inspected(score) \in Entry
    BY <1>1, <1>2, <1>3, <1>4, <1>5 DEF Entry
  <1>7. Inspected(score).prev_hash = h /\ Inspected(score).entry_hash = Append(h, d)
        /\ Inspected(score).data = d
    BY <1>4
  <1>8. /\ Amended(Inspected(score)) \in Entry
        /\ Amended(Inspected(score)).entry_hash = Inspected(score).entry_hash
    <2> DEFINE e == Inspected(score)
    <2>1. e \in Entry /\ [e.data EXCEPT !.amended = TRUE] \in Data
      BY <1>3, <1>6, <1>7
    <2>2. PICK y \in Data : Amended(e) = [e EXCEPT !.data = y]
      BY <2>1 DEF Amended
    <2> HIDE DEF e
    <2>3. ASSUME NEW x \in Data
          PROVE  [e EXCEPT !.data = x] \in Entry /\ [e EXCEPT !.data = x].entry_hash = e.entry_hash
      BY <2>1 DEF Entry
    <2>4. Amended(e) \in Entry /\ Amended(e).entry_hash = e.entry_hash
      BY <2>1, <2>2, <2>3
    <2> QED BY <2>4 DEF e
  <1>9. Inspected(score).prev_hash = HashAt(mem, Len(mem))
    BY <1>7 DEF h
  <1>10. Inspected(score).entry_hash = compute_hash(Inspected(score))
    BY <1>7 DEF compute_hash
  <1> QED BY <1>6, <1>8, <1>9, <1>10

\* Rules and calls have the fields the layers read.
LEMMA Fields ==
    /\ \A r \in RulePool : r.action \in Actions /\ r.priority \in Nat /\ r # NoRule
    /\ \A c \in Calls : c.score \in 0 .. 100
    /\ \A o \in Outputs : o.output_score \in 0 .. 100
  BY CallsAssumption, RulesAssumption, NoneAssumption DEF Call, Output, Rule

LEMMA ThresholdedKind ==
    ASSUME NEW score \in 0 .. 100
    PROVE  Thresholded(score) \in {"allow", "block", "quarantine"}
  BY DEF Thresholded

\* The proxy decides by the first rule that matches.
LEMMA DecisionIsFirst ==
    ASSUME Kinds, NEW c \in Calls
    PROVE  /\ Decision(c).action \in Actions
           /\ Hits(c) = {} => Decision(c).rule = NoRule
           /\ Hits(c) # {} => /\ First(Hits(c)) \in 1 .. Len(rules) /\ First(Hits(c)) \in Hits(c)
                              /\ \A i \in Hits(c) : First(Hits(c)) <= i
                              /\ Decision(c).rule = rules[First(Hits(c))]
                              /\ Decision(c).rule # NoRule
  <1>1. rules \in Seq(RulePool) /\ DOMAIN rules = 1 .. Len(rules) /\ Len(rules) \in Nat
    BY LenProperties DEF Kinds
  <1>2. Hits(c) \in SUBSET (1 .. Len(rules)) /\ Hits(c) \in SUBSET Nat
    BY <1>1 DEF Hits
  <1>3. CASE Hits(c) = {}
    <2>1. Decision(c) = [action |-> Thresholded(c.score), rule |-> NoRule]
      BY <1>3 DEF Decision
    <2> QED BY <1>3, <2>1, Fields, ThresholdedKind DEF Actions
  <1>4. CASE Hits(c) # {}
    <2>1. First(Hits(c)) \in Hits(c) /\ \A i \in Hits(c) : First(Hits(c)) <= i
      BY <1>2, <1>4, FirstExists
    <2>2. First(Hits(c)) \in 1 .. Len(rules)
      BY <1>2, <2>1
    <2>3. rules[First(Hits(c))] \in RulePool
      BY <1>1, <2>2, ElementOfSeq
    <2>4. Decision(c) = [action |-> rules[First(Hits(c))].action, rule |-> rules[First(Hits(c))]]
      BY <1>4 DEF Decision
    <2> QED BY <1>4, <2>1, <2>2, <2>3, <2>4, Fields
  <1> QED BY <1>3, <1>4

\* What the proxy records of a call or an output.
LEMMA RecordKinds ==
    ASSUME Kinds, NEW c \in Calls \cup Outputs, NEW d, d.action \in Actions, _record(c, d)
    PROVE  /\ decisions' \in [Actions -> Nat] /\ counts' \in [blocked : Nat, allowed : Nat]
           /\ quarantined' \in Seq(Holding) /\ released' \in Nat
  <1>1. decisions' \in [Actions -> Nat] /\ released' \in Nat
    <2>1. PICK a \in Actions : a = d.action
      OBVIOUS
    <2>2. decisions' = [decisions EXCEPT ![a] = decisions[a] + 1] /\ released' = released
      BY <2>1 DEF _record
    <2>3. decisions \in [Actions -> Nat] /\ released \in Nat
      BY DEF Kinds
    <2>4. decisions[a] + 1 \in Nat
      BY <2>3
    <2> QED BY <2>2, <2>3, <2>4
  <1>2. counts' \in [blocked : Nat, allowed : Nat]
    <2>1. counts.blocked \in Nat /\ counts.allowed \in Nat
      BY DEF Kinds
    <2>2. \E m, n \in Nat : counts' = [blocked |-> m, allowed |-> n]
      BY <2>1 DEF _record, Counted
    <2> QED BY <2>2
  <1>3. quarantined' \in Seq(Holding)
    <2>1. quarantined \in Seq(Holding) /\ Arriving(c) \in Holding
      <3>1. decisions["quarantine"] + 1 \in Nat /\ quarantined \in Seq(Holding)
        <4>1. decisions \in [Actions -> Nat] /\ "quarantine" \in Actions
          BY DEF Kinds, Actions
        <4>2. decisions["quarantine"] \in Nat
          BY <4>1
        <4>3. quarantined \in Seq(Holding)
          BY DEF Kinds
        <4> QED BY <4>2, <4>3
      <3> QED BY <3>1 DEF Arriving, Holding
    <2>2. Held(c) \in Seq(Holding)
      BY <2>1, AppendProperties DEF Held
    <2> QED BY <2>1, <2>2 DEF _record
  <1> QED BY <1>1, <1>2, <1>3

\* What the call leaves in the audit log.
LEMMA AuditKinds ==
    ASSUME Kinds, NEW c \in Calls, Audit(c, Decision(c))
    PROVE  mem' \in Seq(Entry) /\ file' \in Seq(Entry)
  <1>1. mem \in Seq(Entry) /\ file \in Seq(Entry)
    BY DEF Kinds
  <1>2. Inspected(c.score) \in Entry /\ Amended(Inspected(c.score)) \in Entry
    BY Fields, InspectedIsEntry
  <1>3. CASE Decision(c).rule # NoRule
    BY <1>1, <1>3 DEF Audit, audit
  <1>4. CASE Decision(c).rule = NoRule
    <2>1. \E e, f \in Entry : mem' = Append(mem, e) /\ file' = Append(file, f)
      BY <1>2, <1>4 DEF Audit, Written
    <2> QED BY <1>1, <2>1, AppendProperties
  <1> QED BY <1>3, <1>4

\* One more in one counter.
LEMMA CountUp ==
    ASSUME NEW D, NEW f \in [D -> Nat], NEW k \in D
    PROVE  /\ [f EXCEPT ![k] = @ + 1] \in [D -> Nat]
           /\ \A j \in D : [f EXCEPT ![k] = @ + 1][j] = IF j = k THEN f[j] + 1 ELSE f[j]
  <1>1. f[k] + 1 \in Nat
    OBVIOUS
  <1> QED BY <1>1

\* Where add_rule() puts the new rule.
LEMMA RuleInserted ==
    ASSUME Kinds, NEW r \in RulePool
    PROVE  /\ Prioritized(r) \in Seq(RulePool) /\ Len(Prioritized(r)) = Len(rules) + 1
           /\ Range(Prioritized(r)) = Range(rules) \cup {r}
  <1> DEFINE n == Len(rules)
             k == Cardinality({i \in DOMAIN rules : rules[i].priority >= r.priority}) + 1
             t == InsertAt(rules, k, r)
  <1>1. rules \in Seq(RulePool) /\ DOMAIN rules = 1 .. n /\ n \in Nat
    BY LenProperties DEF Kinds
  <1>2. k \in 1 .. n + 1
    <2> DEFINE A == {i \in DOMAIN rules : rules[i].priority >= r.priority}
    <2>1. IsFiniteSet(1 .. n) /\ Cardinality(1 .. n) = n
      BY <1>1, FS_Interval
    <2>2. A \in SUBSET (1 .. n)
      BY <1>1
    <2> HIDE DEF A
    <2>3. IsFiniteSet(A) /\ Cardinality(A) <= n
      BY <2>1, <2>2, FS_Subset
    <2>4. Cardinality(A) \in Nat
      BY <2>3, FS_CardinalityType
    <2>5. Cardinality(A) + 1 \in 1 .. n + 1
      <3> DEFINE m == Cardinality(A)
      <3>1. m \in Nat /\ m <= n /\ n \in Nat
        BY <1>1, <2>3, <2>4
      <3> HIDE DEF m, n
      <3> QED BY <3>1 DEF m
    <2> QED BY <2>5 DEF A
  <1> HIDE DEF k
  <1>3. /\ t \in Seq(RulePool) /\ Len(t) = n + 1
        /\ \A i \in 1 .. n + 1 : t[i] = IF i < k THEN rules[i] ELSE IF i = k THEN r ELSE rules[i - 1]
    <2>1. rules \in Seq(RulePool) /\ r \in RulePool /\ k \in 1 .. Len(rules) + 1
      BY <1>1, <1>2
    <2> HIDE DEF t, n
    <2>2. /\ InsertAt(rules, k, r) \in Seq(RulePool)
          /\ Len(InsertAt(rules, k, r)) = Len(rules) + 1
          /\ \A i \in 1 .. Len(rules) + 1 : InsertAt(rules, k, r)[i] =
                IF i < k THEN rules[i] ELSE IF i = k THEN r ELSE rules[i - 1]
      BY <2>1, Inserted, SMTT(60)
    <2> QED BY <2>2 DEF t, n
  <1> HIDE DEF t
  <1>4. DOMAIN t = 1 .. n + 1
    BY <1>1, <1>3, LenProperties
  <1>5. Range(t) \subseteq Range(rules) \cup {r}
    <2>1. ASSUME NEW i \in 1 .. n + 1 PROVE t[i] \in Range(rules) \cup {r}
      <3>1. i < k => i \in 1 .. n
        BY <1>1, <1>2
      <3>2. i > k => i - 1 \in 1 .. n
        BY <1>1, <1>2
      <3>3. i < k => rules[i] \in Range(rules)
        BY <1>1, <3>1 DEF Range
      <3>4. i > k => rules[i - 1] \in Range(rules)
        BY <1>1, <3>2 DEF Range
      <3>5. i < k \/ i = k \/ (i > k /\ ~(i < k) /\ i # k)
        BY <1>1, <1>2
      <3> QED BY <1>3, <3>3, <3>4, <3>5
    <2> QED BY <1>4, <2>1 DEF Range
  <1>6. Range(rules) \cup {r} \subseteq Range(t)
    <2>1. r \in Range(t)
      BY <1>2, <1>3, <1>4 DEF Range
    <2>2. ASSUME NEW i \in 1 .. n PROVE rules[i] \in Range(t)
      <3>1. CASE i < k
        <4>1. i \in 1 .. n + 1 /\ t[i] = rules[i]
          BY <1>1, <1>3, <3>1
        <4> QED BY <1>4, <4>1 DEF Range
      <3>2. CASE i >= k
        <4>1. i + 1 \in 1 .. n + 1 /\ ~(i + 1 < k) /\ i + 1 # k /\ i + 1 - 1 = i
          BY <1>1, <1>2, <3>2
        <4>2. t[i + 1] = rules[i]
          BY <1>3, <4>1
        <4> QED BY <1>4, <4>1, <4>2 DEF Range
      <3> QED BY <1>1, <1>2, <3>1, <3>2
    <2> QED BY <1>1, <2>1, <2>2 DEF Range
  <1>7. Prioritized(r) = t
    BY DEF Prioritized, t, k
  <1> QED BY <1>3, <1>5, <1>6, <1>7

\* The elements of a sequence with one more.
LEMMA RangeAppended ==
    ASSUME NEW S, NEW s \in Seq(S), NEW e \in S
    PROVE  Range(Append(s, e)) = Range(s) \cup {e}
  <1>1. /\ Len(s) \in Nat /\ DOMAIN s = 1 .. Len(s) /\ DOMAIN Append(s, e) = 1 .. Len(s) + 1
        /\ \A i \in 1 .. Len(s) : Append(s, e)[i] = s[i]
        /\ Append(s, e)[Len(s) + 1] = e
    BY LenProperties, AppendProperties
  <1>2. \A i \in 1 .. Len(s) + 1 : i \in 1 .. Len(s) \/ i = Len(s) + 1
    BY <1>1
  <1>3. Range(Append(s, e)) \subseteq Range(s) \cup {e}
    BY <1>1, <1>2 DEF Range
  <1>4. \A i \in 1 .. Len(s) : i \in 1 .. Len(s) + 1
    BY <1>1
  <1>5. Len(s) + 1 \in 1 .. Len(s) + 1
    BY <1>1
  <1>6. Range(s) \cup {e} \subseteq Range(Append(s, e))
    BY <1>1, <1>4, <1>5 DEF Range
  <1> QED BY <1>3, <1>6

\* A call leaves the proxy and the log alone, or both take note of it.
LEMMA Evaluated ==
    ASSUME NEW c \in Calls, evaluate_call(c)
    PROVE  /\ UNCHANGED <<config, outputs, seen>>
           /\ \/ UNCHANGED <<proxy, audit>>
              \/ _record(c, Decision(c)) /\ Audit(c, Decision(c))
           /\ \/ UNCHANGED verdicts
              \/ \E l \in 0 .. 5 : verdicts' = [verdicts EXCEPT ![l] = @ + 1]
           /\ raised' \in {raised, raised + 1}
           /\ \/ UNCHANGED egress_decisions
              \/ egress_decisions' = [egress_decisions EXCEPT ![EgressAllows(c)] = @ + 1]
  BY DEF evaluate_call, Verdict, Raise

LEMMA InitKinds == Init => Kinds
  BY EmptySeq DEF Init, Kinds, Range

LEMMA NextKinds ==
    ASSUME Kinds, [Next]_vars
    PROVE  Kinds'
  <1>1. CASE UNCHANGED vars
    BY <1>1 DEF vars, Kinds
  <1>2. ASSUME NEW r \in RulePool, add_rule(r) PROVE Kinds'
    <2>1. rules' \in Seq(RulePool) /\ Range(rules') = Range(rules) \cup {r}
      BY <1>2, RuleInserted DEF add_rule
    <2>2. added' \in Seq(RulePool) /\ Range(added') = Range(added) \cup {r}
      <3>1. added \in Seq(RulePool) /\ added' = Append(added, r)
        BY <1>2 DEF add_rule, Kinds
      <3> QED BY <3>1, RangeAppended, AppendProperties
    <2> QED BY <1>2, <2>1, <2>2 DEF add_rule, Kinds, proxy, audit
  <1>3. ASSUME NEW r \in EgressPool, add_egress_rule(r) PROVE Kinds'
    <2>1. egress_rules' \in Seq(EgressPool)
      BY <1>3, AppendProperties DEF add_egress_rule, Kinds
    <2> QED BY <1>3, <2>1 DEF add_egress_rule, Kinds, proxy, audit
  <1>4. ASSUME NEW s \in Servers, register_server(s) PROVE Kinds'
    BY <1>4 DEF register_server, Kinds, proxy, audit
  <1>5. ASSUME NEW c \in Calls, evaluate_call(c) PROVE Kinds'
    <2>1. /\ decisions' \in [Actions -> Nat] /\ counts' \in [blocked : Nat, allowed : Nat]
          /\ quarantined' \in Seq(Holding) /\ released' \in Nat
          /\ mem' \in Seq(Entry) /\ file' \in Seq(Entry)
      <3>1. CASE UNCHANGED <<proxy, audit>>
        BY <3>1 DEF Kinds, proxy, audit
      <3>2. CASE _record(c, Decision(c)) /\ Audit(c, Decision(c))
        BY <3>2, RecordKinds, AuditKinds, DecisionIsFirst
      <3> QED BY <1>5, <3>1, <3>2, Evaluated
    <2>2. verdicts' \in [0 .. 5 -> Nat]
      <3>1. ASSUME NEW l \in 0 .. 5, verdicts' = [verdicts EXCEPT ![l] = @ + 1]
            PROVE  verdicts' \in [0 .. 5 -> Nat]
        <4> DEFINE D == 0 .. 5
        <4>1. verdicts \in [D -> Nat] /\ l \in D
          BY DEF Kinds
        <4> HIDE DEF D
        <4>2. verdicts' \in [D -> Nat]
          BY <3>1, <4>1, CountUp
        <4> QED BY <4>2 DEF D
      <3> QED BY <1>5, <3>1, Evaluated DEF Kinds
    <2>3. egress_decisions' \in [BOOLEAN -> Nat]
      <3>1. EgressAllows(c) \in BOOLEAN
        BY ConfigAssumption DEF EgressAllows
      <3>2. ASSUME NEW b \in BOOLEAN, egress_decisions' = [egress_decisions EXCEPT ![b] = @ + 1]
            PROVE  egress_decisions' \in [BOOLEAN -> Nat]
        BY <3>2, CountUp DEF Kinds
      <3> QED BY <1>5, <3>1, <3>2, Evaluated DEF Kinds
    <2>4. raised' \in Nat /\ UNCHANGED <<config, outputs, seen>>
      <3>1. raised \in Nat
        BY DEF Kinds
      <3> QED BY <1>5, <3>1, Evaluated
    <2> QED BY <2>1, <2>2, <2>3, <2>4 DEF Kinds, config
  <1>6. ASSUME NEW o \in Outputs, intercept_output(o) PROVE Kinds'
    <2> DEFINE d == [action |-> Thresholded(o.output_score)]
    <2>1. d.action \in Actions /\ Thresholded(o.output_score) \in Actions
      BY Fields, ThresholdedKind DEF Actions
    <2>2. _record(o, d)
      BY <1>6 DEF intercept_output
    <2> HIDE DEF d
    <2>3. /\ decisions' \in [Actions -> Nat] /\ counts' \in [blocked : Nat, allowed : Nat]
          /\ quarantined' \in Seq(Holding) /\ released' \in Nat
      BY <2>1, <2>2, RecordKinds
    <2>4. mem' \in Seq(Entry) /\ file' \in Seq(Entry)
      <3>1. Inspected(o.output_score) \in Entry
        BY Fields, InspectedIsEntry
      <3> QED BY <1>6, <3>1, AppendProperties DEF intercept_output, Kinds
    <2>5. outputs' \in [Actions -> Nat]
      <3>1. outputs' = [outputs EXCEPT ![Thresholded(o.output_score)] = @ + 1]
        BY <1>6 DEF intercept_output
      <3> QED BY <2>1, <3>1, CountUp DEF Kinds
    <2>6. UNCHANGED <<config, verdicts, egress_decisions, raised, seen>>
      BY <1>6 DEF intercept_output
    <2> QED BY <2>3, <2>4, <2>5, <2>6 DEF Kinds, config
  <1>7. ASSUME NEW o \in Operators, get_quarantined(o) PROVE Kinds'
    <2>1. seen' \in [Operators -> Seq(Holding)]
      BY <1>7 DEF get_quarantined, Kinds
    <2> QED BY <1>7, <2>1 DEF get_quarantined, Kinds, config, proxy, audit
  <1>8. ASSUME NEW o \in Operators, NEW i \in DOMAIN seen[o], release_quarantined(o, i) PROVE Kinds'
    <2>1. DOMAIN quarantined = 1 .. Len(quarantined)
      BY LenProperties DEF Kinds
    <2>2. quarantined' \in Seq(Holding) /\ released' \in Nat
      <3>1. quarantined \in Seq(Holding) /\ released \in Nat
        BY DEF Kinds
      <3>2. CASE UNCHANGED <<quarantined, released>>
        BY <3>1, <3>2
      <3>3. CASE /\ i \in 1 .. Len(quarantined) /\ quarantined' = RemoveAt(quarantined, i)
                 /\ released' = released + 1
        BY <3>1, <3>3, Removed
      <3> QED BY <1>8, <2>1, <3>2, <3>3 DEF release_quarantined
    <2> QED BY <1>8, <2>2 DEF release_quarantined, Kinds, config, audit
  <1> QED BY <1>1, <1>2, <1>3, <1>4, <1>5, <1>6, <1>7, <1>8 DEF Next

\* Every variable keeps a value of its kind.
THEOREM TypeCorrect == Spec => []TypeOK
  <1>1. Kinds => TypeOK
    <2>1. ASSUME Kinds PROVE Range(egress_rules) \subseteq EgressPool
      <3>1. DOMAIN egress_rules = 1 .. Len(egress_rules) /\ egress_rules \in Seq(EgressPool)
        BY <2>1, LenProperties DEF Kinds
      <3> QED BY <3>1, ElementOfSeq DEF Range
    <2> QED BY <2>1 DEF Kinds, TypeOK
  <1> QED BY <1>1, InitKinds, NextKinds, PTL DEF Spec
-----------------------------------------------------------------------------
(* The rules of the proxy are in order. *)

\* By priority, and those of one priority in the order they were added, each once.
InOrder(s, t) ==
    /\ \A k, l \in 1 .. Len(t) : t[k] = t[l] => k = l
    /\ \A i, j \in 1 .. Len(s) : i < j =>
         /\ s[i].priority >= s[j].priority
         /\ s[i].priority = s[j].priority =>
              \E k, l \in 1 .. Len(t) : k < l /\ t[k] = s[i] /\ t[l] = s[j]

Sorted == InOrder(rules, added)

\* Every rule of the proxy was added, and the other way round.
LEMMA SameRules ==
    ASSUME Kinds
    PROVE  /\ \A i \in 1 .. Len(rules) : \E k \in 1 .. Len(added) : added[k] = rules[i]
           /\ \A k \in 1 .. Len(added) : \E i \in 1 .. Len(rules) : added[k] = rules[i]
  <1>1. DOMAIN rules = 1 .. Len(rules) /\ DOMAIN added = 1 .. Len(added)
    BY LenProperties DEF Kinds
  <1>2. \A i \in 1 .. Len(rules) : rules[i] \in Range(added)
    BY <1>1 DEF Kinds, Range
  <1>3. \A k \in 1 .. Len(added) : added[k] \in Range(rules)
    BY <1>1 DEF Kinds, Range
  <1> QED BY <1>1, <1>2, <1>3 DEF Range

\* add_rule() puts a rule behind those that go before it and ahead of the rest.
LEMMA RulePlaced ==
    ASSUME Kinds, Sorted, NEW r \in RulePool
    PROVE  \E k \in 1 .. Len(rules) + 1 :
             /\ Len(Prioritized(r)) = Len(rules) + 1
             /\ \A i \in 1 .. Len(rules) : i < k <=> rules[i].priority >= r.priority
             /\ \A i \in 1 .. Len(rules) + 1 : Prioritized(r)[i] =
                  IF i < k THEN rules[i] ELSE IF i = k THEN r ELSE rules[i - 1]
  <1> DEFINE n == Len(rules)
             A == {i \in DOMAIN rules : rules[i].priority >= r.priority}
             k == Cardinality(A) + 1
  <1>1. rules \in Seq(RulePool) /\ DOMAIN rules = 1 .. n /\ n \in Nat
    BY LenProperties DEF Kinds
  <1>2. r.priority \in Nat /\ \A i \in 1 .. n : rules[i].priority \in Nat
    BY <1>1, Fields, ElementOfSeq
  <1>3. A \in SUBSET (1 .. n)
    BY <1>1
  <1>4. \A i \in A : \A j \in 1 .. i : j \in A
    <2>1. ASSUME NEW i \in 1 .. n, NEW j \in 1 .. i, rules[i].priority >= r.priority
          PROVE  j \in 1 .. n /\ rules[j].priority >= r.priority
      <3>1. j \in 1 .. n /\ (j < i \/ j = i)
        BY <1>1
      <3>2. CASE j < i
        <4>1. rules[j].priority >= rules[i].priority
          BY <3>1, <3>2 DEF Sorted, InOrder
        <4> QED BY <1>2, <2>1, <3>1, <4>1
      <3> QED BY <2>1, <3>1, <3>2
    <2> QED BY <1>1, <2>1
  <1>5. \A i \in 1 .. n : i \in A <=> rules[i].priority >= r.priority
    BY <1>1
  <1> HIDE DEF A
  <1>6. Cardinality(A) \in 0 .. n /\ \A i \in 1 .. n : i \in A <=> i <= Cardinality(A)
    BY <1>1, <1>3, <1>4, FirstOnes
  <1>7. k \in 1 .. n + 1 /\ \A i \in 1 .. n : i < k <=> i \in A
    BY <1>1, <1>6
  <1>8. Prioritized(r) = InsertAt(rules, k, r)
    BY DEF Prioritized, A
  <1> HIDE DEF k
  <1>9. /\ Len(InsertAt(rules, k, r)) = n + 1
        /\ \A i \in 1 .. n + 1 : InsertAt(rules, k, r)[i] =
             IF i < k THEN rules[i] ELSE IF i = k THEN r ELSE rules[i - 1]
    BY <1>1, <1>7, Inserted
  <1> QED BY <1>5, <1>7, <1>8, <1>9

LEMMA InitSorted == Init => Sorted
  BY EmptySeq DEF Init, Sorted, InOrder

LEMMA NextSorted ==
    ASSUME Kinds, Sorted, [Next]_vars
    PROVE  Sorted'
  <1>1. ASSUME NEW r \in RulePool, add_rule(r) PROVE Sorted'
    <2> DEFINE n == Len(rules)
               m == Len(added)
    <2>1. n \in Nat /\ m \in Nat /\ rules \in Seq(RulePool) /\ added \in Seq(RulePool)
      BY LenProperties DEF Kinds
    <2>2. /\ Len(added') = m + 1 /\ added'[m + 1] = r
          /\ \A i \in 1 .. m : added'[i] = added[i]
      BY <1>1, <2>1, AppendProperties DEF add_rule
    <2>3. PICK k \in 1 .. n + 1 :
             /\ Len(rules') = n + 1
             /\ \A i \in 1 .. n : i < k <=> rules[i].priority >= r.priority
             /\ \A i \in 1 .. n + 1 : rules'[i] =
                  IF i < k THEN rules[i] ELSE IF i = k THEN r ELSE rules[i - 1]
      BY <1>1, RulePlaced DEF add_rule
    <2>4. \A i \in 1 .. m : added[i] # r
      <3>1. DOMAIN added = 1 .. m
        BY <2>1, LenProperties
      <3> QED BY <1>1, <3>1 DEF add_rule, Range
    <2>5. r.priority \in Nat /\ \A i \in 1 .. n : rules[i].priority \in Nat
      BY <2>1, Fields, ElementOfSeq
    <2>6. /\ \A x, y \in 1 .. m : added[x] = added[y] => x = y
          /\ \A i, j \in 1 .. n : i < j =>
               /\ rules[i].priority >= rules[j].priority
               /\ rules[i].priority = rules[j].priority =>
                    \E x, y \in 1 .. m : x < y /\ added[x] = rules[i] /\ added[y] = rules[j]
      BY DEF Sorted, InOrder
    <2>7. \A i \in 1 .. n : \E x \in 1 .. m : added[x] = rules[i]
      BY SameRules
    <2> HIDE DEF n, m
    <2>8. \A x, y \in 1 .. m + 1 : added'[x] = added'[y] => x = y
      <3>1. \A x \in 1 .. m + 1 : x \in 1 .. m \/ x = m + 1
        BY <2>1
      <3> QED BY <2>2, <2>4, <2>6, <3>1
    <2>9. ASSUME NEW i \in 1 .. n + 1, NEW j \in 1 .. n + 1, i < j
          PROVE  /\ rules'[i].priority >= rules'[j].priority
                 /\ rules'[i].priority = rules'[j].priority =>
                      \E x, y \in 1 .. m + 1 : /\ x < y /\ added'[x] = rules'[i]
                                               /\ added'[y] = rules'[j]
      <3>0. n \in Nat /\ m \in Nat /\ k \in 1 .. n + 1 /\ \A x \in 1 .. m : x \in 1 .. m + 1
        BY <2>1, <2>3
      <3>1. CASE i # k /\ j # k
        <4>1. PICK a, b \in 1 .. n : a < b /\ rules'[i] = rules[a] /\ rules'[j] = rules[b]
          <5>1. CASE j < k
            <6>1. i \in 1 .. n /\ j \in 1 .. n /\ i < k
              BY <2>9, <3>0, <5>1
            <6> QED BY <2>3, <2>9, <5>1, <6>1
          <5>2. CASE i < k /\ j > k
            <6>1. i \in 1 .. n /\ j - 1 \in 1 .. n /\ i < j - 1 /\ ~(j < k)
              BY <2>9, <3>0, <5>2
            <6> QED BY <2>3, <3>1, <5>2, <6>1
          <5>3. CASE i > k
            <6>1. i - 1 \in 1 .. n /\ j - 1 \in 1 .. n /\ i - 1 < j - 1 /\ ~(j < k) /\ ~(i < k)
              BY <2>9, <3>0, <5>3
            <6> QED BY <2>3, <3>1, <6>1
          <5> QED BY <2>9, <3>0, <3>1, <5>1, <5>2, <5>3
        <4>2. rules[a].priority = rules[b].priority =>
                \E x, y \in 1 .. m : x < y /\ added[x] = rules[a] /\ added[y] = rules[b]
          BY <2>6, <4>1
        <4> QED BY <2>2, <2>6, <3>0, <4>1, <4>2
      <3>2. CASE i = k
        <4>1. j - 1 \in 1 .. n /\ ~(j - 1 < k) /\ ~(j < k) /\ j # k /\ ~(i < k)
          BY <2>9, <3>0, <3>2
        <4>2. rules'[i] = r /\ rules'[j] = rules[j - 1] /\ ~(rules[j - 1].priority >= r.priority)
          BY <2>3, <3>2, <4>1
        <4> QED BY <2>5, <4>1, <4>2
      <3>3. CASE j = k
        <4>1. i \in 1 .. n /\ i < k /\ ~(j < k)
          BY <2>9, <3>0, <3>3
        <4>2. rules'[j] = r /\ rules'[i] = rules[i] /\ rules[i].priority >= r.priority
          BY <2>3, <3>3, <4>1
        <4>3. PICK x \in 1 .. m : added[x] = rules[i]
          BY <2>7, <4>1
        <4>4. x < m + 1 /\ x \in 1 .. m + 1 /\ m + 1 \in 1 .. m + 1
          BY <3>0
        <4> QED BY <2>2, <4>2, <4>3, <4>4
      <3> QED BY <3>1, <3>2, <3>3
    <2>10. Len(rules') = n + 1 /\ Len(added') = m + 1
      BY <2>2, <2>3
    <2>11. Sorted' <=>
             /\ \A x, y \in 1 .. Len(added') : added'[x] = added'[y] => x = y
             /\ \A i, j \in 1 .. Len(rules') : i < j =>
                  /\ rules'[i].priority >= rules'[j].priority
                  /\ rules'[i].priority = rules'[j].priority =>
                       \E x, y \in 1 .. Len(added') : x < y /\ added'[x] = rules'[i]
                                                      /\ added'[y] = rules'[j]
      BY DEF Sorted, InOrder
    <2>12. \A x, y \in 1 .. Len(added') : added'[x] = added'[y] => x = y
      BY <2>8, <2>10
    <2>13. \A i, j \in 1 .. Len(rules') : i < j =>
             /\ rules'[i].priority >= rules'[j].priority
             /\ rules'[i].priority = rules'[j].priority =>
                  \E x, y \in 1 .. Len(added') : x < y /\ added'[x] = rules'[i]
                                                 /\ added'[y] = rules'[j]
      BY <2>9, <2>10
    <2> QED BY <2>11, <2>12, <2>13
  <1>2. CASE UNCHANGED <<rules, added>>
    BY <1>2 DEF Sorted
  <1>3. [Next]_vars => (\E r \in RulePool : add_rule(r)) \/ UNCHANGED <<rules, added>>
    BY DEF Next, vars, add_egress_rule, register_server, evaluate_call, intercept_output,
           get_quarantined, release_quarantined, config
  <1> QED BY <1>1, <1>2, <1>3

\* Sorted rules decide by the first of the highest priority.
LEMMA SortedFirst == Kinds /\ Sorted => FirstRuleWins
  <1> SUFFICES ASSUME Kinds, Sorted, NEW c \in Calls, NEW i \in DOMAIN added,
                      c \in added[i].matches
               PROVE  LET r == Decision(c).rule
                      IN  /\ r # NoRule /\ r.priority >= added[i].priority
                          /\ r.priority = added[i].priority => \E j \in 1 .. i : added[j] = r
    BY DEF FirstRuleWins
  <1> DEFINE f == First(Hits(c))
  <1>1. DOMAIN rules = 1 .. Len(rules) /\ DOMAIN added = 1 .. Len(added)
        /\ rules \in Seq(RulePool) /\ Len(added) \in Nat /\ Len(rules) \in Nat
    BY LenProperties DEF Kinds
  <1>2. PICK j \in 1 .. Len(rules) : added[i] = rules[j]
    BY <1>1, SameRules
  <1>3. j \in Hits(c)
    BY <1>1, <1>2 DEF Hits
  <1>4. /\ f \in 1 .. Len(rules) /\ f <= j
        /\ Decision(c).rule = rules[f] /\ Decision(c).rule # NoRule
    BY <1>3, DecisionIsFirst
  <1> HIDE DEF f
  <1>5. rules[f].priority \in Nat /\ rules[j].priority \in Nat
    BY <1>1, <1>2, <1>4, Fields, ElementOfSeq
  <1>6. CASE f = j
    <2>1. i \in 1 .. i
      BY <1>1
    <2> QED BY <1>2, <1>4, <1>5, <1>6, <2>1
  <1>7. CASE f < j
    <2>1. /\ rules[f].priority >= rules[j].priority
          /\ rules[f].priority = rules[j].priority =>
               \E k, l \in 1 .. Len(added) : k < l /\ added[k] = rules[f] /\ added[l] = rules[j]
      BY <1>4, <1>7 DEF Sorted, InOrder
    <2>2. ASSUME rules[f].priority = rules[j].priority
          PROVE  \E k \in 1 .. i : added[k] = rules[f]
      <3>1. PICK k, l \in 1 .. Len(added) : k < l /\ added[k] = rules[f] /\ added[l] = rules[j]
        BY <2>1, <2>2
      <3>2. l = i
        BY <1>1, <1>2, <3>1 DEF Sorted, InOrder
      <3>3. k \in 1 .. i
        BY <1>1, <3>1, <3>2
      <3> QED BY <3>1, <3>3
    <2> QED BY <1>2, <1>4, <2>1, <2>2
  <1>8. f < j \/ f = j
    BY <1>1, <1>4
  <1> QED BY <1>6, <1>7, <1>8

\* A rule decides a call only if no rule of higher priority matches it, and none
\* of its priority that was added earlier, whatever was added between.
THEOREM PriorityDecides == Spec => []FirstRuleWins
  <1>1. Init => Kinds /\ Sorted
    BY InitKinds, InitSorted
  <1>2. Kinds /\ Sorted /\ [Next]_vars => (Kinds /\ Sorted)'
    BY NextKinds, NextSorted
  <1> QED BY <1>1, <1>2, SortedFirst, PTL DEF Spec
-----------------------------------------------------------------------------
(* The monitor's log. *)

\* The log and its file have the same hashes, and the file is chained.
Chained == /\ Len(mem) = Len(file)
           /\ \A i \in 1 .. Len(file) : mem[i].entry_hash = file[i].entry_hash /\ Links(file, i)

\* A chained file has no broken entry.
LEMMA ChainedVerifies == Kinds /\ Chained => FileVerifies
  <1> SUFFICES ASSUME Kinds, Chained PROVE Broken(file) = {}
    BY DEF FileVerifies, verify_chain
  <1>1. DOMAIN file = 1 .. Len(file)
    BY LenProperties DEF Kinds
  <1> QED BY <1>1 DEF Broken, Chained

\* An inspection extends the chain, also when its entry is amended in memory.
LEMMA ChainExtended ==
    ASSUME Kinds, Chained, NEW score \in 0 .. 100, NEW e \in Entry,
           e.entry_hash = Inspected(score).entry_hash,
           mem' = Append(mem, e), file' = Append(file, Inspected(score))
    PROVE  Chained'
  <1> DEFINE n == Len(file)
             f == Inspected(score)
  <1>1. n \in Nat /\ Len(mem) = n /\ mem \in Seq(Entry) /\ file \in Seq(Entry)
    BY LenProperties DEF Kinds, Chained
  <1>2. f \in Entry /\ f.prev_hash = HashAt(mem, n) /\ f.entry_hash = compute_hash(f)
    BY <1>1, InspectedIsEntry
  <1>3. \A i \in 1 .. n : mem[i].entry_hash = file[i].entry_hash
                          /\ file[i].prev_hash = HashAt(file, i - 1)
                          /\ file[i].entry_hash = compute_hash(file[i])
    BY DEF Chained, Links
  <1>4. f.prev_hash = HashAt(file, n)
    <2>1. n # 0 => n \in 1 .. n
      BY <1>1
    <2> QED BY <1>2, <1>3, <2>1 DEF HashAt
  <1> HIDE DEF f, n
  <1>5. /\ Len(mem') = n + 1 /\ \A i \in 1 .. n : mem'[i] = mem[i]
        /\ mem'[n + 1] = e
    BY <1>1, AppendProperties DEF n
  <1>6. /\ Len(file') = n + 1 /\ \A i \in 1 .. n : file'[i] = file[i]
        /\ file'[n + 1] = f
    BY <1>1, <1>2, AppendProperties DEF n, f
  <1>7. ASSUME NEW i \in 1 .. n + 1
        PROVE  HashAt(file', i - 1) = HashAt(file, i - 1)
    <2>1. i - 1 # 0 => i - 1 \in 1 .. n
      BY <1>1
    <2> QED BY <1>6, <2>1 DEF HashAt
  <1>8. ASSUME NEW i \in 1 .. n + 1
        PROVE  /\ mem'[i].entry_hash = file'[i].entry_hash
               /\ file'[i].prev_hash = HashAt(file', i - 1)
               /\ file'[i].entry_hash = compute_hash(file'[i])
    <2>1. CASE i \in 1 .. n
      BY <1>3, <1>5, <1>6, <1>7, <2>1
    <2>2. CASE i = n + 1
      <3>1. i - 1 = n
        BY <1>1, <2>2
      <3>2. HashAt(file', i - 1) = HashAt(file, n)
        BY <1>7, <3>1
      <3>3. e.entry_hash = f.entry_hash
        BY DEF f
      <3> QED BY <1>2, <1>4, <1>5, <1>6, <2>2, <3>2, <3>3
    <2>3. i \in 1 .. n \/ i = n + 1
      BY <1>1
    <2> QED BY <2>1, <2>2, <2>3
  <1> QED BY <1>5, <1>6, <1>8 DEF Chained, Links

LEMMA InitChained == Init => Chained
  BY EmptySeq DEF Init, Chained

LEMMA NextChained ==
    ASSUME Kinds, Chained, [Next]_vars
    PROVE  Chained'
  <1>1. CASE UNCHANGED audit
    BY <1>1 DEF Chained, audit
  <1>2. ASSUME NEW c \in Calls, Audit(c, Decision(c)) PROVE Chained'
    <2>1. CASE Decision(c).rule # NoRule
      BY <1>1, <1>2, <2>1 DEF Audit
    <2>2. CASE Decision(c).rule = NoRule
      <3>1. PICK e \in {Inspected(c.score), Amended(Inspected(c.score))} :
                mem' = Append(mem, e) /\ file' = Append(file, Inspected(c.score))
        BY <1>2, <2>2 DEF Audit, Written
      <3>2. c.score \in 0 .. 100
        BY Fields
      <3>3. e \in Entry /\ e.entry_hash = Inspected(c.score).entry_hash
        BY <3>2, InspectedIsEntry
      <3> QED BY <3>1, <3>2, <3>3, ChainExtended
    <2> QED BY <2>1, <2>2
  <1>3. ASSUME NEW o \in Outputs, intercept_output(o) PROVE Chained'
    <2>1. o.output_score \in 0 .. 100
      BY Fields
    <2>2. Inspected(o.output_score) \in Entry
      BY <2>1, InspectedIsEntry
    <2>3. /\ mem' = Append(mem, Inspected(o.output_score))
          /\ file' = Append(file, Inspected(o.output_score))
      BY <1>3 DEF intercept_output
    <2> QED BY <2>1, <2>2, <2>3, ChainExtended
  <1>4. \/ UNCHANGED audit
        \/ \E c \in Calls : evaluate_call(c)
        \/ \E o \in Outputs : intercept_output(o)
    BY DEF Next, vars, audit, add_rule, add_egress_rule, register_server,
           get_quarantined, release_quarantined
  <1>5. ASSUME NEW c \in Calls, evaluate_call(c) PROVE Chained'
    <2>1. UNCHANGED audit \/ Audit(c, Decision(c))
      BY <1>5, Evaluated
    <2> QED BY <1>1, <1>2, <2>1
  <1> QED BY <1>1, <1>3, <1>4, <1>5

\* The file of the monitor's log verifies, whatever the proxy does to the
\* entries the monitor holds (monitor.py, layers/proxy.py).
THEOREM FileIsChained == Spec => []FileVerifies
  <1>1. Init => Kinds /\ Chained
    BY InitKinds, InitChained
  <1>2. Kinds /\ Chained /\ [Next]_vars => (Kinds /\ Chained)'
    BY NextKinds, NextChained
  <1> QED BY <1>1, <1>2, ChainedVerifies, PTL DEF Spec
-----------------------------------------------------------------------------
(* What operators have seen of the quarantine. *)

Rising(q) == \A i, j \in DOMAIN q : i < j => q[i].arrival < q[j].arrival
Bounded(q, n) == \A i \in DOMAIN q : q[i].arrival <= n

StillThere(s, q, i) == \A j \in 1 .. i : s[j] \in Range(q)

Named(s, q) ==
    \A i \in DOMAIN s :
        IF StillThere(s, q, i) THEN i \in DOMAIN q /\ q[i] = s[i]
        ELSE i \in DOMAIN q => q[i].arrival > s[i].arrival

SeenInv == /\ Rising(quarantined) /\ Bounded(quarantined, decisions["quarantine"])
           /\ \A o \in Operators : /\ Bounded(seen[o], decisions["quarantine"])
                                   /\ Named(seen[o], quarantined)

LEMMA NamedItself ==
    ASSUME NEW q \in Seq(Holding)
    PROVE  Named(q, q)
  <1> SUFFICES ASSUME NEW i \in DOMAIN q PROVE StillThere(q, q, i)
    BY DEF Named
  <1>1. DOMAIN q = 1 .. Len(q) /\ Len(q) \in Nat
    BY LenProperties
  <1> QED BY <1>1 DEF StillThere, Range

\* A call that arrives goes behind those that are there.
LEMMA RisingAppended ==
    ASSUME NEW q \in Seq(Holding), NEW e \in Holding, NEW n \in Nat,
           Rising(q), Bounded(q, n), e.arrival = n + 1
    PROVE  Rising(Append(q, e)) /\ Bounded(Append(q, e), n + 1)
  <1> DEFINE t == Append(q, e)
             m == Len(q)
  <1>1. /\ m \in Nat /\ DOMAIN q = 1 .. m /\ DOMAIN t = 1 .. m + 1
        /\ \A i \in 1 .. m : t[i] = q[i] /\ q[i] \in Holding
        /\ t[m + 1] = e
    BY LenProperties, AppendProperties, ElementOfSeq
  <1> HIDE DEF t, m
  <1>2. \A i \in 1 .. m : q[i].arrival \in Nat /\ q[i].arrival <= n
    BY <1>1 DEF Bounded, Holding
  <1>3. Bounded(t, n + 1)
    <2> SUFFICES ASSUME NEW i \in 1 .. m + 1 PROVE t[i].arrival <= n + 1
      BY <1>1 DEF Bounded
    <2>1. i \in 1 .. m \/ i = m + 1
      BY <1>1
    <2> QED BY <1>1, <1>2, <2>1
  <1>4. Rising(t)
    <2> SUFFICES ASSUME NEW i \in 1 .. m + 1, NEW j \in 1 .. m + 1, i < j
                 PROVE  t[i].arrival < t[j].arrival
      BY <1>1 DEF Rising
    <2>1. i \in 1 .. m /\ (j \in 1 .. m \/ j = m + 1)
      BY <1>1
    <2>2. CASE j \in 1 .. m
      BY <1>1, <2>1, <2>2 DEF Rising
    <2>3. CASE j = m + 1
      BY <1>1, <1>2, <2>1, <2>3
    <2> QED BY <2>1, <2>2, <2>3
  <1> QED BY <1>3, <1>4 DEF t

LEMMA NamedAppended ==
    ASSUME NEW q \in Seq(Holding), NEW s \in Seq(Holding), NEW e \in Holding, NEW n \in Nat,
           Named(s, q), Bounded(s, n), e.arrival = n + 1
    PROVE  Named(s, Append(q, e))
  <1> DEFINE t == Append(q, e)
             m == Len(q)
  <1>1. /\ m \in Nat /\ DOMAIN q = 1 .. m /\ DOMAIN t = 1 .. m + 1
        /\ \A i \in 1 .. m : t[i] = q[i]
        /\ t[m + 1] = e
    BY LenProperties, AppendProperties
  <1>2. /\ DOMAIN s = 1 .. Len(s) /\ Len(s) \in Nat
        /\ \A i \in 1 .. Len(s) : s[i].arrival \in Nat /\ s[i].arrival < n + 1
    <2>1. DOMAIN s = 1 .. Len(s) /\ Len(s) \in Nat /\ \A i \in 1 .. Len(s) : s[i] \in Holding
      BY LenProperties, ElementOfSeq
    <2>2. \A i \in 1 .. Len(s) : s[i].arrival \in Nat
      BY <2>1 DEF Holding
    <2>3. \A i \in 1 .. Len(s) : s[i].arrival <= n
      BY <2>1 DEF Bounded
    <2> HIDE DEF t, m
    <2> QED BY <2>1, <2>2, <2>3
  <1> HIDE DEF t, m
  <1>3. Range(t) = Range(q) \cup {e}
    <2>1. \A x : x \in Range(t) <=> \E i \in 1 .. m + 1 : x = t[i]
      BY <1>1 DEF Range
    <2>2. \A x : x \in Range(q) <=> \E i \in 1 .. m : x = q[i]
      BY <1>1 DEF Range
    <2>3. 1 .. m + 1 = 1 .. m \cup {m + 1}
      BY <1>1
    <2> QED BY <1>1, <2>1, <2>2, <2>3
  <1> SUFFICES ASSUME NEW i \in 1 .. Len(s)
               PROVE  IF StillThere(s, t, i) THEN i \in DOMAIN t /\ t[i] = s[i]
                      ELSE i \in DOMAIN t => t[i].arrival > s[i].arrival
    BY <1>2 DEF Named, t
  <1>4. StillThere(s, t, i) <=> StillThere(s, q, i)
    <2>1. \A j \in 1 .. i : j \in 1 .. Len(s) /\ s[j] # e
      BY <1>2
    <2> QED BY <1>3, <2>1 DEF StillThere
  <1>5. IF StillThere(s, q, i) THEN i \in 1 .. m /\ q[i] = s[i]
        ELSE i \in 1 .. m => q[i].arrival > s[i].arrival
    BY <1>1, <1>2 DEF Named
  <1>6. CASE StillThere(s, q, i)
    BY <1>1, <1>4, <1>5, <1>6
  <1>7. CASE ~StillThere(s, q, i)
    <2> SUFFICES ASSUME i \in 1 .. m + 1 PROVE t[i].arrival > s[i].arrival
      BY <1>1, <1>4, <1>7
    <2>1. i \in 1 .. m \/ i = m + 1
      BY <1>1
    <2> QED BY <1>1, <1>2, <1>5, <1>7, <2>1
  <1> QED BY <1>6, <1>7

\* What one released from the sequence leaves of it.
LEMMA Left ==
    ASSUME NEW q \in Seq(Holding), NEW r \in 1 .. Len(q), Rising(q), NEW n \in Nat,
           Bounded(q, n)
    PROVE  /\ Rising(RemoveAt(q, r)) /\ Bounded(RemoveAt(q, r), n)
           /\ Range(RemoveAt(q, r)) \subseteq Range(q) /\ q[r] \notin Range(RemoveAt(q, r))
  <1> DEFINE t == RemoveAt(q, r)
             m == Len(q)
  <1>1. /\ m \in Nat /\ r \in 1 .. m /\ DOMAIN q = 1 .. m
        /\ \A i \in 1 .. m : q[i] \in Holding
    BY LenProperties, ElementOfSeq
  <1>2. /\ DOMAIN t = 1 .. m - 1
        /\ \A i \in 1 .. m - 1 : t[i] = IF i < r THEN q[i] ELSE q[i + 1]
    BY Removed, LenProperties
  <1> HIDE DEF t, m
  <1>3. \A i \in 1 .. m : q[i].arrival \in Nat /\ q[i].arrival <= n
    BY <1>1 DEF Bounded, Holding
  <1> DEFINE from(i) == IF i < r THEN i ELSE i + 1
  <1>4. \A i \in 1 .. m - 1 : from(i) \in 1 .. m /\ from(i) # r /\ t[i] = q[from(i)]
    BY <1>1, <1>2
  <1>5. \A i, j \in 1 .. m - 1 : i < j => from(i) < from(j)
    BY <1>1
  <1> HIDE DEF from
  <1>6. Rising(t)
    BY <1>1, <1>2, <1>4, <1>5 DEF Rising
  <1>7. Bounded(t, n)
    BY <1>2, <1>3, <1>4 DEF Bounded
  <1>8. Range(t) \subseteq Range(q)
    BY <1>1, <1>2, <1>4 DEF Range
  <1>9. q[r] \notin Range(t)
    <2> SUFFICES ASSUME NEW i \in 1 .. m - 1, t[i] = q[r] PROVE FALSE
      BY <1>2 DEF Range
    <2>1. PICK k \in 1 .. m : k # r /\ q[k] = q[r]
      BY <1>4
    <2>2. k < r \/ r < k
      BY <1>1, <2>1
    <2>3. q[k].arrival < q[r].arrival \/ q[r].arrival < q[k].arrival
      BY <1>1, <2>2 DEF Rising
    <2> QED BY <1>1, <1>3, <2>1, <2>3
  <1> QED BY <1>6, <1>7, <1>8, <1>9 DEF t

\* Those that stood behind one that is released each move up by one.
LEMMA NamedRemoved ==
    ASSUME NEW q \in Seq(Holding), NEW s \in Seq(Holding), NEW r \in 1 .. Len(q),
           Rising(q), NEW n \in Nat, Bounded(q, n), Named(s, q)
    PROVE  Named(s, RemoveAt(q, r))
  <1> DEFINE t == RemoveAt(q, r)
             m == Len(q)
  <1>1. /\ m \in Nat /\ r \in 1 .. m /\ DOMAIN q = 1 .. m
        /\ \A i \in 1 .. m : q[i] \in Holding
    BY LenProperties, ElementOfSeq
  <1>2. /\ DOMAIN t = 1 .. m - 1
        /\ \A i \in 1 .. m - 1 : t[i] = IF i < r THEN q[i] ELSE q[i + 1]
    BY Removed, LenProperties
  <1>3. Range(t) \subseteq Range(q) /\ q[r] \notin Range(t)
    BY Left
  <1>4. DOMAIN s = 1 .. Len(s) /\ Len(s) \in Nat /\ \A i \in 1 .. Len(s) : s[i] \in Holding
    BY LenProperties, ElementOfSeq
  <1> HIDE DEF t, m
  <1>5. \A i \in 1 .. m : q[i].arrival \in Nat
    BY <1>1 DEF Holding
  <1>6. \A i \in 1 .. Len(s) : s[i].arrival \in Nat
    BY <1>4 DEF Holding
  <1> SUFFICES ASSUME NEW i \in 1 .. Len(s)
               PROVE  IF StillThere(s, t, i) THEN i \in DOMAIN t /\ t[i] = s[i]
                      ELSE i \in DOMAIN t => t[i].arrival > s[i].arrival
    BY <1>4 DEF Named, t
  <1>7. StillThere(s, t, i) => StillThere(s, q, i)
    BY <1>3 DEF StillThere
  <1>8. ASSUME StillThere(s, q, i), NEW j \in 1 .. i
        PROVE  j \in 1 .. m /\ q[j] = s[j]
    <2>1. j \in DOMAIN s /\ StillThere(s, q, j)
      BY <1>4, <1>8 DEF StillThere
    <2> QED BY <1>1, <2>1 DEF Named
  <1>9. CASE StillThere(s, t, i)
    <2>1. i \in 1 .. m /\ q[i] = s[i]
      BY <1>7, <1>8, <1>9
    <2>2. i < r
      <3>1. ~(r \in 1 .. i)
        <4> SUFFICES ASSUME r \in 1 .. i PROVE FALSE
          OBVIOUS
        <4>1. q[r] = s[r]
          BY <1>7, <1>8, <1>9
        <4> QED BY <1>3, <1>9, <4>1 DEF StillThere
      <3> QED BY <1>1, <3>1
    <2>3. i \in 1 .. m - 1
      BY <1>1, <2>1, <2>2
    <2> QED BY <1>2, <1>9, <2>1, <2>2, <2>3
  <1>10. CASE ~StillThere(s, t, i)
    <2> SUFFICES ASSUME i \in 1 .. m - 1 PROVE t[i].arrival > s[i].arrival
      BY <1>2, <1>10
    <2>0. i \in 1 .. m /\ i + 1 \in 1 .. m /\ q[i].arrival < q[i + 1].arrival
      BY <1>1 DEF Rising
    <2>1. CASE StillThere(s, q, i)
      <3>1. r <= i
        <4> SUFFICES ASSUME i < r PROVE FALSE
          BY <1>1
        <4>1. ASSUME NEW j \in 1 .. i PROVE s[j] \in Range(t)
          <5>1. q[j] = s[j]
            BY <1>8, <2>1
          <5>2. j \in 1 .. m - 1 /\ t[j] = q[j]
            BY <1>1, <1>2
          <5> QED BY <1>2, <5>1, <5>2 DEF Range
        <4> QED BY <1>10, <4>1 DEF StillThere
      <3>2. t[i] = q[i + 1] /\ q[i] = s[i]
        BY <1>1, <1>2, <1>8, <2>1, <3>1
      <3> QED BY <1>5, <2>0, <3>2
    <2>2. CASE ~StillThere(s, q, i)
      <3>1. q[i].arrival > s[i].arrival
        BY <1>1, <1>4, <2>0, <2>2 DEF Named
      <3>2. t[i] = q[i] \/ t[i] = q[i + 1]
        BY <1>2
      <3>3. /\ q[i].arrival \in Nat /\ q[i + 1].arrival \in Nat /\ s[i].arrival \in Nat
            /\ q[i].arrival < q[i + 1].arrival
        BY <1>5, <1>6, <2>0
      <3>4. q[i + 1].arrival > s[i].arrival
        BY <3>1, <3>3
      <3>5. CASE t[i] = q[i]
        BY <3>1, <3>5
      <3>6. CASE t[i] = q[i + 1]
        BY <3>4, <3>6
      <3> QED BY <3>2, <3>5, <3>6
    <2> QED BY <2>1, <2>2
  <1> QED BY <1>9, <1>10

LEMMA InitSeen == Init => SeenInv
  <1> SUFFICES ASSUME Init PROVE SeenInv
    OBVIOUS
  <1>1. quarantined = << >> /\ \A o \in Operators : seen[o] = << >>
    BY DEF Init
  <1>2. DOMAIN << >> = {}
    OBVIOUS
  <1> QED BY <1>1, <1>2 DEF SeenInv, Rising, Bounded, Named

\* What one more arrival leaves of the bound on those before.
LEMMA BoundGrows ==
    ASSUME NEW s \in Seq(Holding), NEW n \in Nat, Bounded(s, n)
    PROVE  Bounded(s, n + 1)
  <1>1. DOMAIN s = 1 .. Len(s) /\ \A i \in DOMAIN s : s[i] \in Holding
    BY LenProperties, ElementOfSeq
  <1>2. \A i \in DOMAIN s : s[i].arrival \in Nat /\ s[i].arrival <= n
    BY <1>1 DEF Bounded, Holding
  <1> QED BY <1>2 DEF Bounded

LEMMA NextSeen ==
    ASSUME Kinds, SeenInv, [Next]_vars
    PROVE  SeenInv'
  <1>0. /\ quarantined \in Seq(Holding) /\ seen \in [Operators -> Seq(Holding)]
        /\ decisions \in [Actions -> Nat] /\ "quarantine" \in Actions
        /\ decisions["quarantine"] \in Nat
    BY DEF Kinds, Actions
  <1>1. CASE UNCHANGED <<decisions, quarantined, seen>>
    BY <1>1 DEF SeenInv
  <1>2. ASSUME NEW c \in Calls \cup Outputs, NEW d, d.action \in Actions, _record(c, d),
               UNCHANGED seen
        PROVE  SeenInv'
    <2> DEFINE n == decisions["quarantine"]
    <2>1. CASE d.action # "quarantine"
      <3>1. quarantined' = quarantined /\ decisions'["quarantine"] = n
        BY <1>0, <1>2, <2>1 DEF _record
      <3> QED BY <1>2, <3>1 DEF SeenInv
    <2>2. CASE d.action = "quarantine"
      <3> DEFINE e == Arriving(c)
      <3>1. quarantined' = Append(quarantined, e) /\ decisions'["quarantine"] = n + 1
        BY <1>0, <1>2, <2>2 DEF _record, Held
      <3>2. e \in Holding /\ e.arrival = n + 1
        BY <1>0 DEF Arriving, Holding
      <3> HIDE DEF e
      <3>3. Rising(quarantined') /\ Bounded(quarantined', n + 1)
        BY <1>0, <3>1, <3>2, RisingAppended DEF SeenInv
      <3>4. ASSUME NEW o \in Operators
            PROVE  Bounded(seen[o], n + 1) /\ Named(seen[o], quarantined')
        <4>1. seen[o] \in Seq(Holding) /\ Bounded(seen[o], n) /\ Named(seen[o], quarantined)
          BY <1>0 DEF SeenInv
        <4>2. Bounded(seen[o], n + 1)
          BY <1>0, <4>1, BoundGrows
        <4> QED BY <1>0, <3>1, <3>2, <4>1, <4>2, NamedAppended
      <3> QED BY <1>2, <3>1, <3>3, <3>4 DEF SeenInv
    <2> QED BY <2>1, <2>2
  <1>3. ASSUME NEW c \in Calls, evaluate_call(c) PROVE SeenInv'
    <2>1. UNCHANGED seen /\ (UNCHANGED proxy \/ _record(c, Decision(c)))
      BY <1>3, Evaluated
    <2>2. c \in Calls \cup Outputs /\ Decision(c).action \in Actions
      BY DecisionIsFirst
    <2> QED BY <1>1, <1>2, <2>1, <2>2 DEF proxy
  <1>4. ASSUME NEW o \in Outputs, intercept_output(o) PROVE SeenInv'
    <2>1. UNCHANGED seen /\ _record(o, [action |-> Thresholded(o.output_score)])
      BY <1>4 DEF intercept_output
    <2>2. o \in Calls \cup Outputs /\ Thresholded(o.output_score) \in Actions
      BY Fields, ThresholdedKind DEF Actions
    <2> QED BY <1>2, <2>1, <2>2
  <1>5. ASSUME NEW o \in Operators, get_quarantined(o) PROVE SeenInv'
    <2>1. /\ UNCHANGED <<quarantined, decisions>>
          /\ seen' = [seen EXCEPT ![o] = quarantined]
      BY <1>5 DEF get_quarantined, proxy
    <2>2. ASSUME NEW p \in Operators
          PROVE  /\ Bounded(seen'[p], decisions["quarantine"])
                 /\ Named(seen'[p], quarantined)
      <3>1. CASE p = o
        <4>1. seen'[p] = quarantined
          BY <1>0, <2>1, <3>1
        <4> QED BY <1>0, <4>1, NamedItself DEF SeenInv
      <3>2. CASE p # o
        <4>1. seen'[p] = seen[p]
          BY <1>0, <2>1, <3>2
        <4> QED BY <4>1 DEF SeenInv
      <3> QED BY <3>1, <3>2
    <2> QED BY <2>1, <2>2 DEF SeenInv
  <1>6. ASSUME NEW o \in Operators, NEW i \in DOMAIN seen[o], release_quarantined(o, i)
        PROVE  SeenInv'
    <2>1. UNCHANGED <<seen, decisions>>
      BY <1>6 DEF release_quarantined
    <2>2. CASE UNCHANGED quarantined
      BY <1>1, <2>1, <2>2
    <2>3. CASE i \in DOMAIN quarantined /\ quarantined' = RemoveAt(quarantined, i)
      <3>1. i \in 1 .. Len(quarantined)
        BY <1>0, <2>3, LenProperties
      <3>2. Rising(quarantined') /\ Bounded(quarantined', decisions["quarantine"])
        BY <1>0, <2>3, <3>1, Left DEF SeenInv
      <3>3. ASSUME NEW p \in Operators PROVE Named(seen[p], quarantined')
        BY <1>0, <2>3, <3>1, NamedRemoved DEF SeenInv
      <3> QED BY <2>1, <3>2, <3>3 DEF SeenInv
    <2> QED BY <1>6, <2>2, <2>3 DEF release_quarantined
  <1>7. \/ UNCHANGED <<decisions, quarantined, seen>>
        \/ \E c \in Calls : evaluate_call(c)
        \/ \E o \in Outputs : intercept_output(o)
        \/ \E o \in Operators : get_quarantined(o)
        \/ \E o \in Operators : \E i \in DOMAIN seen[o] : release_quarantined(o, i)
    BY DEF Next, vars, proxy, add_rule, add_egress_rule, register_server
  <1> QED BY <1>1, <1>3, <1>4, <1>5, <1>6, <1>7

\* Whatever has arrived and whoever has released since, an index from
\* get_quarantined() is that of the entry an operator saw there exactly while
\* none of those seen up to it is released, and never of an earlier one
\* (layers/proxy.py:143-149).
THEOREM IndicesNameSeen == Spec => []IndexNamesSeen
  <1>1. SeenInv => IndexNamesSeen
    BY DEF SeenInv, Named, StillThere, IndexNamesSeen
  <1> QED BY <1>1, InitKinds, NextKinds, InitSeen, NextSeen, PTL DEF Spec
-----------------------------------------------------------------------------
(* The counts. *)

\* Calls the proxy stopped, calls it let pass, and verdicts given after it.
StoppedCalls == (decisions["block"] - outputs["block"])
                 + (decisions["quarantine"] - outputs["quarantine"])
PassedCalls == (decisions["allow"] - outputs["allow"]) + (decisions["redact"] - outputs["redact"])
BeyondProxy == verdicts[0] + verdicts[3] + verdicts[4] + verdicts[5]

\* Calls the egress policy let pass, and those it denied.
Granted == egress_decisions[TRUE]
Denied == egress_decisions[FALSE]

\* StatsAgree without its local names.
LEMMA StatsExpanded ==
    StatsAgree <=>
      /\ counts = [blocked |-> decisions["block"], allowed |-> decisions["allow"]]
      /\ verdicts[2] = StoppedCalls
      /\ BeyondProxy <= PassedCalls /\ PassedCalls <= BeyondProxy + raised
      /\ verdicts[5] = Denied /\ verdicts[0] >= Granted
      /\ Len(quarantined) + released = decisions["quarantine"]
  BY DEF StatsAgree, StoppedCalls, PassedCalls, BeyondProxy, Granted, Denied

LEMMA InitStats == Init => StatsAgree
  <1> SUFFICES ASSUME Init PROVE StatsAgree
    OBVIOUS
  <1>1. /\ counts = [blocked |-> 0, allowed |-> 0] /\ raised = 0 /\ released = 0
        /\ Len(quarantined) = 0
        /\ Denied = 0 /\ Granted = 0
    BY EmptySeq DEF Init, Granted, Denied
  <1>2. \A a \in Actions : decisions[a] = 0 /\ outputs[a] = 0
    BY DEF Init
  <1>3. /\ decisions["block"] = 0 /\ decisions["quarantine"] = 0
        /\ decisions["allow"] = 0 /\ decisions["redact"] = 0
        /\ outputs["block"] = 0 /\ outputs["quarantine"] = 0
        /\ outputs["allow"] = 0 /\ outputs["redact"] = 0
    BY <1>2 DEF Actions
  <1>4. \A l \in 0 .. 5 : verdicts[l] = 0
    BY DEF Init
  <1>5. verdicts[0] = 0 /\ verdicts[2] = 0 /\ verdicts[3] = 0 /\ verdicts[4] = 0 /\ verdicts[5] = 0
    BY <1>4
  <1>6. StoppedCalls = 0 /\ PassedCalls = 0 /\ BeyondProxy = 0
    BY <1>3, <1>5 DEF StoppedCalls, PassedCalls, BeyondProxy
  <1> QED BY <1>1, <1>3, <1>5, <1>6, StatsExpanded

\* The values the counts are compared by.
LEMMA CountsAreNats ==
    ASSUME Kinds
    PROVE  /\ \A a \in {"allow", "block", "quarantine", "redact"} :
                decisions[a] \in Nat /\ outputs[a] \in Nat
           /\ \A l \in {0, 2, 3, 4, 5} : verdicts[l] \in Nat
           /\ Granted \in Nat /\ Denied \in Nat
           /\ raised \in Nat /\ released \in Nat /\ Len(quarantined) \in Nat
  <1>1. Len(quarantined) \in Nat
    BY LenProperties DEF Kinds
  <1>2. /\ decisions \in [Actions -> Nat] /\ outputs \in [Actions -> Nat]
        /\ verdicts \in [0 .. 5 -> Nat] /\ egress_decisions \in [BOOLEAN -> Nat]
        /\ raised \in Nat /\ released \in Nat
    BY DEF Kinds
  <1>3. \A l \in {0, 2, 3, 4, 5} : verdicts[l] \in Nat
    <2>1. \A l \in {0, 2, 3, 4, 5} : l \in 0 .. 5
      OBVIOUS
    <2> QED BY <1>2, <2>1
  <1>4. \A a \in {"allow", "block", "quarantine", "redact"} : decisions[a] \in Nat /\ outputs[a] \in Nat
    BY <1>2 DEF Actions
  <1>5. Granted \in Nat /\ Denied \in Nat
    BY <1>2 DEF Granted, Denied
  <1> QED BY <1>1, <1>2, <1>3, <1>4, <1>5

\* What the proxy counts of a decision.
LEMMA Recorded ==
    ASSUME Kinds, StatsAgree, NEW c \in Calls \cup Outputs, NEW d, NEW a \in Actions,
           d.action = a, _record(c, d)
    PROVE  /\ counts' = [blocked |-> decisions'["block"], allowed |-> decisions'["allow"]]
           /\ \A x \in {"allow", "block", "quarantine", "redact"} :
                decisions'[x] = IF x = a THEN decisions[x] + 1 ELSE decisions[x]
           /\ Len(quarantined') + released' = decisions'["quarantine"]
  <1>1. decisions' = [decisions EXCEPT ![a] = @ + 1]
    BY DEF _record
  <1>2. \A x \in Actions : decisions'[x] = IF x = a THEN decisions[x] + 1 ELSE decisions[x]
    BY <1>1, CountUp DEF Kinds
  <1>3. /\ counts.blocked = decisions["block"] /\ counts.allowed = decisions["allow"]
        /\ Len(quarantined) + released = decisions["quarantine"]
    BY StatsExpanded
  <1>4. decisions["block"] \in Nat /\ decisions["allow"] \in Nat /\ decisions["quarantine"] \in Nat
        /\ released \in Nat /\ Len(quarantined) \in Nat
    BY CountsAreNats
  <1>5. counts' = [blocked |-> decisions'["block"], allowed |-> decisions'["allow"]]
    <2>1. counts' = [blocked |-> counts.blocked + (IF a = "block" THEN 1 ELSE 0),
                     allowed |-> counts.allowed + (IF a = "allow" THEN 1 ELSE 0)]
      BY DEF _record, Counted
    <2>2. counts.blocked + (IF a = "block" THEN 1 ELSE 0) = decisions'["block"]
      BY <1>2, <1>3, <1>4 DEF Actions
    <2>3. counts.allowed + (IF a = "allow" THEN 1 ELSE 0) = decisions'["allow"]
      BY <1>2, <1>3, <1>4 DEF Actions
    <2> QED BY <2>1, <2>2, <2>3
  <1>6. Len(quarantined') + released' = decisions'["quarantine"]
    <2>1. decisions'["quarantine"] = IF a = "quarantine" THEN decisions["quarantine"] + 1
                                     ELSE decisions["quarantine"]
      BY <1>2 DEF Actions
    <2>2. released' = released
      BY DEF _record
    <2>3. Len(quarantined') = IF a = "quarantine" THEN Len(quarantined) + 1 ELSE Len(quarantined)
      <3>1. quarantined \in Seq(Holding)
        BY DEF Kinds
      <3> QED BY <3>1, AppendProperties DEF _record, Held
    <2> QED BY <1>3, <1>4, <2>1, <2>2, <2>3
  <1> QED BY <1>2, <1>5, <1>6 DEF Actions

LEMMA VerdictCounted ==
    ASSUME Kinds, NEW by \in 0 .. 5, Verdict(by)
    PROVE  /\ \A l \in {0, 2, 3, 4, 5} :
                verdicts'[l] = IF l = by THEN verdicts[l] + 1 ELSE verdicts[l]
           /\ raised' = raised
  <1> DEFINE D == 0 .. 5
  <1>1. verdicts \in [D -> Nat] /\ by \in D
    BY DEF Kinds
  <1>2. \A l \in {0, 2, 3, 4, 5} : l \in D
    OBVIOUS
  <1> HIDE DEF D
  <1>3. \A l \in D : verdicts'[l] = IF l = by THEN verdicts[l] + 1 ELSE verdicts[l]
    BY <1>1, CountUp DEF Verdict
  <1> QED BY <1>2, <1>3 DEF Verdict

\* The numbers StatsAgree compares, before and after a decision on a call.
LEMMA CallsCounted ==
    ASSUME Kinds, outputs' = outputs, NEW a \in {"allow", "block", "quarantine", "redact"},
           \A x \in {"allow", "block", "quarantine", "redact"} :
              decisions'[x] = IF x = a THEN decisions[x] + 1 ELSE decisions[x]
    PROVE  /\ StoppedCalls \in Int /\ PassedCalls \in Int
           /\ a \in {"block", "quarantine"} =>
                StoppedCalls' = StoppedCalls + 1 /\ PassedCalls' = PassedCalls
           /\ a \in {"allow", "redact"} =>
                StoppedCalls' = StoppedCalls /\ PassedCalls' = PassedCalls + 1
  <1>1. \A x \in {"allow", "block", "quarantine", "redact"} :
          decisions[x] \in Nat /\ outputs[x] \in Nat
    BY CountsAreNats
  <1>2. /\ StoppedCalls' = (decisions'["block"] - outputs["block"])
                            + (decisions'["quarantine"] - outputs["quarantine"])
        /\ PassedCalls' = (decisions'["allow"] - outputs["allow"])
                            + (decisions'["redact"] - outputs["redact"])
    BY DEF StoppedCalls, PassedCalls
  <1> QED BY <1>1, <1>2 DEF StoppedCalls, PassedCalls

\* The same after a verdict.
LEMMA VerdictBeyond ==
    ASSUME Kinds, NEW by \in 0 .. 5, Verdict(by)
    PROVE  /\ BeyondProxy \in Int
           /\ BeyondProxy' = IF by \in {0, 3, 4, 5} THEN BeyondProxy + 1 ELSE BeyondProxy
           /\ verdicts'[0] = IF by = 0 THEN verdicts[0] + 1 ELSE verdicts[0]
           /\ verdicts'[2] = IF by = 2 THEN verdicts[2] + 1 ELSE verdicts[2]
           /\ verdicts'[5] = IF by = 5 THEN verdicts[5] + 1 ELSE verdicts[5]
           /\ raised' = raised
  <1>1. /\ \A l \in {0, 2, 3, 4, 5} :
             verdicts'[l] = IF l = by THEN verdicts[l] + 1 ELSE verdicts[l]
        /\ raised' = raised
    BY VerdictCounted
  <1>2. \A l \in {0, 2, 3, 4, 5} : verdicts[l] \in Nat
    BY CountsAreNats
  <1>3. BeyondProxy' = verdicts'[0] + verdicts'[3] + verdicts'[4] + verdicts'[5]
    BY DEF BeyondProxy
  <1> QED BY <1>1, <1>2, <1>3 DEF BeyondProxy

LEMMA CallStats ==
    ASSUME Kinds, StatsAgree, NEW c \in Calls, evaluate_call(c)
    PROVE  StatsAgree'
  <1> DEFINE a == Decision(c).action
             Sound == /\ verdicts[2] = StoppedCalls
                      /\ BeyondProxy <= PassedCalls /\ PassedCalls <= BeyondProxy + raised
                      /\ verdicts[5] = Denied
                      /\ verdicts[0] >= Granted
  <1>1. Sound /\ Len(quarantined) + released = decisions["quarantine"]
        /\ counts = [blocked |-> decisions["block"], allowed |-> decisions["allow"]]
    BY StatsExpanded
  <1>2. StatsAgree' <=>
          /\ Sound' /\ Len(quarantined') + released' = decisions'["quarantine"]
          /\ counts' = [blocked |-> decisions'["block"], allowed |-> decisions'["allow"]]
    BY DEF StatsAgree, StoppedCalls, PassedCalls, BeyondProxy, Granted, Denied
  <1>3. Sound' <=> /\ verdicts'[2] = StoppedCalls'
                   /\ BeyondProxy' <= PassedCalls' /\ PassedCalls' <= BeyondProxy' + raised'
                   /\ verdicts'[5] = Denied'
                   /\ verdicts'[0] >= Granted'
    OBVIOUS
  <1>4. outputs' = outputs
    BY Evaluated
  <1>5. /\ verdicts[0] \in Nat /\ verdicts[2] \in Nat /\ verdicts[5] \in Nat /\ raised \in Nat
        /\ Granted \in Nat /\ Denied \in Nat
        /\ StoppedCalls \in Int /\ PassedCalls \in Int /\ BeyondProxy \in Int
    <2>1. /\ \A x \in {"allow", "block", "quarantine", "redact"} :
               decisions[x] \in Nat /\ outputs[x] \in Nat
          /\ \A l \in {0, 2, 3, 4, 5} : verdicts[l] \in Nat
          /\ raised \in Nat /\ Granted \in Nat /\ Denied \in Nat
      BY CountsAreNats
    <2>2. StoppedCalls \in Int /\ PassedCalls \in Int
      BY <2>1 DEF StoppedCalls, PassedCalls
    <2>3. BeyondProxy \in Int
      BY <2>1 DEF BeyondProxy
    <2> QED BY <2>1, <2>2, <2>3
  <1>6. /\ verdicts[2] = StoppedCalls
        /\ BeyondProxy <= PassedCalls /\ PassedCalls <= BeyondProxy + raised
        /\ verdicts[5] = Denied /\ verdicts[0] >= Granted
    BY <1>1
  <1> HIDE DEF Sound
  <1>7. ASSUME UNCHANGED <<proxy, egress_decisions>>, Verdict(1) \/ Raise
        PROVE  StatsAgree'
    <2>1. /\ decisions' = decisions /\ counts' = counts /\ quarantined' = quarantined
          /\ released' = released /\ Granted' = Granted /\ Denied' = Denied
      BY <1>7 DEF proxy, Granted, Denied
    <2>2. StoppedCalls' = StoppedCalls /\ PassedCalls' = PassedCalls
      BY <1>4, <2>1 DEF StoppedCalls, PassedCalls
    <2>3. CASE Verdict(1)
      <3>1. /\ BeyondProxy' = BeyondProxy /\ raised' = raised /\ verdicts'[0] = verdicts[0]
            /\ verdicts'[2] = verdicts[2] /\ verdicts'[5] = verdicts[5]
        BY <2>3, VerdictBeyond
      <3>2. Sound'
        BY <1>3, <1>6, <2>1, <2>2, <3>1
      <3> QED BY <1>1, <1>2, <2>1, <3>2
    <2>4. CASE Raise
      <3>1. verdicts' = verdicts /\ raised' = raised + 1
        BY <2>4 DEF Raise
      <3>2. BeyondProxy' = BeyondProxy
        BY <3>1 DEF BeyondProxy
      <3>3. Sound'
        BY <1>3, <1>5, <1>6, <2>1, <2>2, <3>1, <3>2
      <3> QED BY <1>1, <1>2, <2>1, <3>3
    <2> QED BY <1>7, <2>3, <2>4
  <1>8. a \in {"allow", "block", "quarantine", "redact"}
    BY DecisionIsFirst DEF Actions
  <1>9. ASSUME _record(c, Decision(c))
        PROVE  /\ Sound' => StatsAgree'
               /\ a \in {"block", "quarantine"} =>
                    StoppedCalls' = StoppedCalls + 1 /\ PassedCalls' = PassedCalls
               /\ a \in {"allow", "redact"} =>
                    StoppedCalls' = StoppedCalls /\ PassedCalls' = PassedCalls + 1
    <2>1. /\ counts' = [blocked |-> decisions'["block"], allowed |-> decisions'["allow"]]
          /\ \A x \in {"allow", "block", "quarantine", "redact"} :
               decisions'[x] = IF x = a THEN decisions[x] + 1 ELSE decisions[x]
          /\ Len(quarantined') + released' = decisions'["quarantine"]
      BY <1>9, Recorded, DecisionIsFirst
    <2> HIDE DEF a
    <2> QED BY <1>2, <1>4, <1>8, <2>1, CallsCounted
  <1> HIDE DEF a
  <1>10. ASSUME _record(c, Decision(c)), a \notin {"allow", "redact"}, Verdict(2),
                UNCHANGED egress_decisions
         PROVE  StatsAgree'
    <2>1. StoppedCalls' = StoppedCalls + 1 /\ PassedCalls' = PassedCalls
      BY <1>8, <1>9, <1>10
    <2>2. /\ BeyondProxy' = BeyondProxy /\ raised' = raised /\ verdicts'[0] = verdicts[0]
          /\ verdicts'[2] = verdicts[2] + 1 /\ verdicts'[5] = verdicts[5]
      BY <1>10, VerdictBeyond
    <2>3. Granted' = Granted /\ Denied' = Denied
      BY <1>10 DEF Granted, Denied
    <2>4. Sound'
      BY <1>3, <1>5, <1>6, <2>1, <2>2, <2>3
    <2> QED BY <1>9, <1>10, <2>4
  <1>11. ASSUME _record(c, Decision(c)), a \in {"allow", "redact"},
                \/ UNCHANGED egress_decisions
                   /\ (Verdict(0) \/ Verdict(3) \/ Verdict(4) \/ Raise)
                \/ /\ egress_decisions' = [egress_decisions EXCEPT ![EgressAllows(c)] = @ + 1]
                   /\ Verdict(IF EgressAllows(c) THEN 0 ELSE 5)
         PROVE  StatsAgree'
    <2>1. StoppedCalls' = StoppedCalls /\ PassedCalls' = PassedCalls + 1
      BY <1>9, <1>11
    <2>2. CASE UNCHANGED egress_decisions /\ Raise
      <3>1. /\ verdicts' = verdicts /\ raised' = raised + 1
            /\ Granted' = Granted /\ Denied' = Denied
        BY <2>2 DEF Raise, Granted, Denied
      <3>2. BeyondProxy' = BeyondProxy
        BY <3>1 DEF BeyondProxy
      <3>3. Sound'
        BY <1>3, <1>5, <1>6, <2>1, <3>1, <3>2
      <3> QED BY <1>9, <1>11, <3>3
    <2>3. ASSUME NEW l \in {0, 3, 4}, UNCHANGED egress_decisions, Verdict(l)
          PROVE  StatsAgree'
      <3>1. l \in 0 .. 5
        OBVIOUS
      <3>2. /\ BeyondProxy' = BeyondProxy + 1 /\ raised' = raised
            /\ verdicts'[0] \in {verdicts[0], verdicts[0] + 1}
            /\ verdicts'[2] = verdicts[2] /\ verdicts'[5] = verdicts[5]
        BY <2>3, <3>1, VerdictBeyond
      <3>3. Granted' = Granted /\ Denied' = Denied
        BY <2>3 DEF Granted, Denied
      <3>4. Sound'
        BY <1>3, <1>5, <1>6, <2>1, <3>2, <3>3
      <3> QED BY <1>9, <1>11, <3>4
    <2>4. ASSUME NEW b \in BOOLEAN, b = EgressAllows(c),
                 egress_decisions' = [egress_decisions EXCEPT ![b] = @ + 1],
                 Verdict(IF b THEN 0 ELSE 5)
          PROVE  StatsAgree'
      <3>1. \A x \in BOOLEAN : egress_decisions'[x] = IF x = b THEN egress_decisions[x] + 1
                                                      ELSE egress_decisions[x]
        BY <2>4, CountUp DEF Kinds
      <3>2. CASE b = TRUE
        <4>1. /\ Granted' = Granted + 1
              /\ Denied' = Denied
          BY <3>1, <3>2 DEF Granted, Denied
        <4>2. Verdict(0)
          BY <2>4, <3>2
        <4>3. /\ BeyondProxy' = BeyondProxy + 1 /\ raised' = raised
              /\ verdicts'[0] = verdicts[0] + 1
              /\ verdicts'[2] = verdicts[2] /\ verdicts'[5] = verdicts[5]
          BY <4>2, VerdictBeyond
        <4>4. Sound'
          BY <1>3, <1>5, <1>6, <2>1, <4>1, <4>3
        <4> QED BY <1>9, <1>11, <4>4
      <3>3. CASE b = FALSE
        <4>1. /\ Granted' = Granted
              /\ Denied' = Denied + 1
          BY <3>1, <3>3 DEF Granted, Denied
        <4>2. Verdict(5)
          BY <2>4, <3>3
        <4>3. /\ BeyondProxy' = BeyondProxy + 1 /\ raised' = raised
              /\ verdicts'[0] = verdicts[0]
              /\ verdicts'[2] = verdicts[2] /\ verdicts'[5] = verdicts[5] + 1
          BY <4>2, VerdictBeyond
        <4>4. Sound'
          BY <1>3, <1>5, <1>6, <2>1, <4>1, <4>3
        <4> QED BY <1>9, <1>11, <4>4
      <3> QED BY <3>2, <3>3
    <2>5. EgressAllows(c) \in BOOLEAN
      BY ConfigAssumption DEF EgressAllows
    <2> QED BY <1>11, <2>2, <2>3, <2>4, <2>5
  <1> QED BY <1>7, <1>10, <1>11 DEF evaluate_call, Passes, a

\* An output counts among the decisions and among the outputs alike.
LEMMA OutputStats ==
    ASSUME Kinds, StatsAgree, NEW o \in Outputs, intercept_output(o)
    PROVE  StatsAgree'
  <1> DEFINE a == Thresholded(o.output_score)
             d == [action |-> a]
  <1>1. a \in {"allow", "block", "quarantine", "redact"} /\ a \in Actions /\ d.action = a
    BY Fields, ThresholdedKind DEF Actions
  <1>2. /\ _record(o, d) /\ outputs' = [outputs EXCEPT ![a] = @ + 1]
        /\ verdicts' = verdicts /\ egress_decisions' = egress_decisions /\ raised' = raised
    BY DEF intercept_output
  <1> HIDE DEF a, d
  <1>3. /\ counts' = [blocked |-> decisions'["block"], allowed |-> decisions'["allow"]]
        /\ \A x \in {"allow", "block", "quarantine", "redact"} :
             decisions'[x] = IF x = a THEN decisions[x] + 1 ELSE decisions[x]
        /\ Len(quarantined') + released' = decisions'["quarantine"]
    BY <1>1, <1>2, Recorded
  <1>4. \A x \in {"allow", "block", "quarantine", "redact"} :
           outputs'[x] = IF x = a THEN outputs[x] + 1 ELSE outputs[x]
    BY <1>1, <1>2, CountUp DEF Kinds, Actions
  <1>5. \A x \in {"allow", "block", "quarantine", "redact"} :
           decisions[x] \in Nat /\ outputs[x] \in Nat
    BY CountsAreNats
  <1>6. \A x \in {"allow", "block", "quarantine", "redact"} :
           decisions'[x] - outputs'[x] = decisions[x] - outputs[x]
    <2> TAKE x \in {"allow", "block", "quarantine", "redact"}
    <2>1. decisions[x] \in Nat /\ outputs[x] \in Nat
      BY <1>5
    <2>2. /\ decisions'[x] = IF x = a THEN decisions[x] + 1 ELSE decisions[x]
          /\ outputs'[x] = IF x = a THEN outputs[x] + 1 ELSE outputs[x]
      BY <1>3, <1>4
    <2> QED BY <2>1, <2>2
  <1>7. StoppedCalls' = StoppedCalls /\ PassedCalls' = PassedCalls
    <2>1. /\ StoppedCalls' = (decisions'["block"] - outputs'["block"])
                              + (decisions'["quarantine"] - outputs'["quarantine"])
          /\ PassedCalls' = (decisions'["allow"] - outputs'["allow"])
                              + (decisions'["redact"] - outputs'["redact"])
      BY DEF StoppedCalls, PassedCalls
    <2> QED BY <1>6, <2>1 DEF StoppedCalls, PassedCalls
  <1>8. BeyondProxy' = BeyondProxy /\ Granted' = Granted /\ Denied' = Denied
    BY <1>2 DEF BeyondProxy, Granted, Denied
  <1>9. StatsAgree' <=>
          /\ counts' = [blocked |-> decisions'["block"], allowed |-> decisions'["allow"]]
          /\ verdicts'[2] = StoppedCalls'
          /\ BeyondProxy' <= PassedCalls' /\ PassedCalls' <= BeyondProxy' + raised'
          /\ verdicts'[5] = Denied' /\ verdicts'[0] >= Granted'
          /\ Len(quarantined') + released' = decisions'["quarantine"]
    BY DEF StatsAgree, StoppedCalls, PassedCalls, BeyondProxy, Granted, Denied
  <1> QED BY <1>2, <1>3, <1>7, <1>8, <1>9, StatsExpanded

LEMMA NextStats ==
    ASSUME Kinds, StatsAgree, [Next]_vars
    PROVE  StatsAgree'
  <1>1. CASE UNCHANGED <<proxy, outputs, verdicts, egress_decisions, raised>>
    BY <1>1 DEF StatsAgree, proxy
  <1>2. ASSUME NEW o \in Operators, NEW i \in DOMAIN seen[o], release_quarantined(o, i)
        PROVE  StatsAgree'
    <2>1. CASE UNCHANGED <<quarantined, released>>
      BY <1>1, <1>2, <2>1 DEF release_quarantined, proxy
    <2>2. CASE /\ i \in DOMAIN quarantined /\ quarantined' = RemoveAt(quarantined, i)
               /\ released' = released + 1
      <3>1. quarantined \in Seq(Holding) /\ DOMAIN quarantined = 1 .. Len(quarantined)
            /\ Len(quarantined) \in Nat /\ released \in Nat
        BY LenProperties DEF Kinds
      <3>2. Len(quarantined') = Len(quarantined) - 1
        BY <2>2, <3>1, Removed
      <3>3. Len(quarantined') + released' = Len(quarantined) + released
        BY <2>2, <3>1, <3>2
      <3>4. /\ decisions' = decisions /\ counts' = counts /\ outputs' = outputs
            /\ verdicts' = verdicts /\ egress_decisions' = egress_decisions /\ raised' = raised
        BY <1>2 DEF release_quarantined
      <3> QED BY <3>3, <3>4 DEF StatsAgree
    <2> QED BY <1>2, <2>1, <2>2 DEF release_quarantined
  <1>3. \/ UNCHANGED <<proxy, outputs, verdicts, egress_decisions, raised>>
        \/ \E c \in Calls : evaluate_call(c)
        \/ \E o \in Outputs : intercept_output(o)
        \/ \E o \in Operators : \E i \in DOMAIN seen[o] : release_quarantined(o, i)
    BY DEF Next, vars, proxy, add_rule, add_egress_rule, register_server, get_quarantined
  <1> QED BY <1>1, <1>2, <1>3, CallStats, OutputStats

\* The counts that the layers and the orchestrator keep apart agree after every
\* call, output and release, also when an evaluation raises in the middle
\* (layers/orchestrator.py:200-215), and the rule that decides is the one meant to.
THEOREM CountsAgree == Spec => []LayersInv
  <1>1. Init => Kinds /\ StatsAgree
    BY InitKinds, InitStats
  <1>2. Kinds /\ StatsAgree /\ [Next]_vars => (Kinds /\ StatsAgree)'
    BY NextKinds, NextStats
  <1>3. Spec => [](Kinds /\ StatsAgree)
    BY <1>1, <1>2, PTL DEF Spec
  <1>4. TypeOK /\ StatsAgree /\ FirstRuleWins => LayersInv
    BY DEF LayersInv
  <1> QED BY <1>3, <1>4, TypeCorrect, PriorityDecides, PTL
=============================================================================
