---------------------------- MODULE AdvancedProofs ----------------------------
(***************************************************************************)
(* The advanced layer, for every value of its constants.  The drift        *)
(* detector's window and fields are what the history says they should be;  *)
(* a compromised tool has a failed check on record; a manifest verifies    *)
(* only as the team signed it; what the policies refuse they refuse for    *)
(* good; and the correlation engine finds the sequences that occur and no  *)
(* others.                                                                 *)
(***************************************************************************)
EXTENDS MCAdvanced, SequenceTheorems, FiniteSetTheorems, WellFoundedInduction, TLAPS
-----------------------------------------------------------------------------
(* The drift detector. *)

\* The last of a set of positions.
LEMMA LastExists ==
    ASSUME NEW n \in Nat, NEW S \in SUBSET (1 .. n), S # {}
    PROVE  Max(S) \in S /\ \A x \in S : x <= Max(S)
  <1> DEFINE Above == {x .. n : x \in S}
  <1>1. Above \subseteq FiniteSubsetsOf(1 .. n) /\ Above # {}
    <2>1. \A x \in S : IsFiniteSet(x .. n) /\ x .. n \subseteq 1 .. n
      BY FS_Interval
    <2> QED BY <2>1 DEF FiniteSubsetsOf
  <1>2. \E a \in Above : \A b \in Above : ~(<<b, a>> \in StrictSubsetOrdering(1 .. n))
    <2> HIDE DEF Above
    <2> QED BY <1>1, FS_StrictSubsetOrderingWellFounded, WFMin
  <1>3. PICK m \in S : \A x \in S : ~(<<x .. n, m .. n>> \in StrictSubsetOrdering(1 .. n))
    BY <1>2
  <1>4. ASSUME NEW x \in S, x > m PROVE FALSE
    <2>1. m \in m .. n /\ m \notin x .. n /\ x .. n \subseteq m .. n
      BY <1>4
    <2>2. x .. n \in SUBSET (1 .. n) /\ m .. n \in SUBSET (1 .. n)
      OBVIOUS
    <2> QED BY <1>3, <2>1, <2>2 DEF StrictSubsetOrdering
  <1>5. \A x \in S : m >= x
    BY <1>4
  <1>6. Max(S) \in S /\ \A x \in S : Max(S) >= x
    BY <1>5 DEF Max
  <1> QED BY <1>6

Samples == [input : Inputs, fields : SUBSET Fields]

\* The samples in the window are the last of those recorded, as many as fit.
Follows(b, r) ==
    /\ b \in Seq(Samples) /\ r \in Seq(Samples)
    /\ Len(b) = IF Len(r) > baseline_window THEN baseline_window ELSE Len(r)
    /\ \A k \in 1 .. Len(b) : b[k] = r[Len(r) - Len(b) + k]

\* The inductive invariant: the window is the last samples, and a field is known
\* when some sample ever had it.
DriftIInv ==
    /\ baselines \in [Tools -> Seq(Samples)] /\ recorded \in [Tools -> Seq(Samples)]
    /\ known_fields \in [Tools -> SUBSET Fields]
    /\ \A t \in Tools : Follows(baselines[t], recorded[t])
    /\ \A t \in Tools, f \in Fields :
          f \in known_fields[t] <=> \E k \in 1 .. Len(recorded[t]) : f \in recorded[t][k].fields

\* One more sample, and the window cut to its length.
LEMMA WindowFollows ==
    ASSUME NEW b, NEW r, Follows(b, r), NEW s \in Samples
    PROVE  Follows(LastOf(Append(b, s)), Append(r, s))
  <1> DEFINE q == Append(b, s)
             h == Append(r, s)
             w == baseline_window
             n == Len(r)
             m == Len(b)
  <1>1. /\ q \in Seq(Samples) /\ h \in Seq(Samples) /\ Len(q) = m + 1 /\ Len(h) = n + 1
        /\ n \in Nat /\ m \in Nat /\ w \in Nat /\ w >= 1
        /\ m = IF n > w THEN w ELSE n
    BY BaselineAssumption DEF Follows
  <1>2. \A k \in 1 .. m + 1 : q[k] = h[n - m + k]
    <2>1. \A k \in 1 .. m : q[k] = b[k] /\ b[k] = r[n - m + k]
      BY DEF Follows
    <2>2. \A k \in 1 .. m : n - m + k \in 1 .. n
      BY <1>1
    <2>3. \A j \in 1 .. n : h[j] = r[j]
      BY DEF Follows
    <2>4. q[m + 1] = s /\ h[n + 1] = s
      BY DEF Follows
    <2>5. ASSUME NEW k \in 1 .. m + 1 PROVE q[k] = h[n - m + k]
      <3>1. CASE k \in 1 .. m
        BY <2>1, <2>2, <2>3, <3>1
      <3>2. CASE k = m + 1
        <4>1. n - m + k = n + 1
          <5> HIDE DEF n, m
          <5> QED BY <1>1, <3>2
        <4> QED BY <2>4, <3>2, <4>1
      <3>3. k \in 1 .. m \/ k = m + 1
        BY <1>1
      <3> QED BY <3>1, <3>2, <3>3
    <2> QED BY <2>5
  <1> HIDE DEF q, h, n, m
  <1>3. CASE m + 1 > w
    <2> DEFINE z == SubSeq(q, m + 1 - w + 1, m + 1)
    <2>1. LastOf(q) = z /\ m = w
      BY <1>1, <1>3 DEF LastOf
    <2>2. z = SubSeq(q, 2, m + 1)
      BY <1>1, <2>1
    <2>3. z \in Seq(Samples) /\ Len(z) = m /\ \A k \in 1 .. m : z[k] = q[k + 1]
      <3>1. \A k \in 2 .. m + 1 : k \in 1 .. Len(q) /\ q[k] \in Samples
        BY <1>1
      <3>2. 2 \in Int /\ m + 1 \in Int /\ m + 1 - 2 + 1 = m
        BY <1>1
      <3> HIDE DEF z
      <3>3. z \in Seq(Samples) /\ Len(z) = m
        BY <1>1, <2>2, <3>1, <3>2
      <3>4. \A k \in 1 .. m : z[k] = q[k + 1]
        BY <1>1, <2>2, <3>2
      <3> QED BY <3>3, <3>4
    <2> HIDE DEF z
    <2>4. ASSUME NEW k \in 1 .. m PROVE z[k] = h[n + 1 - m + k]
      <3>1. k + 1 \in 1 .. m + 1 /\ n - m + (k + 1) = n + 1 - m + k
        BY <1>1
      <3> QED BY <1>2, <2>3, <3>1
    <2>5. Len(z) = IF Len(h) > w THEN w ELSE Len(h)
      BY <1>1, <2>1, <2>3
    <2>6. \A k \in 1 .. Len(z) : z[k] = h[Len(h) - Len(z) + k]
      BY <1>1, <2>3, <2>4
    <2>7. Follows(z, h)
      BY <1>1, <2>3, <2>5, <2>6 DEF Follows
    <2> QED BY <2>1, <2>7 DEF q, h
  <1>4. CASE ~(m + 1 > w)
    <2>1. LastOf(q) = q /\ m = n /\ ~(n + 1 > w)
      BY <1>1, <1>4 DEF LastOf
    <2>2. Len(q) = IF Len(h) > w THEN w ELSE Len(h)
      BY <1>1, <2>1
    <2>3. \A k \in 1 .. Len(q) : q[k] = h[Len(h) - Len(q) + k]
      <3>1. \A k \in 1 .. m + 1 : (n + 1) - (m + 1) + k = n - m + k
        BY <1>1
      <3> QED BY <1>1, <1>2, <3>1
    <2>4. Follows(q, h)
      BY <1>1, <2>2, <2>3 DEF Follows
    <2> QED BY <2>1, <2>4 DEF q, h
  <1> QED BY <1>3, <1>4

LEMMA DriftInvariant == DriftSpec => []DriftIInv
  <1>1. DriftInit => DriftIInv
    <2> SUFFICES ASSUME DriftInit PROVE DriftIInv
      OBVIOUS
    <2>1. \A t \in Tools : baselines[t] = << >> /\ recorded[t] = << >> /\ known_fields[t] = {}
      BY DEF DriftInit
    <2>2. Follows(<< >>, << >>)
      BY BaselineAssumption DEF Follows
    <2> QED BY <2>1, <2>2 DEF DriftInit, DriftIInv
  <1>2. DriftIInv /\ [DriftNext]_driftVars => DriftIInv'
    <2> SUFFICES ASSUME DriftIInv, [DriftNext]_driftVars PROVE DriftIInv'
      OBVIOUS
    <2>1. ASSUME NEW t \in Tools, NEW i \in Inputs, NEW o \in Outputs, record_baseline(t, i, o)
          PROVE  DriftIInv'
      <3> DEFINE s == Sample(i, o)
      <3>1. s \in Samples /\ s.fields = o.fields /\ o.fields \in SUBSET Fields
        BY OutputAssumption DEF Sample, Samples
      <3> HIDE DEF s
      <3>2. /\ baselines' = [baselines EXCEPT ![t] = LastOf(Append(baselines[t], s))]
            /\ recorded' = [recorded EXCEPT ![t] = Append(recorded[t], s)]
            /\ known_fields' = [known_fields EXCEPT ![t] = known_fields[t] \cup o.fields]
        BY <2>1 DEF record_baseline, s
      <3>3. Follows(LastOf(Append(baselines[t], s)), Append(recorded[t], s))
        BY <3>1, WindowFollows DEF DriftIInv
      <3>4. /\ baselines' \in [Tools -> Seq(Samples)] /\ recorded' \in [Tools -> Seq(Samples)]
            /\ known_fields' \in [Tools -> SUBSET Fields]
        BY <3>1, <3>2, <3>3 DEF DriftIInv, Follows
      <3>5. ASSUME NEW u \in Tools PROVE Follows(baselines'[u], recorded'[u])
        BY <3>2, <3>3 DEF DriftIInv
      <3>6. ASSUME NEW u \in Tools, NEW f \in Fields
            PROVE  f \in known_fields'[u] <=>
                     \E k \in 1 .. Len(recorded'[u]) : f \in recorded'[u][k].fields
        <4> DEFINE r == recorded[u]
        <4>1. r \in Seq(Samples) /\ Len(r) \in Nat
              /\ (f \in known_fields[u] <=> \E k \in 1 .. Len(r) : f \in r[k].fields)
          <5>1. r \in Seq(Samples)
            BY DEF DriftIInv
          <5>2. f \in known_fields[u] <=> \E k \in 1 .. Len(r) : f \in r[k].fields
            BY DEF DriftIInv
          <5> QED BY <5>1, <5>2
        <4>2. CASE u = t
          <5> DEFINE h == Append(r, s)
          <5>1. recorded'[u] = h /\ known_fields'[u] = known_fields[u] \cup o.fields
            BY <3>2, <4>2 DEF DriftIInv
          <5>2. /\ Len(h) = Len(r) + 1 /\ h[Len(r) + 1] = s
                /\ \A k \in 1 .. Len(r) : h[k] = r[k]
            BY <3>1, <4>1
          <5>3. \A k : k \in 1 .. Len(r) + 1 <=> k \in 1 .. Len(r) \/ k = Len(r) + 1
            BY <4>1
          <5> HIDE DEF h, r
          <5> QED BY <3>1, <4>1, <5>1, <5>2, <5>3
        <4>3. CASE u # t
          BY <3>2, <4>1, <4>3 DEF DriftIInv
        <4> QED BY <4>2, <4>3
      <3> QED BY <3>4, <3>5, <3>6 DEF DriftIInv
    <2>2. ASSUME NEW t \in Tools, NEW i \in Inputs, NEW o \in Outputs, check_drift(t, i, o)
          PROVE  DriftIInv'
      BY <2>2 DEF check_drift, DriftIInv
    <2>3. CASE UNCHANGED driftVars
      BY <2>3 DEF driftVars, DriftIInv
    <2> QED BY <2>1, <2>2, <2>3 DEF DriftNext
  <1> QED BY <1>1, <1>2, PTL DEF DriftSpec

\* A check finds what it would find of the whole history: a field is new when no
\* record ever had it, missed when all in the window have it, and an output
\* changed against the window's last record of its input (drift.py:116-166).
THEOREM DriftIsOfHistory == DriftSpec => []ChecksAgainstHistory
  <1>1. DriftIInv => ChecksAgainstHistory
    <2> SUFFICES ASSUME DriftIInv, NEW t \in Tools, NEW i \in Inputs, NEW o \in Outputs,
                        recorded[t] # << >>
                 PROVE  LET Has(k, f) == f \in recorded[t][k].fields
                            same == {k \in Recent(t) : recorded[t][k].input = i}
                            types == Drifted(t, i, o)
                        IN  /\ "new_field" \in types
                                 <=> \E f \in o.fields : \A k \in 1 .. Len(recorded[t]) : ~Has(k, f)
                            /\ "field_removed" \in types
                                 <=> \E f \in Fields \ o.fields : \A k \in Recent(t) : Has(k, f)
                            /\ "output_changed" \in types
                                 <=> same # {} /\ recorded[t][Max(same)].fields # o.fields
      BY DEF ChecksAgainstHistory
    <2> DEFINE b == baselines[t]
               r == recorded[t]
               n == Len(r)
               m == Len(b)
               d == n - m
               w == baseline_window
    <2>1. /\ Follows(b, r) /\ r # << >> /\ known_fields[t] \subseteq Fields
          /\ \A f \in Fields : f \in known_fields[t] <=> \E k \in 1 .. n : f \in r[k].fields
      BY DEF DriftIInv
    <2>2. o.fields \subseteq Fields
      BY OutputAssumption
    <2>3. /\ b \in Seq(Samples) /\ r \in Seq(Samples) /\ n \in Nat /\ m \in Nat
          /\ w \in Nat /\ w >= 1 /\ n >= 1
          /\ m = IF n > w THEN w ELSE n
          /\ \A k \in 1 .. m : b[k] = r[d + k]
      <3>1. /\ b \in Seq(Samples) /\ r \in Seq(Samples)
            /\ m = IF n > w THEN w ELSE n
            /\ \A k \in 1 .. m : b[k] = r[d + k]
        BY <2>1 DEF Follows
      <3>2. n \in Nat /\ m \in Nat /\ n # 0
        BY <2>1, <3>1
      <3>3. w \in Nat /\ w >= 1
        BY BaselineAssumption
      <3>4. n >= 1
        BY <3>2
      <3> QED BY <3>1, <3>2, <3>3, <3>4
    <2>4. /\ "new_field" \in Drifted(t, i, o) <=> o.fields \ known_fields[t] # {}
          /\ "field_removed" \in Drifted(t, i, o)
               <=> known_fields[t] # {} /\ AlwaysPresent(t) \ o.fields # {}
          /\ "output_changed" \in Drifted(t, i, o)
               <=> Matching(t, i) # {} /\ baselines[t][Max(Matching(t, i))].fields # o.fields
      <3>1. baselines[t] # << >>
        BY <2>3
      <3> QED BY <3>1 DEF Drifted
    <2>5. Recent(t) = {d + k : k \in 1 .. m} /\ Recent(t) \subseteq 1 .. n
      <3>1. Recent(t) = {k \in 1 .. n : k > n - w}
        BY DEF Recent
      <3> HIDE DEF r, b, n, m
      <3>2. d \in Nat /\ (n > w => d = n - w) /\ (n <= w => d = 0)
        BY <2>3
      <3> HIDE DEF d
      <3>3. \A k \in 1 .. n : k > n - w <=> k - d \in 1 .. m
        BY <2>3, <3>2 DEF d
      <3>4. \A j \in 1 .. m : d + j \in 1 .. n /\ (d + j) - d = j
        BY <2>3, <3>2 DEF d
      <3>5. \A k \in 1 .. n : k = d + (k - d)
        BY <3>2
      <3> QED BY <3>1, <3>3, <3>4, <3>5
    <2>6. "new_field" \in Drifted(t, i, o) <=> \E f \in o.fields : \A k \in 1 .. n : ~(f \in r[k].fields)
      BY <2>1, <2>2, <2>4
    <2>7. \A f \in Fields : f \in AlwaysPresent(t) <=> \A k \in Recent(t) : f \in r[k].fields
      <3>1. \A f \in Fields : f \in AlwaysPresent(t) <=> \A k \in 1 .. m : f \in b[k].fields
        BY DEF AlwaysPresent
      <3> HIDE DEF r, b, n, m, d
      <3>2. \A k \in 1 .. m : b[k] = r[d + k]
        BY <2>3 DEF d
      <3>3. \A f \in Fields :
               (\A k \in 1 .. m : f \in b[k].fields) <=> \A k \in 1 .. m : f \in r[d + k].fields
        BY <3>2
      <3>4. Recent(t) = {d + k : k \in 1 .. m}
        BY <2>5
      <3> QED BY <3>1, <3>3, <3>4
    <2>8. "field_removed" \in Drifted(t, i, o)
            <=> \E f \in Fields \ o.fields : \A k \in Recent(t) : f \in r[k].fields
      <3>1. \E k \in Recent(t) : k \in 1 .. n
        <4>1. m >= 1
          BY <2>3
        <4>2. 1 \in 1 .. m
          BY <2>3, <4>1
        <4> HIDE DEF m, n, d
        <4> QED BY <2>5, <4>2
      <3>2. AlwaysPresent(t) \subseteq Fields
        BY DEF AlwaysPresent
      <3>3. \A f \in AlwaysPresent(t) : f \in known_fields[t]
        BY <2>1, <2>7, <3>1, <3>2
      <3> QED BY <2>4, <2>7, <3>2, <3>3
    <2> DEFINE same == {k \in Recent(t) : r[k].input = i}
               match == Matching(t, i)
    <2>9. "output_changed" \in Drifted(t, i, o) <=> same # {} /\ r[Max(same)].fields # o.fields
      <3>1. match = {k \in 1 .. m : b[k].input = i}
        BY DEF Matching
      <3> HIDE DEF match, b, m, n, r, d
      <3>2. same = {d + k : k \in match}
        BY <2>3, <2>5, <3>1
      <3>3. d \in Int /\ match \in SUBSET (1 .. m) /\ same \in SUBSET (1 .. n)
        BY <2>3, <2>5, <3>1 DEF d
      <3>4. same # {} <=> match # {}
        BY <3>2
      <3>5. ASSUME match # {} PROVE r[Max(same)] = b[Max(match)]
        <4>1. Max(match) \in match /\ \A x \in match : x <= Max(match)
          BY <2>3, <3>3, <3>5, LastExists
        <4>2. Max(same) \in same /\ \A x \in same : x <= Max(same)
          BY <2>3, <3>3, <3>4, <3>5, LastExists
        <4> HIDE DEF same
        <4>3. PICK j \in match : Max(same) = d + j
          BY <3>2, <4>2
        <4>4. d + Max(match) \in same
          BY <3>2, <4>1
        <4>5. j <= Max(match) /\ d + Max(match) <= d + j
          BY <4>1, <4>2, <4>3, <4>4
        <4>6. j \in 1 .. m /\ Max(match) \in 1 .. m
          BY <3>3, <4>1, <4>3
        <4>7. j = Max(match)
          BY <3>3, <4>5, <4>6
        <4> QED BY <2>3, <4>3, <4>6, <4>7
      <3> QED BY <2>4, <3>4, <3>5 DEF match, b
    <2> QED BY <2>6, <2>8, <2>9
  <1> QED BY <1>1, DriftInvariant, PTL
-----------------------------------------------------------------------------
(* The canary. *)

\* The inductive invariant: what an id answered with a forbidden field has failed
\* on record.
CanaryIInv ==
    /\ history \in [Ids -> Seq({"pass", "fail", "drift"})]
    /\ exposed \subseteq Ids
    /\ \A id \in exposed : "fail" \in ToSet(history[id])

LEMMA CanaryInvariant == CanarySpec => []CanaryIInv
  <1>1. CanaryInit => CanaryIInv
    BY DEF CanaryInit, CanaryIInv
  <1>2. CanaryIInv /\ [CanaryNext]_canaryVars => CanaryIInv'
    <2> SUFFICES ASSUME CanaryIInv, [CanaryNext]_canaryVars PROVE CanaryIInv'
      OBVIOUS
    <2>1. ASSUME NEW id \in Ids, NEW r \in Responses, evaluate_response(id, r)
          PROVE  CanaryIInv'
      <3> DEFINE k == _find_probe(id)
                 s == Status(Violations(k, r))
                 h == history[id]
      <3>1. s \in {"pass", "fail", "drift"}
        BY DEF Status
      <3>2. probes[k].forbidden_fields \cap r.fields # {} => s = "fail"
        <4>1. probes[k].forbidden_fields \cap r.fields # {} => "forbidden_field" \in Violations(k, r)
          BY DEF Violations
        <4> QED BY <4>1 DEF Status
      <3>3. /\ history' = [history EXCEPT ![id] = Append(h, s)]
            /\ exposed' = exposed \/ (exposed' = exposed \cup {id} /\ s = "fail")
        BY <2>1, <3>2 DEF evaluate_response
      <3> HIDE DEF s
      <3>4. /\ h \in Seq({"pass", "fail", "drift"})
            /\ Append(h, s) \in Seq({"pass", "fail", "drift"})
        BY <3>1 DEF CanaryIInv
      <3>5. ToSet(Append(h, s)) = ToSet(h) \cup {s}
        <4> DEFINE n == Len(h)
                   q == Append(h, s)
        <4>1. /\ n \in Nat /\ DOMAIN h = 1 .. n /\ DOMAIN q = 1 .. n + 1
              /\ q[n + 1] = s /\ \A i \in 1 .. n : q[i] = h[i]
          BY <3>4, LenProperties
        <4> HIDE DEF h, n, q
        <4>2. \A i : i \in 1 .. n + 1 <=> i \in 1 .. n \/ i = n + 1
          BY <4>1
        <4>3. ToSet(q) = ToSet(h) \cup {s}
          BY <4>1, <4>2 DEF ToSet
        <4> QED BY <4>3 DEF q
      <3>6. \A j \in Ids : history'[j] = IF j = id THEN Append(h, s) ELSE history[j]
        BY <3>3 DEF CanaryIInv
      <3> QED BY <3>3, <3>4, <3>5, <3>6 DEF CanaryIInv
    <2>2. CASE UNCHANGED <<history, exposed>>
      BY <2>2 DEF CanaryIInv
    <2>3. ASSUME NEW p \in Probes, register_probe(p) PROVE UNCHANGED <<history, exposed>>
      BY <2>3 DEF register_probe
    <2>4. ASSUME NEW id \in Ids, NEW r \in Responses, update_baseline(id, r)
          PROVE  UNCHANGED <<history, exposed>>
      BY <2>4 DEF update_baseline
    <2>5. UNCHANGED canaryVars => UNCHANGED <<history, exposed>>
      BY DEF canaryVars
    <2> QED BY <2>1, <2>2, <2>3, <2>4, <2>5 DEF CanaryNext
  <1> QED BY <1>1, <1>2, PTL DEF CanarySpec

\* A forbidden field leaves its tool compromised for good (canary.py:165-168,
\* 201-228).
LEMMA CanaryCompromises == CanarySpec => []ForbiddenCompromises
  <1>1. CanaryIInv => ForbiddenCompromises
    BY DEF CanaryIInv, ForbiddenCompromises, get_tool_health
  <1> QED BY <1>1, CanaryInvariant, PTL
-----------------------------------------------------------------------------
(* The manifests. *)

Signatures == {Unsigned, Foreign} \cup [signed : Contents]

\* The inductive invariant: what bears the team's signature the team has signed.
ManifestIInv ==
    /\ manifest \in [Objects -> [content : Contents, signature : Signatures]]
    /\ registered \in [ToolKeys -> SUBSET Objects]
    /\ \A o \in Objects, c \in Contents :
          manifest[o].signature = Signature(c) => c \in signed

LEMMA ManifestInvariant == ManifestSpec => []ManifestIInv
  <1>1. ManifestInit => ManifestIInv
    <2> SUFFICES ASSUME ManifestInit PROVE ManifestIInv
      OBVIOUS
    <2>1. (CHOOSE c \in Contents : TRUE) \in Contents
      BY ContentsAssumption
    <2>2. \A c \in Contents : Unsigned # Signature(c)
      BY SignaturesAssumption DEF Signature
    <2> QED BY <2>1, <2>2 DEF ManifestInit, ManifestIInv, Signatures
  <1>2. ManifestIInv /\ [ManifestNext]_manifestVars => ManifestIInv'
    <2> SUFFICES ASSUME ManifestIInv, [ManifestNext]_manifestVars PROVE ManifestIInv'
      OBVIOUS
    <2>1. ASSUME NEW o \in Objects, sign(o) PROVE ManifestIInv'
      <3> DEFINE s == Signature(manifest[o].content)
      <3>1. manifest[o] \in [content : Contents, signature : Signatures]
        BY DEF ManifestIInv
      <3>2. s \in Signatures
        BY <3>1 DEF Signatures, Signature
      <3>3. \A p \in Objects : manifest'[p] = IF p = o THEN [manifest[o] EXCEPT !.signature = s]
                                              ELSE manifest[p]
        BY <2>1 DEF sign, ManifestIInv
      <3>4. manifest' \in [Objects -> [content : Contents, signature : Signatures]]
        BY <2>1, <3>1, <3>2 DEF sign, ManifestIInv
      <3>5. signed \subseteq signed' /\ manifest[o].content \in signed'
        BY <2>1 DEF sign
      <3>6. manifest'[o].signature = s
        BY <3>1, <3>3
      <3>7. \A c \in Contents : s = Signature(c) => manifest[o].content = c
        BY DEF Signature
      <3> HIDE DEF s
      <3> QED BY <2>1, <3>3, <3>4, <3>5, <3>6, <3>7 DEF sign, ManifestIInv
    <2>2. ASSUME NEW o \in Objects, NEW c \in Contents, Change(o, c) PROVE ManifestIInv'
      <3>1. manifest[o] \in [content : Contents, signature : Signatures]
        BY DEF ManifestIInv
      <3>2. manifest' = [manifest EXCEPT ![o] = [manifest[o] EXCEPT !.content = c]]
        BY <2>2 DEF Change
      <3>3. manifest' \in [Objects -> [content : Contents, signature : Signatures]]
        BY <3>1, <3>2 DEF ManifestIInv
      <3>4. \A p \in Objects : manifest'[p].signature = manifest[p].signature
        BY <3>1, <3>2 DEF ManifestIInv
      <3> QED BY <2>2, <3>3, <3>4 DEF Change, ManifestIInv
    <2>3. ASSUME NEW o \in Objects, NEW p \in Objects, Copy(o, p) PROVE ManifestIInv'
      BY <2>3 DEF Copy, ManifestIInv
    <2>4. ASSUME NEW o \in Objects, register_baseline(o) PROVE ManifestIInv'
      BY <2>4 DEF register_baseline, ManifestIInv
    <2>5. ASSUME NEW o \in Objects, sign_elsewhere(o) PROVE ManifestIInv'
      <3>1. manifest[o] \in [content : Contents, signature : Signatures] /\ Foreign \in Signatures
        BY DEF ManifestIInv, Signatures
      <3>2. manifest' = [manifest EXCEPT ![o] = [manifest[o] EXCEPT !.signature = Foreign]]
            /\ UNCHANGED <<registered, signed>>
        BY <2>5 DEF sign_elsewhere
      <3>3. manifest' \in [Objects -> [content : Contents, signature : Signatures]]
        BY <3>1, <3>2 DEF ManifestIInv
      <3>4. \A p \in Objects : manifest'[p].signature \in {Foreign, manifest[p].signature}
        BY <3>1, <3>2 DEF ManifestIInv
      <3>5. \A c \in Contents : Foreign # Signature(c)
        BY SignaturesAssumption DEF Signature
      <3> QED BY <3>2, <3>3, <3>4, <3>5 DEF ManifestIInv
    <2>6. CASE UNCHANGED manifestVars
      BY <2>6 DEF manifestVars, ManifestIInv
    <2> QED BY <2>1, <2>2, <2>3, <2>4, <2>5, <2>6 DEF ManifestNext
  <1> QED BY <1>1, <1>2, PTL DEF ManifestSpec

\* A manifest that verifies has the description, parameters and capabilities of one
\* the team signed for the same tool, of whatever version (manifest.py:117-148).
LEMMA ValidIsSigned == ManifestSpec => []ValidIsAsSigned
  <1>1. ManifestIInv => ValidIsAsSigned
    <2> SUFFICES ASSUME ManifestIInv, NEW o \in Objects, verify(o) = {}
                 PROVE  LET live == manifest[o].content
                        IN  \E c \in signed :
                               /\ c.description = live.description
                               /\ c.parameters = live.parameters
                               /\ c.capabilities = live.capabilities
                               /\ Baseline(live.key).content.key = live.key => c.key = live.key
      BY DEF ValidIsAsSigned
    <2> DEFINE live == manifest[o].content
               b == Baseline(live.key)
               base == b.content
    <2>1. live \in Contents /\ live.key \in ToolKeys
      BY ContentsAssumption DEF ManifestIInv
    <2>2. registered[live.key] # {}
      BY DEF verify
    <2>3. PICK p \in Objects : b = manifest[p]
      BY <2>1, <2>2 DEF ManifestIInv, Baseline
    <2>4. base \in Contents
      BY <2>3 DEF ManifestIInv
    <2> HIDE DEF b, live
    <2>5. /\ ~Tampered(b)
          /\ live.description = base.description
          /\ \A x \in Params : live.parameters[x] = base.parameters[x]
          /\ live.capabilities = base.capabilities
      <3> DEFINE Has(c, x) == c.parameters[x] # NoSchema
      <3>1. \A kind \in {"baseline_tampered", "description_drift", "params_added",
                         "params_removed", "param_modified", "capability_escalation",
                         "capability_reduction"} :
              ~(CASE kind = "baseline_tampered" -> Tampered(b)
                  [] kind = "description_drift" -> live.description # base.description
                  [] kind = "params_added"   -> \E x \in Params : Has(live, x) /\ ~Has(base, x)
                  [] kind = "params_removed" -> \E x \in Params : ~Has(live, x) /\ Has(base, x)
                  [] kind = "param_modified" -> \E x \in Params : Has(live, x) /\ Has(base, x)
                                                    /\ live.parameters[x] # base.parameters[x]
                  [] kind = "capability_escalation" -> live.capabilities \ base.capabilities # {}
                  [] kind = "capability_reduction"  -> base.capabilities \ live.capabilities # {})
        BY <2>2 DEF verify, b, live
      <3>2. ~Tampered(b) /\ live.description = base.description
        BY <3>1
      <3>3. \A x \in Params : live.parameters[x] = base.parameters[x]
        BY <3>1
      <3>4. live.capabilities \ base.capabilities = {} /\ base.capabilities \ live.capabilities = {}
        BY <3>1
      <3> QED BY <3>2, <3>3, <3>4
    <2>6. base \in signed
      BY <2>3, <2>4, <2>5 DEF ManifestIInv, Tampered
    <2>7. live.parameters = base.parameters
      BY <2>1, <2>4, <2>5, ContentsAssumption
    <2>8. base = Baseline(live.key).content
      BY DEF b
    <2> HIDE DEF base
    <2> QED BY <2>5, <2>6, <2>7, <2>8 DEF live
  <1> QED BY <1>1, ManifestInvariant, PTL
-----------------------------------------------------------------------------
(* The enforcer. *)

DeclaredInvariants == Range(BUILTIN_INVARIANTS) \cup CustomInvariants

\* The inductive invariant: what was asked was asked of some of the invariants.
EnforcerIInv ==
    /\ invariants \in Seq(DeclaredInvariants)
    /\ \A a \in asked : a.upto \in Nat /\ a.upto <= Len(invariants)
    /\ EnforcedAsWorded

\* One invariant: what the code finds violated and what its comment says.
LEMMA AsWorded ==
    ASSUME NEW inv \in DeclaredInvariants, NEW doc \in Documents, ~Unhashable(inv, doc)
    PROVE  ~Violated(inv, doc) <=> Worded(inv, doc) \/ Lenient(inv, doc)
  <1>1. inv.type \in InvariantType /\ inv.limit \in Nat
    BY InvariantsAssumption DEF DeclaredInvariants
  <1>2. inv.path \in DOMAIN doc => doc[inv.path].length \in Nat
    BY DocumentsAssumption
  <1>3. CASE inv.type = "field_absent"
    BY <1>3 DEF Violated, Worded, Lenient
  <1>4. CASE inv.type = "field_present"
    BY <1>4 DEF Violated, Worded, Lenient
  <1>5. CASE inv.type = "value_matches"
    BY <1>5 DEF Violated, Worded, Lenient
  <1>6. CASE inv.type = "value_not_matches"
    BY <1>6 DEF Violated, Worded, Lenient
  <1>7. CASE inv.type = "value_in_set"
    BY <1>7 DEF Violated, Worded, Lenient
  <1>8. CASE inv.type = "value_not_in_set"
    BY <1>8 DEF Violated, Worded, Lenient
  <1>9. CASE inv.type = "max_length"
    <2>1. inv.path \in DOMAIN doc =>
             (~(doc[inv.path].length > inv.limit) <=> doc[inv.path].length <= inv.limit)
      BY <1>1, <1>2
    <2>2. Violated(inv, doc) <=> /\ inv.path \in DOMAIN doc /\ doc[inv.path].text
                                 /\ doc[inv.path].length > inv.limit
      BY <1>9 DEF Violated
    <2>3. Worded(inv, doc) <=> (inv.path \in DOMAIN doc => doc[inv.path].length <= inv.limit)
      BY <1>9 DEF Worded
    <2>4. Lenient(inv, doc) <=> inv.path \in DOMAIN doc /\ ~doc[inv.path].text
      BY <1>9 DEF Lenient
    <2> QED BY <2>1, <2>2, <2>3, <2>4
  <1>10. CASE inv.type = "custom"
    BY <1>10 DEF Violated, Worded, Lenient
  <1> QED BY <1>1, <1>3, <1>4, <1>5, <1>6, <1>7, <1>8, <1>9, <1>10 DEF InvariantType

LEMMA EnforcerInvariant == EnforcerSpec => []EnforcerIInv
  <1>1. EnforcerInit => EnforcerIInv
    <2> DEFINE own == Range(BUILTIN_INVARIANTS)
               all == own \cup CustomInvariants
    <2>1. BUILTIN_INVARIANTS \in Seq(own) /\ own \subseteq all
      BY InvariantsAssumption
    <2> HIDE DEF own, all
    <2>2. BUILTIN_INVARIANTS \in Seq(all) /\ << >> \in Seq(all)
      BY <2>1
    <2> QED BY <2>2 DEF EnforcerInit, EnforcerIInv, EnforcedAsWorded, DeclaredInvariants, own, all
  <1>2. EnforcerIInv /\ [EnforcerNext]_enforcerVars => EnforcerIInv'
    <2> SUFFICES ASSUME EnforcerIInv, [EnforcerNext]_enforcerVars PROVE EnforcerIInv'
      OBVIOUS
    <2> DEFINE n == Len(invariants)
    <2>0. /\ invariants \in Seq(DeclaredInvariants) /\ n \in Nat /\ DOMAIN invariants = 1 .. n
          /\ \A i \in 1 .. n : invariants[i] \in DeclaredInvariants
      BY LenProperties, ElementOfSeq DEF EnforcerIInv
    <2>1. ASSUME NEW inv \in CustomInvariants, add_invariant(inv) PROVE EnforcerIInv'
      <3>1. /\ invariants' = Append(invariants, inv) /\ asked' = asked /\ verdict' = verdict
            /\ inv \in DeclaredInvariants
        BY <2>1 DEF add_invariant, Extended, DeclaredInvariants
      <3>2. /\ invariants' \in Seq(DeclaredInvariants) /\ Len(invariants') = n + 1
            /\ DOMAIN invariants' = 1 .. n + 1
            /\ \A i \in 1 .. n : invariants'[i] = invariants[i]
        BY <2>0, <3>1, AppendProperties, LenProperties
      <3> HIDE DEF n
      <3>3. ASSUME NEW a \in asked
            PROVE  /\ a.upto \in Nat /\ a.upto <= n + 1
                   /\ verdict # "raised" =>
                        (verdict = "passed" <=>
                           \A i \in Applicable(a.tool, a.side)' : i <= a.upto =>
                              Worded(invariants'[i], a.doc) \/ Lenient(invariants'[i], a.doc))
        <4>1. /\ a.upto \in Nat /\ a.upto <= n
              /\ verdict # "raised" =>
                   (verdict = "passed" <=>
                      \A i \in Applicable(a.tool, a.side) : i <= a.upto =>
                         Worded(invariants[i], a.doc) \/ Lenient(invariants[i], a.doc))
          BY DEF EnforcerIInv, EnforcedAsWorded, n
        <4>2. ASSUME NEW i, i <= a.upto
              PROVE  i \in Applicable(a.tool, a.side)' <=>
                        i \in Applicable(a.tool, a.side)
          <5>1. i \in 1 .. n + 1 => i \in 1 .. n
            BY <2>0, <4>1, <4>2
          <5>2. i \in 1 .. n => i \in 1 .. n + 1
            BY <2>0
          <5> QED BY <2>0, <3>2, <5>1, <5>2 DEF Applicable
        <4>3. \A i \in Applicable(a.tool, a.side) : invariants'[i] = invariants[i]
          BY <2>0, <3>2 DEF Applicable
        <4>4. a.upto <= n + 1
          BY <2>0, <4>1
        <4> QED BY <4>1, <4>2, <4>3, <4>4
      <3> QED BY <3>1, <3>2, <3>3 DEF EnforcerIInv, EnforcedAsWorded
    <2>2. ASSUME NEW tool \in DocTools, NEW side \in Sides, NEW doc \in Documents,
                 check(tool, side, doc)
          PROVE  EnforcerIInv'
      <3>1. /\ invariants' = invariants /\ verdict' = Enforced(tool, side, doc)
            /\ asked' = {[tool |-> tool, side |-> side, doc |-> doc, upto |-> n]}
        BY <2>2 DEF check
      <3> HIDE DEF n
      <3>2. \A i \in Applicable(tool, side) : i \in 1 .. n /\ i <= n
        BY <2>0 DEF Applicable
      <3>3. ASSUME Enforced(tool, side, doc) # "raised"
            PROVE  Enforced(tool, side, doc) = "passed" <=>
                      \A i \in Applicable(tool, side) :
                         Worded(invariants[i], doc) \/ Lenient(invariants[i], doc)
        <4>1. \A i \in Applicable(tool, side) : ~Unhashable(invariants[i], doc)
          BY <3>3 DEF Enforced
        <4>2. Enforced(tool, side, doc) = "passed" <=>
                 \A i \in Applicable(tool, side) : ~Violated(invariants[i], doc)
          BY <3>3 DEF Enforced
        <4>3. ASSUME NEW i \in Applicable(tool, side)
              PROVE  ~Violated(invariants[i], doc) <=>
                        Worded(invariants[i], doc) \/ Lenient(invariants[i], doc)
          BY <2>0, <3>2, <4>1, AsWorded
        <4> QED BY <4>2, <4>3
      <3>4. EnforcedAsWorded'
        <4> SUFFICES ASSUME verdict' # "raised"
                     PROVE  verdict' = "passed" <=>
                               \A i \in Applicable(tool, side)' : i <= n =>
                                  Worded(invariants'[i], doc) \/ Lenient(invariants'[i], doc)
          BY <3>1 DEF EnforcedAsWorded
        <4>1. Applicable(tool, side)' = Applicable(tool, side)
          BY <3>1 DEF Applicable
        <4> QED BY <3>1, <3>2, <3>3, <4>1
      <3>5. \A a \in asked' : a.upto \in Nat /\ a.upto <= Len(invariants')
        BY <2>0, <3>1 DEF n
      <3> QED BY <2>0, <3>1, <3>4, <3>5 DEF EnforcerIInv
    <2>3. CASE UNCHANGED enforcerVars
      BY <2>3 DEF enforcerVars, EnforcerIInv, EnforcedAsWorded, Applicable
    <2> QED BY <2>1, <2>2, <2>3 DEF EnforcerNext
  <1> QED BY <1>1, <1>2, PTL DEF EnforcerSpec

-----------------------------------------------------------------------------
(* The correlation engine. *)

\* The first of a set of positions.
LEMMA FirstOfPositions ==
    ASSUME NEW n \in Nat, NEW S \in SUBSET (0 .. n), S # {}
    PROVE  Min(S) \in S /\ \A x \in S : Min(S) <= x
  <1> DEFINE Below == {0 .. x : x \in S}
  <1>1. Below \subseteq FiniteSubsetsOf(0 .. n) /\ Below # {}
    <2>1. \A x \in S : IsFiniteSet(0 .. x) /\ 0 .. x \subseteq 0 .. n
      BY FS_Interval
    <2> QED BY <2>1 DEF FiniteSubsetsOf
  <1>2. \E a \in Below : \A b \in Below : ~(<<b, a>> \in StrictSubsetOrdering(0 .. n))
    <2> HIDE DEF Below
    <2> QED BY <1>1, FS_StrictSubsetOrderingWellFounded, WFMin
  <1>3. PICK m \in S : \A x \in S : ~(<<0 .. x, 0 .. m>> \in StrictSubsetOrdering(0 .. n))
    BY <1>2
  <1>4. ASSUME NEW x \in S, x < m PROVE FALSE
    <2>1. m \in 0 .. m /\ m \notin 0 .. x /\ 0 .. x \subseteq 0 .. m
      BY <1>4
    <2>2. 0 .. x \in SUBSET (0 .. n) /\ 0 .. m \in SUBSET (0 .. n)
      OBVIOUS
    <2> QED BY <1>3, <2>1, <2>2 DEF StrictSubsetOrdering
  <1>5. \A x \in S : m <= x
    BY <1>4
  <1> QED BY <1>5 DEF Min

\* A set of numbers up to n that has 0 and, with any, the next has them all.
LEMMA StepsReach ==
    ASSUME NEW n \in Nat, NEW S \in SUBSET (0 .. n), 0 \in S,
           \A k \in 1 .. n : k - 1 \in S => k \in S
    PROVE  S = 0 .. n
  <1> DEFINE rest == (0 .. n) \ S
  <1>1. rest \in SUBSET (0 .. n)
    OBVIOUS
  <1> HIDE DEF rest
  <1>2. CASE rest # {}
    <2>1. Min(rest) \in rest /\ \A x \in rest : Min(rest) <= x
      BY <1>1, <1>2, FirstOfPositions
    <2>2. PICK m : m = Min(rest)
      OBVIOUS
    <2>3. m \in 0 .. n /\ m \notin S /\ \A x \in rest : m <= x
      BY <2>1, <2>2 DEF rest
    <2>4. m \in 1 .. n /\ m - 1 \in 0 .. n /\ ~(m <= m - 1)
      BY <2>3
    <2>5. m - 1 \in S
      BY <2>3, <2>4 DEF rest
    <2> QED BY <2>3, <2>4, <2>5
  <1>3. CASE rest = {}
    BY <1>3 DEF rest
  <1> QED BY <1>2, <1>3

\* The first event after the place v that is among the eligible and matches.
NextPlace(events, among, patterns, k, v) ==
    Min({i \in among : i > v /\ events[i].kind \in patterns[k]} \cup {Len(events) + 1})

LEMMA NextPlaceIsFirst ==
    ASSUME NEW P, NEW events \in Seq(P), NEW among \in SUBSET (1 .. Len(events)),
           NEW patterns, NEW k, NEW v
    PROVE  LET x == NextPlace(events, among, patterns, k, v)
           IN  /\ x \in 1 .. Len(events) + 1
               /\ x <= Len(events) => x \in among /\ x > v /\ events[x].kind \in patterns[k]
               /\ \A i \in among : i > v /\ events[i].kind \in patterns[k] => x <= i
  <1> DEFINE n == Len(events)
             S == {i \in among : i > v /\ events[i].kind \in patterns[k]} \cup {n + 1}
             x == Min(S)
  <1>1. n \in Nat /\ S \in SUBSET (0 .. n + 1) /\ S # {} /\ n + 1 \in Nat
    <2>1. n \in Nat
      OBVIOUS
    <2> HIDE DEF n
    <2>2. among \in SUBSET (1 .. n)
      BY DEF n
    <2>3. \A i \in S : i \in 0 .. n + 1
      BY <2>1, <2>2
    <2>4. n + 1 \in S
      OBVIOUS
    <2> HIDE DEF S
    <2> QED BY <2>1, <2>3, <2>4
  <1>2. x \in S /\ \A i \in S : x <= i
    <2> HIDE DEF S, n
    <2> QED BY <1>1, FirstOfPositions
  <1> HIDE DEF x
  <1>3. x \in 1 .. n + 1 /\ (x <= n => x # n + 1)
    BY <1>1, <1>2
  <1>4. NextPlace(events, among, patterns, k, v) = x
    BY DEF NextPlace, x
  <1> QED BY <1>2, <1>3, <1>4

\* The places are those the loop of _match_sequence() walks to.
LEMMA PlacesWalk ==
    ASSUME NEW events, NEW among, NEW patterns, Len(patterns) \in Nat
    PROVE  LET at == Places(events, among, patterns)
           IN  /\ at[0] = 0
               /\ \A k \in 1 .. Len(patterns) :
                     at[k] = NextPlace(events, among, patterns, k, at[k - 1])
  <1> DEFINE n == Len(patterns)
             Go(f, k) == IF k = 0 THEN 0 ELSE NextPlace(events, among, patterns, k, f[k - 1])
             Walks(f, m) == f = [k \in 0 .. m |-> Go(f, k)]
             S == {m \in 0 .. n : \E f : Walks(f, m)}
  <1>1. 0 \in S
    <2>1. \E f : Walks(f, 0)
      <3>1. Walks([k \in 0 .. 0 |-> 0], 0)
        OBVIOUS
      <3> QED BY <3>1
    <2>2. 0 \in 0 .. n
      OBVIOUS
    <2> HIDE DEF Walks, n
    <2> QED BY <2>1, <2>2
  <1>2. ASSUME NEW m \in 1 .. n, m - 1 \in S PROVE m \in S
    <2>1. PICK f : Walks(f, m - 1)
      BY <1>2
    <2> DEFINE g == [k \in 0 .. m |-> IF k = m THEN Go(f, m) ELSE f[k]]
    <2>2. \A k \in 0 .. m : g[k] = Go(g, k)
      <3>1. CASE TRUE
        <4>1. Go(g, m) = Go(f, m)
          BY <1>2
        <4>2. ASSUME NEW k \in 0 .. m - 1 PROVE g[k] = Go(f, k) /\ Go(g, k) = Go(f, k)
          <5>1. k # m /\ f[k] = Go(f, k)
            BY <1>2, <2>1
          <5>2. k # 0 => k - 1 \in 0 .. m /\ k - 1 # m
            BY <1>2
          <5> QED BY <5>1, <5>2
        <4>3. \A k \in 0 .. m : k = m \/ k \in 0 .. m - 1
          BY <1>2
        <4> QED BY <4>1, <4>2, <4>3
      <3> QED BY <3>1
    <2>3. \E h : Walks(h, m)
      <3>1. Walks(g, m)
        BY <2>2
      <3> HIDE DEF Walks, g
      <3> QED BY <3>1
    <2>4. m \in 0 .. n
      BY <1>2
    <2> HIDE DEF Walks, n
    <2> QED BY <2>3, <2>4
  <1>3. S = 0 .. n
    <2>1. S \in SUBSET (0 .. n) /\ n \in Nat
      OBVIOUS
    <2> HIDE DEF S, n
    <2> QED BY <1>1, <1>2, <2>1, StepsReach
  <1>4. \E f : Walks(f, n)
    BY <1>3
  <1> DEFINE at == Places(events, among, patterns)
  <1>5. Walks(at, n)
    <2>1. at = CHOOSE f : Walks(f, n)
      BY DEF Places, NextPlace
    <2> HIDE DEF Walks
    <2> QED BY <1>4, <2>1
  <1> HIDE DEF at
  <1>6. \A k \in 0 .. n : at[k] = Go(at, k)
    BY <1>5
  <1> QED BY <1>6 DEF at

\* When a place was found for the last pattern, each has one, and they ascend.
LEMMA PlacesAscend ==
    ASSUME NEW P, NEW events \in Seq(P), NEW among \in SUBSET (1 .. Len(events)),
           NEW patterns, Len(patterns) \in Nat,
           Places(events, among, patterns)[Len(patterns)] <= Len(events)
    PROVE  LET at == Places(events, among, patterns)
               n == Len(patterns)
           IN  /\ \A k \in 1 .. n : at[k] \in among /\ events[at[k]].kind \in patterns[k]
               /\ \A j, k \in 1 .. n : j < k => at[j] < at[k]
  <1> DEFINE at == Places(events, among, patterns)
             n == Len(patterns)
             last == Len(events)
  <1>1. /\ at[0] = 0 /\ n \in Nat /\ last \in Nat /\ at[n] <= last
        /\ \A k \in 1 .. n : at[k] = NextPlace(events, among, patterns, k, at[k - 1])
    BY PlacesWalk
  <1> HIDE DEF at, n
  <1>2. \A k \in 1 .. n :
           /\ at[k] \in 1 .. last + 1
           /\ at[k] <= last => /\ at[k] \in among /\ at[k] > at[k - 1]
                               /\ events[at[k]].kind \in patterns[k]
    BY <1>1, NextPlaceIsFirst
  <1> HIDE DEF last
  <1>3. \A k \in 0 .. n : at[k] \in 0 .. last + 1
    <2>1. \A k \in 0 .. n : k = 0 \/ k \in 1 .. n
      BY <1>1
    <2> QED BY <1>1, <1>2, <2>1
  <1>4. \A k \in 0 .. n : at[k] <= last
    <2> DEFINE S == {j \in 0 .. n : at[n - j] <= last}
    <2>1. 0 \in S
      BY <1>1
    <2>2. ASSUME NEW j \in 1 .. n, j - 1 \in S PROVE j \in S
      <3>1. n - (j - 1) \in 1 .. n /\ (n - (j - 1)) - 1 = n - j /\ n - j \in 0 .. n
        BY <1>1
      <3>2. at[n - (j - 1)] <= last
        BY <2>2
      <3>3. at[n - (j - 1)] > at[n - j]
        BY <1>2, <3>1, <3>2
      <3>4. at[n - j] <= last
        <4>1. at[n - j] \in 0 .. last + 1 /\ at[n - (j - 1)] \in 1 .. last + 1
          BY <1>2, <1>3, <3>1
        <4> QED BY <1>1, <3>2, <3>3, <4>1
      <3> QED BY <1>1, <3>4
    <2>3. S \in SUBSET (0 .. n)
      OBVIOUS
    <2> HIDE DEF S
    <2>4. S = 0 .. n
      BY <1>1, <2>1, <2>2, <2>3, StepsReach
    <2>5. ASSUME NEW k \in 0 .. n PROVE at[k] <= last
      <3>1. n - k \in 0 .. n /\ n - (n - k) = k
        BY <1>1
      <3> QED BY <2>4, <3>1 DEF S
    <2> QED BY <2>5
  <1>5. \A k \in 1 .. n : at[k] \in among /\ events[at[k]].kind \in patterns[k] /\ at[k] > at[k - 1]
    <2>1. \A k \in 1 .. n : k \in 0 .. n
      BY <1>1
    <2> QED BY <1>2, <1>4, <2>1
  <1>6. ASSUME NEW j \in 1 .. n, NEW k \in 1 .. n, j < k PROVE at[j] < at[k]
    <2> DEFINE S == {d \in 0 .. n - j : d = 0 \/ at[j] < at[j + d]}
    <2>1. 0 \in S /\ S \in SUBSET (0 .. n - j) /\ n - j \in Nat
      BY <1>1
    <2>2. ASSUME NEW d \in 1 .. n - j, d - 1 \in S PROVE d \in S
      <3>1. j + d \in 1 .. n /\ (j + d) - 1 = j + (d - 1) /\ d \in 0 .. n - j
            /\ j + (d - 1) \in 0 .. n /\ j \in 0 .. n
        BY <1>1
      <3>2. at[j + d] > at[j + (d - 1)]
        BY <1>5, <3>1
      <3>3. d - 1 = 0 \/ at[j] < at[j + (d - 1)]
        BY <2>2
      <3>4. /\ at[j] \in 0 .. last + 1 /\ at[j + d] \in 0 .. last + 1
            /\ at[j + (d - 1)] \in 0 .. last + 1
        BY <1>1, <1>3, <3>1
      <3>5. at[j] < at[j + d]
        <4>1. CASE d - 1 = 0
          <5>1. j + (d - 1) = j
            BY <4>1
          <5> QED BY <3>2, <3>4, <5>1
        <4>2. CASE at[j] < at[j + (d - 1)]
          BY <1>1, <3>2, <3>4, <4>2
        <4> QED BY <3>3, <4>1, <4>2
      <3> QED BY <3>1, <3>5
    <2> HIDE DEF S
    <2>3. S = 0 .. n - j
      BY <2>1, <2>2, StepsReach
    <2>4. k - j \in 0 .. n - j /\ k - j # 0 /\ j + (k - j) = k
      BY <1>1, <1>6
    <2> QED BY <2>3, <2>4 DEF S
  <1> QED BY <1>5, <1>6 DEF at, n

\* No choice of places that ascend and match is earlier than those taken.
LEMMA PlacesEarliest ==
    ASSUME NEW P, NEW events \in Seq(P), NEW among \in SUBSET (1 .. Len(events)),
           NEW patterns, Len(patterns) \in Nat,
           NEW f \in [1 .. Len(patterns) -> among],
           \A j, k \in 1 .. Len(patterns) : j < k => f[j] < f[k],
           \A k \in 1 .. Len(patterns) : events[f[k]].kind \in patterns[k]
    PROVE  \A k \in 1 .. Len(patterns) : Places(events, among, patterns)[k] <= f[k]
  <1> DEFINE at == Places(events, among, patterns)
             n == Len(patterns)
             last == Len(events)
             S == {k \in 0 .. n : k = 0 \/ at[k] <= f[k]}
  <1>1. /\ at[0] = 0 /\ n \in Nat /\ last \in Nat
        /\ \A k \in 1 .. n : at[k] = NextPlace(events, among, patterns, k, at[k - 1])
    BY PlacesWalk
  <1> HIDE DEF at
  <1>2. ASSUME NEW k \in 1 .. n
        PROVE  /\ at[k] \in 1 .. last + 1
               /\ \A i \in among : i > at[k - 1] /\ events[i].kind \in patterns[k] => at[k] <= i
    BY <1>1, NextPlaceIsFirst
  <1>3. \A k \in 1 .. n : f[k] \in among /\ f[k] \in 1 .. last
    OBVIOUS
  <1>4. ASSUME NEW k \in 1 .. n, k - 1 \in S PROVE k \in S
    <2>1. at[k - 1] < f[k]
      <3>1. CASE k = 1
        <4>1. k - 1 = 0
          BY <3>1
        <4> QED BY <1>1, <1>3, <3>1, <4>1
      <3>2. CASE k # 1
        <4>1. k - 1 \in 1 .. n /\ k - 1 < k /\ k - 1 # 0
          BY <1>1, <3>2
        <4>2. f[k - 1] < f[k] /\ at[k - 1] <= f[k - 1]
          BY <1>4, <4>1
        <4>3. f[k - 1] \in 1 .. last /\ f[k] \in 1 .. last /\ at[k - 1] \in 1 .. last + 1
          BY <1>2, <1>3, <4>1
        <4> QED BY <1>1, <4>2, <4>3
      <3> QED BY <3>1, <3>2
    <2>2. f[k] > at[k - 1]
      <3>1. at[k - 1] \in Int /\ f[k] \in Int
        <4>1. k - 1 = 0 \/ k - 1 \in 1 .. n
          BY <1>1
        <4> QED BY <1>1, <1>2, <1>3, <4>1
      <3> QED BY <2>1, <3>1
    <2>3. at[k] <= f[k]
      BY <1>2, <1>3, <2>2
    <2> QED BY <1>1, <2>3
  <1>5. 0 \in S /\ S \in SUBSET (0 .. n)
    BY <1>1
  <1> HIDE DEF S, n
  <1>6. S = 0 .. n
    BY <1>1, <1>4, <1>5, StepsReach
  <1>7. \A k \in 1 .. n : k \in 0 .. n /\ k # 0
    BY <1>1
  <1> QED BY <1>6, <1>7 DEF S, n, at

\* The calls as the engine keeps them, and the rules it may hold.
Calls == {[e EXCEPT !.ts = t] : e \in Events, t \in Nat}
AllRules == ToSet(DefaultRules) \cup ExtraRules

\* The window is the last window_size of the calls recorded.
WindowIsLast ==
    LET d == Len(record) - Len(window)
    IN  /\ Len(window) = IF Len(record) > window_size THEN window_size ELSE Len(record)
        /\ \A k \in 1 .. Len(window) : window[k] = record[d + k]

CorrelationIInv == /\ window \in Seq(Calls) /\ record \in Seq(Calls) /\ clock \in Nat
                   /\ rules \in Seq(AllRules)
                   /\ WindowIsLast

LEMMA CorrelationStep ==
    ASSUME CorrelationIInv, [CorrelationNext]_correlationVars
    PROVE  CorrelationIInv'
  <1>0. /\ window \in Seq(Calls) /\ record \in Seq(Calls) /\ clock \in Nat
        /\ rules \in Seq(AllRules) /\ WindowIsLast
        /\ Len(window) \in Nat /\ Len(record) \in Nat
    BY DEF CorrelationIInv
  <1>1. ASSUME NEW e \in Events, record_call(e) PROVE CorrelationIInv'
    <2> DEFINE c == [e EXCEPT !.ts = clock]
               q == Append(window, c)
    <2>1. c \in Calls
      BY <1>0 DEF Calls
    <2>2. /\ window' = Deque(q) /\ record' = Append(record, c)
          /\ UNCHANGED <<rules, clock>>
      BY <1>1 DEF record_call
    <2> HIDE DEF c
    <2>3. /\ q \in Seq(Calls) /\ Len(q) = Len(window) + 1
          /\ \A k \in 1 .. Len(window) : q[k] = window[k]
          /\ q[Len(window) + 1] = c
      BY <1>0, <2>1
    <2>4. /\ record' \in Seq(Calls) /\ Len(record') = Len(record) + 1
          /\ \A k \in 1 .. Len(record) : record'[k] = record[k]
          /\ record'[Len(record) + 1] = c
      BY <1>0, <2>1, <2>2
    <2> HIDE DEF q
    <2>5. /\ Len(window) \in Nat /\ Len(record) \in Nat /\ window_size \in Nat \ {0}
          /\ Len(window) = IF Len(record) > window_size THEN window_size ELSE Len(record)
          /\ \A k \in 1 .. Len(window) : window[k] = record[(Len(record) - Len(window)) + k]
      BY <1>0, WindowSizeAssumption DEF WindowIsLast
    <2>9. /\ Len(window) \in Nat /\ Len(record) \in Nat
          /\ Len(q) = Len(window) + 1 /\ Len(record') = Len(record) + 1
      BY <2>3, <2>4, <2>5
    <2>6. \A k \in 1 .. Len(q) : q[k] = record'[(Len(record) - Len(window)) + k]
      <3> TAKE k \in 1 .. Len(q)
      <3>1. CASE k \in 1 .. Len(window)
        <4>1. (Len(record) - Len(window)) + k \in 1 .. Len(record)
          BY <2>5, <3>1
        <4> QED BY <2>3, <2>4, <2>5, <3>1, <4>1
      <3>2. CASE k = Len(window) + 1
        <4>1. (Len(record) - Len(window)) + k = Len(record) + 1
          BY <2>9, <3>2
        <4> QED BY <2>3, <2>4, <3>2, <4>1
      <3>3. k \in 1 .. Len(window) \/ k = Len(window) + 1
        BY <2>9
      <3> QED BY <3>1, <3>2, <3>3
    <2>7. CASE Len(q) > window_size
      <3>1. Len(window) = window_size /\ Len(record) >= window_size
        BY <2>3, <2>5, <2>7
      <3>2. window' = Tail(q)
        BY <2>2, <2>7 DEF Deque
      <3>3. /\ window' \in Seq(Calls) /\ Len(window') = Len(window)
            /\ \A k \in 1 .. Len(window') : window'[k] = q[k + 1]
        BY <2>3, <2>5, <2>7, <3>2
      <3>4. \A k \in 1 .. Len(window') : window'[k] = record'[(Len(record') - Len(window')) + k]
        <4> TAKE k \in 1 .. Len(window')
        <4>1. k + 1 \in 1 .. Len(q)
              /\ (Len(record) - Len(window)) + (k + 1) = (Len(record') - Len(window')) + k
          BY <2>3, <2>4, <2>5, <3>3
        <4> QED BY <2>6, <3>3, <4>1
      <3>5. Len(window') = IF Len(record') > window_size THEN window_size ELSE Len(record')
        BY <2>4, <2>5, <3>1, <3>3
      <3>6. WindowIsLast'
        BY <3>4, <3>5 DEF WindowIsLast
      <3> QED BY <1>0, <2>2, <2>4, <3>3, <3>6 DEF CorrelationIInv
    <2>8. CASE ~(Len(q) > window_size)
      <3>1. Len(record) = Len(window) /\ Len(window) + 1 <= window_size
        BY <2>3, <2>5, <2>8
      <3>2. window' = q
        BY <2>2, <2>8 DEF Deque
      <3>3. \A k \in 1 .. Len(window') : window'[k] = record'[(Len(record') - Len(window')) + k]
        <4>1. Len(record') - Len(window') = Len(record) - Len(window)
          BY <2>9, <3>2
        <4> QED BY <2>6, <3>2, <4>1
      <3>4. Len(window') = IF Len(record') > window_size THEN window_size ELSE Len(record')
        BY <2>3, <2>4, <2>5, <3>1, <3>2
      <3>5. WindowIsLast'
        BY <3>3, <3>4 DEF WindowIsLast
      <3> QED BY <1>0, <2>2, <2>3, <2>4, <3>2, <3>5 DEF CorrelationIInv
    <2> QED BY <2>7, <2>8
  <1>2. ASSUME NEW rule \in ExtraRules, add_rule(rule) PROVE CorrelationIInv'
    <2>1. rule \in AllRules
      BY DEF AllRules
    <2>2. rules' \in Seq(AllRules)
      BY <1>0, <1>2, <2>1 DEF add_rule
    <2> QED BY <1>0, <1>2, <2>2 DEF CorrelationIInv, add_rule, WindowIsLast
  <1>3. CASE clear_window
    <2>1. window' = <<>> /\ record' = <<>> /\ UNCHANGED <<rules, clock>>
      BY <1>3 DEF clear_window
    <2>2. window' \in Seq(Calls) /\ record' \in Seq(Calls) /\ Len(window') = 0 /\ Len(record') = 0
      BY <2>1
    <2>3. WindowIsLast'
      BY <2>2, WindowSizeAssumption DEF WindowIsLast
    <2> QED BY <1>0, <2>1, <2>2, <2>3 DEF CorrelationIInv
  <1>4. CASE ClockTick
    BY <1>0, <1>4 DEF CorrelationIInv, ClockTick, WindowIsLast
  <1>5. CASE UNCHANGED correlationVars
    BY <1>0, <1>5 DEF CorrelationIInv, correlationVars, WindowIsLast
  <1> QED BY <1>1, <1>2, <1>3, <1>4, <1>5 DEF CorrelationNext

LEMMA CorrelationInvariant == CorrelationSpec => []CorrelationIInv
  <1>1. CorrelationInit => CorrelationIInv
    <2> SUFFICES ASSUME CorrelationInit PROVE CorrelationIInv
      OBVIOUS
    <2>1. window = <<>> /\ record = <<>> /\ clock = 0 /\ rules = DefaultRules
      BY DEF CorrelationInit
    <2>2. window \in Seq(Calls) /\ record \in Seq(Calls) /\ Len(window) = 0 /\ Len(record) = 0
      BY <2>1
    <2>3. WindowIsLast
      BY <2>2, WindowSizeAssumption DEF WindowIsLast
    <2>4. DefaultRules \in Seq(AllRules)
      <3>1. /\ DefaultRules \in Seq(ToSet(DefaultRules))
            /\ \A x \in ToSet(DefaultRules) : x \in AllRules
        BY RulesAssumption DEF AllRules
      <3> DEFINE T == ToSet(DefaultRules)
      <3> HIDE DEF T, AllRules
      <3>2. T \subseteq AllRules /\ DefaultRules \in Seq(T)
        BY <3>1 DEF T
      <3> QED BY <3>2
    <2> QED BY <2>1, <2>2, <2>3, <2>4 DEF CorrelationIInv
  <1> QED BY <1>1, CorrelationStep, PTL DEF CorrelationSpec

\* The engine matches the sequence of a rule when it occurs among the last calls.
LEMMA MatchesWhatOccurs ==
    ASSUME CorrelationIInv, NEW rule \in AllRules
    PROVE  _match_sequence(window, InTime(window, rule), rule.tool_sequence) # <<>>
           <=> Occurs(rule)
  <1> DEFINE patterns == rule.tool_sequence
             n == Len(patterns)
             d == Len(record) - Len(window)
             among == InTime(window, rule)
             at == Places(window, among, patterns)
  <1>1. patterns \in Seq(SUBSET Kinds) /\ n \in Nat
    BY RulesAssumption DEF AllRules
  <1>2. /\ Len(window) \in Nat /\ Len(record) \in Nat /\ window_size \in Nat \ {0} /\ d \in Nat
        /\ Len(record) > window_size => Len(window) = window_size
        /\ Len(record) <= window_size => d = 0
        /\ \A k \in 1 .. Len(window) : window[k] = record[d + k]
    BY WindowSizeAssumption DEF CorrelationIInv, WindowIsLast
  <1>3. window \in Seq(Calls)
    BY DEF CorrelationIInv
  <1>4. among = {i \in 1 .. Len(window) : clock - window[i].ts <= rule.window_seconds}
    BY <1>3 DEF InTime
  <1> HIDE DEF patterns, n, d, among
  <1>5. /\ \A i \in among : d + i \in Eligible(rule)
        /\ \A i \in Eligible(rule) : i - d \in among /\ d + (i - d) = i
    <2>1. \A i \in among : d + i \in Eligible(rule)
      <3> TAKE i \in among
      <3>1. i \in 1 .. Len(window) /\ clock - window[i].ts <= rule.window_seconds
        BY <1>4
      <3>2. window[i] = record[d + i]
        BY <1>2, <3>1
      <3>3. d + i \in 1 .. Len(record) /\ d + i > Len(record) - window_size
        BY <1>2, <3>1 DEF d
      <3> QED BY <3>1, <3>2, <3>3 DEF Eligible
    <2>2. \A i \in Eligible(rule) : i - d \in among /\ d + (i - d) = i
      <3> TAKE i \in Eligible(rule)
      <3>1. /\ i \in 1 .. Len(record) /\ i > Len(record) - window_size
            /\ clock - record[i].ts <= rule.window_seconds
        BY DEF Eligible
      <3>2. i - d \in 1 .. Len(window) /\ d + (i - d) = i
        BY <1>2, <3>1 DEF d
      <3>3. window[i - d] = record[i]
        BY <1>2, <3>2
      <3> QED BY <1>4, <3>1, <3>2, <3>3
    <2> QED BY <2>1, <2>2
  <1>6. among \in SUBSET (1 .. Len(window))
    BY <1>4
  <1>7. _match_sequence(window, among, patterns) # <<>> <=> n # 0 /\ at[n] <= Len(window)
    <2>1. at[n] \in Int
      <3>1. at[0] = 0 /\ \A k \in 1 .. n : at[k] = NextPlace(window, among, patterns, k, at[k - 1])
        BY <1>1, PlacesWalk DEF n
      <3> HIDE DEF at
      <3>2. n # 0 => at[n] \in 1 .. Len(window) + 1
        BY <1>1, <1>3, <1>6, <3>1, NextPlaceIsFirst
      <3> QED BY <1>1, <1>2, <3>1, <3>2
    <2>2. _match_sequence(window, among, patterns) =
            IF at[n] > Len(window) THEN <<>> ELSE [k \in 1 .. n |-> window[at[k]]]
      BY DEF _match_sequence, n
    <2> HIDE DEF at
    <2>3. [k \in 1 .. n |-> window[at[k]]] = <<>> <=> n = 0
      <3> DEFINE m == [k \in 1 .. n |-> window[at[k]]]
      <3>1. DOMAIN m = 1 .. n
        OBVIOUS
      <3>2. DOMAIN <<>> = {}
        OBVIOUS
      <3>3. n # 0 => 1 \in 1 .. n
        BY <1>1
      <3>4. n = 0 => m = <<>>
        OBVIOUS
      <3> QED BY <3>1, <3>2, <3>3, <3>4
    <2> QED BY <1>2, <2>1, <2>2, <2>3
  <1>8. ASSUME n # 0, at[n] <= Len(window) PROVE Occurs(rule)
    <2>1. /\ \A k \in 1 .. n : at[k] \in among /\ window[at[k]].kind \in patterns[k]
          /\ \A j, k \in 1 .. n : j < k => at[j] < at[k]
      BY <1>1, <1>3, <1>6, <1>8, PlacesAscend DEF n
    <2> HIDE DEF at
    <2> DEFINE to_record == [k \in 1 .. n |-> d + at[k]]
    <2>2. to_record \in [1 .. n -> Eligible(rule)]
      BY <1>5, <2>1
    <2>3. \A j, k \in 1 .. n : j < k => to_record[j] < to_record[k]
      <3> TAKE j, k \in 1 .. n
      <3> HAVE j < k
      <3>1. at[j] \in 1 .. Len(window) /\ at[k] \in 1 .. Len(window) /\ at[j] < at[k]
        BY <1>6, <2>1
      <3> QED BY <1>2, <3>1
    <2>4. \A k \in 1 .. n : record[to_record[k]].kind \in patterns[k]
      <3> TAKE k \in 1 .. n
      <3>1. at[k] \in 1 .. Len(window)
        BY <1>6, <2>1
      <3>2. window[at[k]] = record[d + at[k]]
        BY <1>2, <3>1
      <3> QED BY <2>1, <3>2
    <2>5. DOMAIN to_record = 1 .. n
      OBVIOUS
    <2> HIDE DEF to_record
    <2>6. patterns # <<>>
      BY <1>8 DEF n
    <2> QED BY <2>2, <2>3, <2>4, <2>5, <2>6 DEF Occurs, patterns, n
  <1>9. ASSUME Occurs(rule) PROVE n # 0 /\ at[n] <= Len(window)
    <2>1. patterns # <<>> /\ n # 0
      BY <1>1, <1>9 DEF Occurs, patterns, n
    <2>2. PICK g \in [1 .. n -> Eligible(rule)] :
                 /\ \A j, k \in DOMAIN g : j < k => g[j] < g[k]
                 /\ \A k \in DOMAIN g : record[g[k]].kind \in patterns[k]
      BY <1>9 DEF Occurs, patterns, n
    <2> DEFINE f == [k \in 1 .. n |-> g[k] - d]
    <2>3. f \in [1 .. n -> among]
      BY <1>5, <2>2
    <2>4. \A j, k \in 1 .. n : j < k => f[j] < f[k]
      <3> TAKE j, k \in 1 .. n
      <3> HAVE j < k
      <3>1. g[j] \in Eligible(rule) /\ g[k] \in Eligible(rule) /\ g[j] < g[k]
        BY <2>2
      <3>2. g[j] \in 1 .. Len(record) /\ g[k] \in 1 .. Len(record)
        BY <3>1 DEF Eligible
      <3> QED BY <1>2, <3>1, <3>2
    <2>5. \A k \in 1 .. n : window[f[k]].kind \in patterns[k]
      <3> TAKE k \in 1 .. n
      <3>1. f[k] \in among /\ f[k] = g[k] - d /\ g[k] \in Eligible(rule)
        BY <2>2, <2>3
      <3>2. f[k] \in 1 .. Len(window) /\ d + f[k] = g[k]
        BY <1>5, <1>6, <3>1
      <3>3. window[f[k]] = record[g[k]]
        BY <1>2, <3>2
      <3> QED BY <2>2, <3>3
    <2> HIDE DEF f
    <2>6. \A k \in 1 .. n : at[k] <= f[k]
      <3> HIDE DEF at
      <3>1. \A k \in 1 .. n : Places(window, among, patterns)[k] <= f[k]
        BY <1>1, <1>3, <1>6, <2>3, <2>4, <2>5, PlacesEarliest DEF n
      <3> QED BY <3>1 DEF at
    <2>7. n \in 1 .. n
      BY <1>1, <2>1
    <2>8. f[n] \in 1 .. Len(window)
      BY <1>6, <2>3, <2>7
    <2>9. at[n] \in Int
      <3>1. \A k \in 1 .. n : at[k] = NextPlace(window, among, patterns, k, at[k - 1])
        BY <1>1, PlacesWalk DEF n
      <3> HIDE DEF at
      <3>2. at[n] \in 1 .. Len(window) + 1
        BY <1>3, <1>6, <2>7, <3>1, NextPlaceIsFirst
      <3> QED BY <1>2, <3>2
    <2> HIDE DEF at
    <2> QED BY <1>2, <2>1, <2>6, <2>7, <2>8, <2>9
  <1> QED BY <1>7, <1>8, <1>9 DEF patterns, among

LEMMA SequencesFoundInState == CorrelationIInv => SequencesFound
  <1> SUFFICES ASSUME CorrelationIInv PROVE SequencesFound
    OBVIOUS
  <1> DEFINE Plain == {rule \in ToSet(rules) : rule.condition = "none"}
             found == {a \in _evaluate_rules(window) : a.condition = "none"}
             M(rule) == _match_sequence(window, InTime(window, rule), rule.tool_sequence)
             A(rule) == [rule |-> rule.name, matched |-> M(rule), condition |-> rule.condition]
  <1>1. \A rule \in ToSet(rules) : rule \in AllRules
    BY DEF CorrelationIInv, ToSet
  <1>2. \A rule \in ToSet(rules) : M(rule) # <<>> <=> Occurs(rule)
    BY <1>1, MatchesWhatOccurs
  <1>3. _evaluate_rules(window) =
          {a \in {A(rule) : rule \in ToSet(rules)} : a.matched # <<>> /\ Holds(a.condition, a.matched)}
    BY DEF _evaluate_rules
  <1> HIDE DEF M
  <1>4. ASSUME NEW a \in found
        PROVE  a.rule \in {rule.name : rule \in {q \in Plain : Occurs(q)}}
    <2>1. PICK rule \in ToSet(rules) : a = A(rule)
      BY <1>3
    <2>2. rule.condition = "none" /\ M(rule) # <<>> /\ a.rule = rule.name
      BY <1>3, <2>1
    <2> QED BY <1>2, <2>2
  <1>5. ASSUME NEW rule \in Plain, Occurs(rule) PROVE rule.name \in {a.rule : a \in found}
    <2>1. M(rule) # <<>> /\ rule.condition = "none" /\ rule \in ToSet(rules)
      BY <1>2, <1>5
    <2>2. Holds(A(rule).condition, A(rule).matched)
      BY <2>1 DEF Holds
    <2>3. A(rule).matched # <<>> /\ A(rule).condition = "none" /\ A(rule).rule = rule.name
      BY <2>1
    <2>4. A(rule) \in found
      BY <1>3, <2>1, <2>2, <2>3
    <2> HIDE DEF found, A
    <2> QED BY <2>3, <2>4
  <1> QED BY <1>4, <1>5 DEF SequencesFound

\* The engine misses no sequence and reports no other: a rule without a condition
\* alerts exactly when its sequence occurs, with any calls between, among the last
\* window_size calls within its seconds (correlation.py:219-224, 256-273).
THEOREM SequencesAreFound == CorrelationSpec => []SequencesFound
  <1> QED BY CorrelationInvariant, SequencesFoundInState, PTL
-----------------------------------------------------------------------------
\* In a behaviour of the layer each component behaves, or rests.
LEMMA PartsBehave ==
    Spec => CanarySpec /\ ManifestSpec /\ EnforcerSpec /\ DriftSpec /\ CorrelationSpec
  <1>1. Init => CanaryInit /\ ManifestInit /\ EnforcerInit /\ DriftInit /\ CorrelationInit
    BY DEF Init
  <1>2. [Next]_Vars => /\ [CanaryNext]_canaryVars /\ [ManifestNext]_manifestVars
                       /\ [EnforcerNext]_enforcerVars /\ [DriftNext]_driftVars
                       /\ [CorrelationNext]_correlationVars
    <2> SUFFICES ASSUME [Next]_Vars
                 PROVE  /\ [CanaryNext]_canaryVars /\ [ManifestNext]_manifestVars
                        /\ [EnforcerNext]_enforcerVars /\ [DriftNext]_driftVars
                        /\ [CorrelationNext]_correlationVars
      OBVIOUS
    <2>1. CASE UNCHANGED Vars
      BY <2>1 DEF Vars
    <2>2. CASE Next
      <3>1. /\ part # "canary" => UNCHANGED canaryVars
            /\ part # "manifest" => UNCHANGED manifestVars
            /\ part # "enforcer" => UNCHANGED enforcerVars
            /\ part # "drift" => UNCHANGED driftVars
            /\ part # "correlation" => UNCHANGED correlationVars
        BY <2>2 DEF Next, Still, Parts
      <3>2. /\ part = "canary" => CanaryNext
            /\ part = "manifest" => ManifestNext
            /\ part = "enforcer" => EnforcerNext
            /\ part = "drift" => DriftNext
            /\ part = "correlation" => CorrelationNext
        BY <2>2 DEF Next
      <3> QED BY <3>1, <3>2
    <2> QED BY <2>1, <2>2
  <1> QED BY <1>1, <1>2, PTL DEF Spec, CanarySpec, ManifestSpec, EnforcerSpec, DriftSpec,
                             CorrelationSpec

\* No verdict of the layer is missed or taken back: a forbidden field leaves its
\* tool compromised for good, a manifest that verifies has the description, the
\* parameters and the capabilities of one the team signed, though perhaps not its
\* version, and a check passes exactly as its invariants are worded, but for the
\* exceptions of Lenient (canary.py:165-168, 201-228, manifest.py:117-148,
\* invariants.py:144-294).
THEOREM VerdictsAreHeld == Spec => []VerdictsHold
  <1>1. EnforcerIInv => EnforcedAsWorded
    BY DEF EnforcerIInv
  <1>2. ForbiddenCompromises /\ ValidIsAsSigned /\ EnforcedAsWorded => VerdictsHold
    BY DEF VerdictsHold
  <1> QED BY <1>1, <1>2, PartsBehave, CanaryCompromises, ValidIsSigned, EnforcerInvariant, PTL
=============================================================================
