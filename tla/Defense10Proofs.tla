--------------------------- MODULE Defense10Proofs ---------------------------
(***************************************************************************)
(* For every registry size and age, every window and limit, and every set  *)
(* of servers and calls: outbound calls reach nobody but those stated, the *)
(* registry keeps its bound and its fresh intents, no window holds more    *)
(* granted sends than the limit, and no send is refused before its time.   *)
(***************************************************************************)
EXTENDS Defense10, FiniteSetTheorems, SequenceTheorems, WellFoundedInduction, TLAPS

\* Every set of natural numbers has a least one: the intervals up to its members
\* are finite sets, and strict inclusion of finite sets is well founded.
LEMMA LeastNatural ==
    ASSUME NEW S \in SUBSET Nat, S # {}
    PROVE  \E m \in S : \A n \in S : m <= n
  <1> DEFINE Upto == {1 .. n : n \in S}
  <1>1. Upto \subseteq FiniteSubsetsOf(Nat) /\ Upto # {}
    <2>1. \A n \in S : IsFiniteSet(1 .. n) /\ 1 .. n \subseteq Nat
      BY FS_Interval
    <2> QED BY <2>1 DEF FiniteSubsetsOf
  <1>2. \E x \in Upto : \A y \in Upto : ~(<<y, x>> \in StrictSubsetOrdering(Nat))
    <2> HIDE DEF Upto
    <2> QED BY <1>1, FS_StrictSubsetOrderingWellFounded, WFMin
  <1>3. PICK m \in S : \A n \in S : ~(<<1 .. n, 1 .. m>> \in StrictSubsetOrdering(Nat))
    BY <1>2
  <1>4. ASSUME NEW n \in S, n < m PROVE FALSE
    <2>1. 1 .. n \subseteq 1 .. m /\ 1 .. n # 1 .. m
      <3>1. m \in 1 .. m /\ m \notin 1 .. n
        BY <1>4
      <3> QED BY <3>1
    <2>2. 1 .. n \in SUBSET Nat /\ 1 .. m \in SUBSET Nat
      OBVIOUS
    <2> QED BY <2>1, <2>2, <1>3 DEF StrictSubsetOrdering
  <1> QED BY <1>4
-----------------------------------------------------------------------------
(* The registry. *)

\* The ids of n calls are finitely many.
LEMMA IdsFinite ==
    ASSUME NEW n \in Nat, NEW D \in SUBSET (1 .. n)
    PROVE  IsFiniteSet(D) /\ Cardinality(D) \in Nat /\ D \in SUBSET Nat
  <1>1. IsFiniteSet(1 .. n)
    BY FS_Interval
  <1>2. IsFiniteSet(D)
    BY <1>1, FS_Subset
  <1> QED BY <1>2, FS_CardinalityType

\* The ids in a registry of n calls up to one of them, and those after it.
LEMMA IdsSplit ==
    ASSUME NEW n \in Nat, NEW D \in SUBSET (1 .. n), NEW id \in 1 .. n
    PROVE  /\ IsFiniteSet(D) /\ Cardinality(D) \in Nat
           /\ Cardinality({j \in D : j <= id}) \in Nat
           /\ Cardinality({j \in D : j <= id}) <= Cardinality(D)
           /\ Cardinality(D) - Cardinality({j \in D : j <= id}) <= n - id
  <1> DEFINE low == {j \in D : j <= id}
             high == D \ low
  <1>1. IsFiniteSet(D) /\ Cardinality(D) \in Nat
    BY IdsFinite
  <1>2. IsFiniteSet(low) /\ Cardinality(low) \in Nat /\ Cardinality(low) <= Cardinality(D)
    BY <1>1, FS_Subset, FS_CardinalityType
  <1>3. IsFiniteSet((id + 1) .. n) /\ Cardinality((id + 1) .. n) = n - id
    BY FS_Interval
  <1>4. high \in SUBSET ((id + 1) .. n)
    <2>1. ASSUME NEW j \in high PROVE j \in (id + 1) .. n
      <3>1. j \in 1 .. n /\ ~(j <= id)
        OBVIOUS
      <3>2. id \in Nat
        OBVIOUS
      <3> HIDE DEF high
      <3> QED BY <3>1, <3>2
    <2> QED BY <2>1
  <1>5. IsFiniteSet(high) /\ Cardinality(high) \in Nat /\ Cardinality(high) <= n - id
    <2> HIDE DEF high
    <2> QED BY <1>3, <1>4, FS_Subset, FS_CardinalityType
  <1>6. Cardinality(high) = Cardinality(D) - Cardinality(D \cap low)
    <2> HIDE DEF low
    <2> QED BY <1>1, FS_Difference
  <1>7. D \cap low = low
    OBVIOUS
  <1> QED BY <1>1, <1>2, <1>5, <1>6, <1>7

\* Of two ids or more, the first is among the older half.
LEMMA SomeAreOlder ==
    ASSUME NEW n \in Nat, NEW r, DOMAIN r \in SUBSET (1 .. n), Cardinality(DOMAIN r) >= 2
    PROVE  Older(r) # {}
  <1> DEFINE D == DOMAIN r
  <1>1. IsFiniteSet(D) /\ Cardinality(D) \in Nat
    <2> HIDE DEF D
    <2> QED BY IdsFinite DEF D
  <1>2. D # {}
    BY <1>1, FS_EmptySet
  <1>3. PICK m \in D : \A j \in D : m <= j
    <2>1. D \in SUBSET Nat
      OBVIOUS
    <2> HIDE DEF D
    <2> QED BY <1>2, <2>1, LeastNatural
  <1>4. {j \in D : j <= m} = {m}
    BY <1>3
  <1>5. Cardinality({j \in D : j <= m}) = 1
    BY <1>4, FS_Singleton
  <1>6. 1 <= Cardinality(D) \div 2
    BY <1>1
  <1> QED BY <1>5, <1>6 DEF Older

\* What _evict_stale() leaves: intents as they were, no more than max_entries of
\* them (or the one that is one too many), all of the newest that have not expired.
LEMMA Eviction ==
    ASSUME NEW n \in Nat, NEW r, DOMAIN r \in SUBSET (1 .. n), NEW t,
           Cardinality(DOMAIN r) <= MostHeld
    PROVE  /\ DOMAIN Evicted(r, t) \in SUBSET DOMAIN r
           /\ \A id \in DOMAIN Evicted(r, t) : Evicted(r, t)[id] = r[id]
           /\ IsFiniteSet(DOMAIN Evicted(r, t))
           /\ Cardinality(DOMAIN Evicted(r, t)) + 1 <= MostHeld
           /\ \A id \in DOMAIN r \ Expired(r, t) :
                 n - id <= max_entries \div 2 => id \in DOMAIN Evicted(r, t)
  <1> DEFINE D == DOMAIN r
             leaves == IF Full(r) THEN Older(r) ELSE {}
             kept == (D \ leaves) \ Expired(r, t)
  <1>1. DOMAIN Evicted(r, t) = kept /\ \A id \in kept : Evicted(r, t)[id] = r[id]
    BY DEF Evicted, Only
  <1>2. IsFiniteSet(D) /\ Cardinality(D) \in Nat
    BY IdsFinite
  <1>3. kept \in SUBSET D /\ IsFiniteSet(kept) /\ Cardinality(kept) \in Nat
    <2>1. kept \in SUBSET D
      OBVIOUS
    <2> HIDE DEF D, kept
    <2> QED BY <1>2, <2>1, FS_Subset, FS_CardinalityType
  <1>4. Cardinality(kept) + 1 <= MostHeld
    <2>1. CASE ~Full(r)
      <3>1. Cardinality(kept) <= Cardinality(D)
        <4> HIDE DEF kept
        <4> QED BY <1>2, <1>3, FS_Subset
      <3> QED BY <1>2, <1>3, <2>1, <3>1, EntriesAssumption DEF Full, MostHeld
    <2>2. CASE Full(r) /\ Cardinality(D) >= 2
      <3>1. PICK id \in Older(r) : TRUE
        BY <2>2, SomeAreOlder
      <3>2. id \in D /\ kept \in SUBSET (D \ {id})
        BY <2>2, <3>1 DEF Older
      <3>3. IsFiniteSet(D \ {id}) /\ Cardinality(D \ {id}) = Cardinality(D) - 1
        <4> HIDE DEF D
        <4> QED BY <1>2, <3>2, FS_RemoveElement
      <3>4. Cardinality(kept) <= Cardinality(D) - 1
        <4> HIDE DEF D, kept
        <4> QED BY <3>2, <3>3, FS_Subset
      <3> QED BY <1>2, <1>3, <3>4, EntriesAssumption DEF MostHeld
    <2>3. CASE Full(r) /\ ~(Cardinality(D) >= 2)
      <3>1. Cardinality(D) = 1 /\ max_entries = 0
        BY <1>2, <2>3, EntriesAssumption DEF Full
      <3>2. Cardinality(kept) <= Cardinality(D)
        <4> HIDE DEF kept
        <4> QED BY <1>2, <1>3, FS_Subset
      <3> QED BY <1>3, <3>1, <3>2 DEF MostHeld
    <2> QED BY <2>1, <2>2, <2>3
  <1>5. ASSUME NEW id \in D \ Expired(r, t), n - id <= max_entries \div 2, Full(r)
        PROVE  id \notin Older(r)
    <2> DEFINE upto == Cardinality({j \in D : j <= id})
    <2>1. id \in 1 .. n
      OBVIOUS
    <2>2. upto \in Nat /\ Cardinality(D) - upto <= n - id
      <3> HIDE DEF D
      <3>1. D \in SUBSET (1 .. n)
        BY DEF D
      <3> QED BY <2>1, <3>1, IdsSplit
    <2>3. ~(upto <= Cardinality(D) \div 2)
      <3> DEFINE c == Cardinality(D)
      <3>1. c \in Nat /\ c > max_entries /\ max_entries \in Nat /\ n \in Nat /\ id \in Nat
        BY <1>2, <1>5, <2>1, EntriesAssumption DEF Full
      <3> HIDE DEF upto, c
      <3>2. c - upto <= n - id
        BY <2>2 DEF c
      <3>3. n - id <= max_entries \div 2
        BY <1>5
      <3>4. c - (c \div 2) > max_entries \div 2
        BY <3>1
      <3> QED BY <2>2, <3>1, <3>2, <3>3, <3>4 DEF c
    <2> QED BY <2>3 DEF Older
  <1> QED BY <1>1, <1>3, <1>4, <1>5
-----------------------------------------------------------------------------
(* The invariant, in three parts. *)

CallRecord(t) == [stated : SUBSET Emails, ts : 0 .. t]
SendRecord(t) == [ts : 0 .. t, granted : BOOLEAN]

\* The state but for the registry, and the sends' times as far as their kind.
Kinds ==
    /\ now \in Nat /\ ml_available \in BOOLEAN
    /\ limited \subseteq Servers /\ events \in [Servers -> Seq(0 .. now)]
    /\ approved \in [Servers -> SUBSET (Emails \cup Domains)]
    /\ tokens \subseteq Tokens /\ IsFiniteSet(tokens)
    /\ pending \in Nat /\ trips \in Nat /\ verdicts \in Nat
    /\ calls \in Seq(CallRecord(now))
    /\ attempts \in [Servers -> Seq(SendRecord(now))]

\* What the registry holds is what the calls said, and all it owes.
Registered ==
    /\ DOMAIN intents \in SUBSET (1 .. Len(calls))
    /\ intents = [id \in DOMAIN intents |->
                    [recipients |-> calls[id].stated, ts |-> calls[id].ts]]
    /\ Cardinality(DOMAIN intents) <= MostHeld
    /\ FreshIntentKept

\* The deque of a server with a limit: the newest sends, and those it has dropped
\* are outside the window.
Tracks(s) ==
    LET a == attempts[s]
        q == events[s]
    IN  /\ Len(q) <= Len(a)
        /\ \A i \in 1 .. Len(q) : q[i] = a[Len(a) - Len(q) + i].ts
        /\ \A i \in 1 .. Len(a) - Len(q) : now - a[i].ts > window

InOrder(s) == \A i, j \in 1 .. Len(attempts[s]) : i <= j => attempts[s][i].ts <= attempts[s][j].ts

Windows == (\A s \in Servers : Tracks(s) /\ InOrder(s)) /\ WindowBound /\ RefusedWhenFull
-----------------------------------------------------------------------------
\* What _evict_stale() drops from a deque: the expired at its left, and only those.
LEMMA StaleIsLeft ==
    ASSUME NEW q \in Seq(Nat), NEW t \in Nat
    PROVE  /\ Stale(q, t) \in 0 .. Len(q)
           /\ \A i \in 1 .. Stale(q, t) : t - q[i] > window
           /\ Stale(q, t) < Len(q) => t - q[Stale(q, t) + 1] <= window
  <1> DEFINE stops == {n \in 0 .. Len(q) : n < Len(q) => t - q[n + 1] <= window}
  <1>1. Len(q) \in Nat /\ Len(q) \in stops /\ stops \in SUBSET Nat
    OBVIOUS
  <1>2. PICK m \in stops : \A n \in stops : m <= n
    <2> HIDE DEF stops
    <2> QED BY <1>1, LeastNatural
  <1>3. ASSUME NEW i \in 1 .. m PROVE t - q[i] > window
    <2>1. i - 1 \in 0 .. Len(q) /\ i - 1 \notin stops
      <3>1. m \in 0 .. Len(q) /\ i \in Nat /\ i <= m /\ 1 <= i
        BY <1>1, <1>2
      <3>2. i - 1 \in 0 .. Len(q) /\ i - 1 < m
        BY <1>1, <3>1
      <3>3. i - 1 \notin stops
        <4> HIDE DEF stops
        <4> QED BY <1>2, <3>1, <3>2
      <3> QED BY <3>2, <3>3
    <2>2. q[i] \in Nat
      BY <2>1, <1>1, <1>2
    <2> QED BY <2>1, <2>2, WindowAssumption
  <1>4. /\ m \in 0 .. Len(q) /\ \A i \in 1 .. m : t - q[i] > window
        /\ m < Len(q) => t - q[m + 1] <= window
    BY <1>2, <1>3
  <1> HIDE DEF stops
  <1> QED BY <1>4 DEF Stale

\* The deque after a send: the newest part of it with the new time at its end.
LEMMA RecordedIsSuffix ==
    ASSUME NEW t \in Nat, NEW q \in Seq(0 .. t)
    PROVE  \E d \in 0 .. Len(q) + 1 :
             /\ Recorded(q, t) \in Seq(0 .. t)
             /\ Len(Recorded(q, t)) = Len(q) + 1 - d
             /\ \A i \in 1 .. Len(q) + 1 - d : Recorded(q, t)[i] = Append(q, t)[d + i]
             /\ \A i \in 1 .. d : t - Append(q, t)[i] > window
             /\ d <= Len(q) => t - Append(q, t)[d + 1] <= window
  <1> DEFINE p == Append(q, t)
  <1>1. p \in Seq(0 .. t) /\ Len(p) = Len(q) + 1 /\ p \in Seq(Nat) /\ Len(q) \in Nat
    <2>1. 0 .. t \subseteq Nat /\ t \in 0 .. t
      OBVIOUS
    <2> QED BY <2>1, SeqMonotonic, AppendProperties
  <1> DEFINE d == Stale(p, t)
  <1>2. /\ d \in 0 .. Len(p) /\ \A i \in 1 .. d : t - p[i] > window
        /\ d < Len(p) => t - p[d + 1] <= window
    <2> HIDE DEF p
    <2> QED BY <1>1, StaleIsLeft
  <1>3. Recorded(q, t) = SubSeq(p, d + 1, Len(p))
    BY DEF Recorded, Popped
  <1>4. \A i \in d + 1 .. Len(p) : p[i] \in 0 .. t
    <2> HIDE DEF p
    <2> QED BY <1>1, <1>2, ElementOfSeq
  <1>5. /\ SubSeq(p, d + 1, Len(p)) \in Seq(0 .. t)
        /\ Len(SubSeq(p, d + 1, Len(p))) = Len(p) - d
        /\ \A i \in 1 .. Len(p) - d : SubSeq(p, d + 1, Len(p))[i] = p[d + i]
    <2> HIDE DEF p, d
    <2>1. d \in Nat /\ Len(p) \in Nat /\ d <= Len(p)
      BY <1>1, <1>2
    <2>2. /\ SubSeq(p, d + 1, Len(p)) \in Seq(0 .. t)
          /\ Len(SubSeq(p, d + 1, Len(p))) = IF d + 1 <= Len(p) THEN Len(p) - (d + 1) + 1 ELSE 0
          /\ \A i \in 1 .. Len(p) - (d + 1) + 1 : SubSeq(p, d + 1, Len(p))[i] = p[(d + 1) + i - 1]
      BY <1>4, <2>1, SubSeqProperties
    <2>3. \A i \in 1 .. Len(p) - d : (d + 1) + i - 1 = d + i /\ i \in 1 .. Len(p) - (d + 1) + 1
      BY <2>1
    <2> QED BY <2>1, <2>2, <2>3
  <1> HIDE DEF d, p
  <1>6. d \in 0 .. Len(q) + 1
    BY <1>1, <1>2
  <1>7. \A i \in 1 .. Len(q) + 1 - d : Recorded(q, t)[i] = p[d + i]
    <2>1. Len(q) + 1 - d = Len(p) - d
      BY <1>1, <1>6
    <2> QED BY <1>3, <1>5, <2>1
  <1>8. /\ Recorded(q, t) \in Seq(0 .. t) /\ Len(Recorded(q, t)) = Len(q) + 1 - d
        /\ d <= Len(q) => t - p[d + 1] <= window
    BY <1>1, <1>2, <1>3, <1>5, <1>6
  <1> QED BY <1>2, <1>6, <1>7, <1>8 DEF p

\* The times of n + 1 sends, the last of them now, of which a deque holds the newest
\* k + 1 and drops the first d of those: those in the window are those it keeps.
LEMMA DequeMoves ==
    ASSUME NEW t \in Nat, NEW n \in Nat, NEW k \in 0 .. n, NEW d \in 0 .. k + 1,
           NEW b \in [1 .. n + 1 -> 0 .. t], b[n + 1] = t,
           \A i, j \in 1 .. n : i <= j => b[i] <= b[j],
           \A i \in 1 .. n - k : t - b[i] > window,
           \A i \in 1 .. d : t - b[n - k + i] > window,
           d <= k => t - b[n - k + d + 1] <= window
    PROVE  /\ d <= k
           /\ \A i, j \in 1 .. n + 1 : i <= j => b[i] <= b[j]
           /\ \A i \in 1 .. n + 1 : t - b[i] <= window <=> i > n - k + d
  <1>1. d <= k
    <2> SUFFICES ASSUME d = k + 1 PROVE FALSE
      OBVIOUS
    <2>1. n - k + d = n + 1 /\ d \in 1 .. d
      OBVIOUS
    <2>2. t - b[n - k + d] > window
      BY <2>1
    <2>3. t - t > window
      BY <2>1, <2>2
    <2> QED BY <2>3, WindowAssumption
  <1>2. \A i, j \in 1 .. n + 1 : i <= j => b[i] <= b[j]
    <2> SUFFICES ASSUME NEW i \in 1 .. n + 1, NEW j \in 1 .. n + 1, i <= j
                 PROVE  b[i] <= b[j]
      OBVIOUS
    <2>1. CASE j = n + 1
      BY <2>1
    <2>2. CASE j # n + 1
      <3>1. i \in 1 .. n /\ j \in 1 .. n
        BY <2>2
      <3> QED BY <3>1
    <2> QED BY <2>1, <2>2
  <1>3. ASSUME NEW i \in 1 .. n + 1, i <= n - k + d PROVE ~(t - b[i] <= window)
    <2>1. CASE i <= n - k
      <3>1. i \in 1 .. n - k
        BY <2>1
      <3> QED BY <3>1, WindowAssumption
    <2>2. CASE i > n - k
      <3>1. i - (n - k) \in 1 .. d /\ n - k + (i - (n - k)) = i
        BY <1>3, <2>2
      <3>2. t - b[n - k + (i - (n - k))] > window
        BY <3>1
      <3>3. t - b[i] > window /\ b[i] \in 0 .. t
        BY <3>1, <3>2
      <3> QED BY <3>3, WindowAssumption
    <2> QED BY <2>1, <2>2
  <1>4. ASSUME NEW i \in 1 .. n + 1, i > n - k + d PROVE t - b[i] <= window
    <2>1. n - k + d + 1 \in 1 .. n + 1 /\ n - k + d + 1 <= i
      BY <1>1, <1>4
    <2>2. b[n - k + d + 1] <= b[i]
      BY <1>2, <2>1
    <2> QED BY <1>1, <2>1, <2>2, WindowAssumption
  <1> QED BY <1>1, <1>2, <1>3, <1>4

\* One more send that its limit is asked about: the server's deque as before, moved,
\* and a window that ends with the new send holds what the deque holds.
LEMMA AttemptTracks ==
    ASSUME Kinds, Windows, NEW s \in Servers, NEW granted \in BOOLEAN,
           Attempt(s, granted), now' = now
    PROVE  /\ events' \in [Servers -> Seq(0 .. now)]
           /\ attempts' \in [Servers -> Seq(SendRecord(now))]
           /\ attempts'[s] = Append(attempts[s], [ts |-> now, granted |-> granted])
           /\ Tracks(s)' /\ InOrder(s)'
           /\ \A i \in 1 .. Len(attempts'[s]) :
                 now - attempts'[s][i].ts <= window <=> i > Len(attempts'[s]) - Len(events'[s])
           /\ Len(events'[s]) <= Len(attempts'[s])
           /\ granted <=> Len(events'[s]) <= max_count
  <1> DEFINE a == attempts[s]
             q == events[s]
             e == [ts |-> now, granted |-> granted]
             r == Recorded(q, now)
             k == Len(q)
             n == Len(a)
  <1>1. /\ now \in Nat /\ a \in Seq(SendRecord(now)) /\ q \in Seq(0 .. now)
        /\ now \in 0 .. now /\ e \in SendRecord(now)
    <2>1. now \in Nat /\ a \in Seq(SendRecord(now)) /\ q \in Seq(0 .. now)
      BY DEF Kinds
    <2> QED BY <2>1 DEF SendRecord
  <1>2. events' = [events EXCEPT ![s] = r] /\ attempts' = [attempts EXCEPT ![s] = Append(a, e)]
    BY DEF Attempt
  <1>3. events'[s] = r /\ attempts'[s] = Append(a, e)
    BY <1>2 DEF Kinds
  <1>4. /\ Append(a, e) \in Seq(SendRecord(now)) /\ Len(Append(a, e)) = n + 1
        /\ Append(a, e)[n + 1] = e /\ \A i \in 1 .. n : Append(a, e)[i] = a[i]
    BY <1>1, AppendProperties
  <1>5. PICK d \in 0 .. k + 1 :
             /\ r \in Seq(0 .. now) /\ Len(r) = k + 1 - d
             /\ \A i \in 1 .. k + 1 - d : r[i] = Append(q, now)[d + i]
             /\ \A i \in 1 .. d : now - Append(q, now)[i] > window
             /\ d <= k => now - Append(q, now)[d + 1] <= window
    BY <1>1, RecordedIsSuffix
  <1>6. /\ k \in Nat /\ n \in Nat /\ k \in 0 .. n
        /\ \A i \in 1 .. k : q[i] = a[n - k + i].ts
        /\ \A i \in 1 .. n - k : now - a[i].ts > window
        /\ \A i, j \in 1 .. n : i <= j => a[i].ts <= a[j].ts
    <2>1. k \in Nat /\ n \in Nat
      BY <1>1, LenProperties
    <2>2. Tracks(s) /\ InOrder(s)
      BY DEF Windows
    <2>3. /\ k <= n /\ \A i \in 1 .. k : q[i] = a[n - k + i].ts
          /\ \A i \in 1 .. n - k : now - a[i].ts > window
      BY <2>2 DEF Tracks
    <2>4. \A i, j \in 1 .. n : i <= j => a[i].ts <= a[j].ts
      BY <2>2 DEF InOrder
    <2>5. k \in 0 .. n
      BY <2>1, <2>3
    <2> HIDE DEF k, n, a, q
    <2> QED BY <2>1, <2>3, <2>4, <2>5
  <1>7. \A i \in 1 .. n : a[i].ts \in 0 .. now
    <2>1. \A i \in 1 .. n : a[i] \in SendRecord(now)
      BY <1>1, ElementOfSeq
    <2> QED BY <2>1 DEF SendRecord
  <1>8. /\ \A i \in 1 .. k : Append(q, now)[i] = q[i]
        /\ Append(q, now)[k + 1] = now
    BY <1>1, AppendProperties
  <1>9. events' \in [Servers -> Seq(0 .. now)] /\ attempts' \in [Servers -> Seq(SendRecord(now))]
    BY <1>2, <1>4, <1>5 DEF Kinds
  <1>10. granted <=> Len(r) <= max_count
    BY DEF Attempt, Within
  <1> DEFINE b == [i \in 1 .. n + 1 |-> Append(a, e)[i].ts]
             p == Append(q, now)
  <1> HIDE DEF a, q, r, k, n, p
  <1>11. /\ b \in [1 .. n + 1 -> 0 .. now] /\ b[n + 1] = now
         /\ \A i \in 1 .. n : b[i] = a[i].ts
    <2>1. \A i \in 1 .. n + 1 : i = n + 1 \/ i \in 1 .. n
      BY <1>6
    <2>2. n + 1 \in 1 .. n + 1
      BY <1>6
    <2>3. \A i \in 1 .. n : Append(a, e)[i].ts = a[i].ts /\ i \in 1 .. n + 1
      BY <1>4, <1>6
    <2>4. Append(a, e)[n + 1].ts = now
      BY <1>4
    <2> QED BY <1>1, <1>7, <2>1, <2>2, <2>3, <2>4
  <1>12. \A i \in 1 .. k + 1 : p[i] = b[n - k + i]
    <2> SUFFICES ASSUME NEW i \in 1 .. k + 1 PROVE p[i] = b[n - k + i]
      OBVIOUS
    <2> HIDE DEF b
    <2>1. CASE i \in 1 .. k
      <3>1. n - k + i \in 1 .. n
        BY <1>6, <2>1
      <3> QED BY <1>6, <1>8, <1>11, <2>1, <3>1 DEF p
    <2>2. CASE i = k + 1
      <3>1. n - k + i = n + 1
        BY <1>6, <2>2
      <3> QED BY <1>8, <1>11, <2>2, <3>1 DEF p
    <2> QED BY <1>6, <2>1, <2>2
  <1>13. /\ d <= k
         /\ \A i, j \in 1 .. n + 1 : i <= j => b[i] <= b[j]
         /\ \A i \in 1 .. n + 1 : now - b[i] <= window <=> i > n - k + d
    <2> HIDE DEF b
    <2>1. /\ \A i, j \in 1 .. n : i <= j => b[i] <= b[j]
          /\ \A i \in 1 .. n - k : now - b[i] > window
      <3>1. \A i \in 1 .. n - k : i \in 1 .. n
        BY <1>6
      <3> QED BY <1>6, <1>11, <3>1
    <2>2. \A i \in 1 .. d : now - b[n - k + i] > window
      <3>1. \A i \in 1 .. d : i \in 1 .. k + 1
        BY <1>6
      <3> QED BY <1>5, <1>12, <3>1 DEF p
    <2>3. d <= k => now - b[n - k + d + 1] <= window
      <3>1. d <= k => d + 1 \in 1 .. k + 1 /\ n - k + (d + 1) = n - k + d + 1
        BY <1>6
      <3>2. d <= k => p[d + 1] = b[n - k + d + 1]
        BY <1>12, <3>1
      <3> QED BY <1>5, <3>2 DEF p
    <2> QED BY <1>1, <1>6, <1>11, <2>1, <2>2, <2>3, DequeMoves
  <1>14. Len(r) = k + 1 - d /\ n + 1 - Len(r) = n - k + d /\ Len(r) <= n + 1
    BY <1>5, <1>6, <1>13
  <1>15. \A i \in 1 .. Len(r) : r[i] = b[n - k + d + i]
    <2> SUFFICES ASSUME NEW i \in 1 .. k + 1 - d PROVE r[i] = b[n - k + d + i]
      BY <1>14
    <2>1. d + i \in 1 .. k + 1 /\ n - k + (d + i) = n - k + d + i
      BY <1>6, <1>13
    <2> HIDE DEF b
    <2> QED BY <1>5, <1>12, <2>1 DEF p
  <1>16. Len(attempts'[s]) = n + 1 /\ \A i \in 1 .. n + 1 : attempts'[s][i].ts = b[i]
    BY <1>3, <1>4
  <1>20. events'[s] = r /\ Len(attempts'[s]) - Len(r) = n + 1 - Len(r)
    <2> HIDE DEF b
    <2>1. events'[s] = r
      BY <1>3
    <2>2. Len(attempts'[s]) - Len(r) = n + 1 - Len(r)
      BY <1>6, <1>14, <1>16
    <2> QED BY <2>1, <2>2
  <1>17. Tracks(s)'
    <2>1. \A i \in 1 .. Len(r) : n - k + d + i \in 1 .. n + 1
      BY <1>6, <1>13, <1>14
    <2>2. \A i \in 1 .. Len(r) : events'[s][i] = attempts'[s][n + 1 - Len(r) + i].ts
      BY <1>3, <1>14, <1>15, <1>16, <2>1
    <2>3. \A i \in 1 .. n + 1 - Len(r) : now' - attempts'[s][i].ts > window
      <3> SUFFICES ASSUME NEW i \in 1 .. n - k + d PROVE now - b[i] > window /\ i \in 1 .. n + 1
        BY <1>14, <1>16
      <3>1. i \in 1 .. n + 1 /\ ~(i > n - k + d)
        BY <1>6, <1>13
      <3>2. b[i] \in 0 .. now
        BY <1>11, <3>1
      <3> HIDE DEF b
      <3> QED BY <1>1, <1>13, <3>1, <3>2, WindowAssumption
    <2>4. /\ Len(events'[s]) <= Len(attempts'[s])
          /\ \A i \in 1 .. Len(events'[s]) :
                events'[s][i] = attempts'[s][Len(attempts'[s]) - Len(events'[s]) + i].ts
          /\ \A i \in 1 .. Len(attempts'[s]) - Len(events'[s]) :
                now' - attempts'[s][i].ts > window
      <3> HIDE DEF b
      <3> QED BY <1>14, <1>16, <1>20, <2>2, <2>3
    <2> QED BY <2>4 DEF Tracks
  <1>18. InOrder(s)'
    BY <1>13, <1>16 DEF InOrder
  <1>19. \A i \in 1 .. Len(attempts'[s]) :
            now - attempts'[s][i].ts <= window <=> i > Len(attempts'[s]) - Len(events'[s])
    <2>1. Len(attempts'[s]) = n + 1 /\ Len(attempts'[s]) - Len(events'[s]) = n - k + d
      BY <1>14, <1>16, <1>20
    <2> HIDE DEF b
    <2> QED BY <1>13, <1>16, <2>1
  <1> QED BY <1>3, <1>9, <1>10, <1>14, <1>16, <1>17, <1>18, <1>19 DEF a
\* The members of a set of the attempts' indices are finitely many.
LEMMA Indices ==
    ASSUME NEW j \in Nat, NEW B \in SUBSET (1 .. j), NEW A \in SUBSET B
    PROVE  /\ IsFiniteSet(A) /\ Cardinality(A) \in Nat
           /\ IsFiniteSet(B) /\ Cardinality(B) \in Nat
           /\ Cardinality(A) <= Cardinality(B)
  <1>1. IsFiniteSet(B) /\ Cardinality(B) \in Nat
    BY IdsFinite
  <1> QED BY <1>1, FS_Subset, FS_CardinalityType

\* A send its limit is asked about leaves every window as the limit wants it.
LEMMA AttemptStep ==
    ASSUME Kinds, Windows, NEW s \in Servers, NEW granted \in BOOLEAN,
           Attempt(s, granted), now' = now
    PROVE  Windows'
  <1> DEFINE a == attempts[s]
             n == Len(a)
             a2 == attempts'[s]
             k == Len(events'[s])
             e == [ts |-> now, granted |-> granted]
             W(j) == {i \in 1 .. j : a2[j].ts - a2[i].ts <= window}
             G(j) == {i \in W(j) : a2[i].granted}
  <1>1. /\ events' \in [Servers -> Seq(0 .. now)]
        /\ attempts' \in [Servers -> Seq(SendRecord(now))]
        /\ a2 = Append(a, e)
        /\ Tracks(s)' /\ InOrder(s)'
        /\ \A i \in 1 .. Len(a2) : now - a2[i].ts <= window <=> i > Len(a2) - k
        /\ k <= Len(a2)
        /\ granted <=> k <= max_count
    BY AttemptTracks
  <1>2. \A x \in Servers \ {s} : attempts'[x] = attempts[x] /\ events'[x] = events[x]
    BY DEF Attempt, Kinds
  <1>3. a \in Seq(SendRecord(now)) /\ n \in Nat /\ k \in Nat /\ now \in Nat
    BY <1>1 DEF Kinds
  <1>4. e \in SendRecord(now)
    BY <1>3 DEF SendRecord
  <1>5. Len(a2) = n + 1 /\ a2[n + 1] = e /\ \A i \in 1 .. n : a2[i] = a[i]
    BY <1>1, <1>3, <1>4, AppendProperties
  <1>6. ASSUME NEW x \in Servers \ {s} PROVE Tracks(x)' /\ InOrder(x)'
    <2>1. Tracks(x) /\ InOrder(x)
      BY DEF Windows
    <2>2. attempts'[x] = attempts[x] /\ events'[x] = events[x] /\ now' = now
      BY <1>2 DEF Attempt
    <2>3. Tracks(x)'
      BY <2>1, <2>2 DEF Tracks
    <2>4. InOrder(x)'
      BY <2>1, <2>2 DEF InOrder
    <2> QED BY <2>3, <2>4
  <1>7. \A j \in 1 .. n : W(j) = InWindow(s, j)
    <2> SUFFICES ASSUME NEW j \in 1 .. n PROVE W(j) = InWindow(s, j)
      OBVIOUS
    <2>1. \A i \in 1 .. j : i \in 1 .. n
      BY <1>3
    <2>2. a2[j] = a[j] /\ \A i \in 1 .. j : a2[i] = a[i]
      BY <1>5, <2>1
    <2> HIDE DEF a2
    <2> QED BY <2>2 DEF InWindow
  <1>8. \A j \in 1 .. n : G(j) = {i \in InWindow(s, j) : a[i].granted}
    <2> SUFFICES ASSUME NEW j \in 1 .. n PROVE G(j) = {i \in InWindow(s, j) : a[i].granted}
      OBVIOUS
    <2>1. \A i \in InWindow(s, j) : a2[i] = a[i]
      BY <1>3, <1>5 DEF InWindow
    <2>2. W(j) = InWindow(s, j)
      BY <1>7
    <2> HIDE DEF W
    <2> QED BY <2>1, <2>2
  <1>9. W(n + 1) = (n + 1 - k) + 1 .. n + 1
    <2>1. ASSUME NEW i \in 1 .. n + 1
          PROVE  a2[n + 1].ts - a2[i].ts <= window <=> i >= (n + 1 - k) + 1
      <3>1. a2[n + 1].ts = now
        BY <1>5
      <3>2. i \in 1 .. Len(a2)
        BY <1>5, <2>1
      <3>3. now - a2[i].ts <= window <=> i > (n + 1) - k
        BY <1>1, <1>5, <3>2
      <3> HIDE DEF a2, k, n
      <3> QED BY <1>3, <3>1, <3>3
    <2> HIDE DEF a2, k, n
    <2>2. (n + 1 - k) + 1 >= 1
      BY <1>1, <1>3, <1>5
    <2> QED BY <1>3, <2>1, <2>2
  <1>10. Cardinality(W(n + 1)) = k
    <2> HIDE DEF W, n, k
    <2>1. Cardinality((n + 1 - k) + 1 .. n + 1) = (n + 1) - ((n + 1 - k) + 1) + 1
      BY <1>1, <1>3, <1>5, FS_Interval
    <2>2. (n + 1) - ((n + 1 - k) + 1) + 1 = k
      BY <1>3
    <2> QED BY <1>9, <2>1, <2>2
  <1>11. W(n + 1) \in SUBSET (1 .. n + 1) /\ G(n + 1) \in SUBSET W(n + 1)
    OBVIOUS
  <1>12. /\ IsFiniteSet(W(n + 1)) /\ Cardinality(G(n + 1)) \in Nat
         /\ Cardinality(G(n + 1)) <= Cardinality(W(n + 1))
    <2> DEFINE m == n + 1
               B == W(m)
               A == G(m)
    <2>1. m \in Nat /\ B \in SUBSET (1 .. m) /\ A \in SUBSET B
      BY <1>3, <1>11
    <2>2. IsFiniteSet(B) /\ Cardinality(A) \in Nat /\ Cardinality(A) <= Cardinality(B)
      <3> HIDE DEF m, A, B
      <3> QED BY <2>1, Indices
    <2> QED BY <2>2
  <1>13. Cardinality(G(n + 1)) <= max_count
    <2>1. CASE granted
      <3>1. k <= max_count
        BY <1>1, <2>1
      <3> HIDE DEF W, G, n, k
      <3> QED BY <1>3, <1>10, <1>12, <3>1, CountAssumption
    <2>2. CASE ~granted /\ n = 0
      <3>1. G(n + 1) = {}
        BY <1>5, <2>2
      <3>2. Cardinality(G(n + 1)) = 0
        BY <3>1, FS_EmptySet
      <3> QED BY <3>2, CountAssumption
    <2>3. CASE ~granted /\ n # 0
      <3>1. n \in 1 .. n /\ n \in 1 .. n + 1 /\ n + 1 \in 1 .. n + 1 /\ n <= n + 1
        BY <1>3, <2>3
      <3>2. \A i \in 1 .. n : a[i].ts \in 0 .. now
        <4>1. \A i \in 1 .. n : a[i] \in SendRecord(now)
          BY <1>3, ElementOfSeq
        <4> QED BY <4>1 DEF SendRecord
      <3>3. ASSUME NEW i \in G(n + 1) PROVE i \in G(n)
        <4>1. i \in 1 .. n + 1 /\ a2[i].granted /\ a2[n + 1].ts - a2[i].ts <= window
          OBVIOUS
        <4>2. i # n + 1
          BY <1>5, <2>3, <4>1
        <4>3. i \in 1 .. n
          BY <1>3, <4>1, <4>2
        <4>4. now - a[i].ts <= window /\ a[n].ts <= now
          <5>1. a2[i] = a[i] /\ a2[n + 1].ts = now
            BY <1>5, <4>3
          <5>2. a2[n + 1].ts - a2[i].ts <= window
            BY <4>1
          <5>3. a[n].ts \in 0 .. now
            BY <3>1, <3>2
          <5>4. a[n].ts <= now
            BY <5>3
          <5> HIDE DEF a, a2, n
          <5> QED BY <5>1, <5>2, <5>4
        <4>5. a[n].ts - a[i].ts <= window
          BY <1>3, <3>1, <3>2, <4>3, <4>4, WindowAssumption
        <4> QED BY <1>5, <3>1, <4>1, <4>3, <4>5
      <3>4. G(n + 1) \in SUBSET G(n) /\ G(n) \in SUBSET (1 .. n)
        <4>1. G(n) \in SUBSET (1 .. n)
          OBVIOUS
        <4> HIDE DEF G
        <4> QED BY <3>3, <4>1
      <3>5. Cardinality(G(n + 1)) <= Cardinality(G(n)) /\ Cardinality(G(n)) \in Nat
        <4> HIDE DEF G, n
        <4> QED BY <1>3, <3>4, Indices
      <3>6. Cardinality(G(n)) <= max_count
        <4>1. G(n) = {i \in InWindow(s, n) : attempts[s][i].granted}
          BY <1>8, <3>1
        <4> HIDE DEF G
        <4> QED BY <3>1, <4>1 DEF Windows, WindowBound
      <3> HIDE DEF G
      <3> QED BY <1>12, <3>5, <3>6, CountAssumption
    <2> QED BY <2>1, <2>2, <2>3
  <1>14. \A j \in 1 .. n + 1 : j \in 1 .. n \/ j = n + 1
    BY <1>3
  <1>15. \A j \in 1 .. n + 1 : Cardinality(G(j)) <= max_count
    <2>1. \A j \in 1 .. n : Cardinality(G(j)) <= max_count
      <3> HIDE DEF G
      <3> QED BY <1>8 DEF Windows, WindowBound
    <2> HIDE DEF G, n
    <2> QED BY <1>13, <1>14, <2>1
  <1>16. \A j \in 1 .. n + 1 : ~a2[j].granted => Cardinality(W(j)) > max_count
    <2>1. \A j \in 1 .. n : ~a2[j].granted => Cardinality(W(j)) > max_count
      <3> HIDE DEF W
      <3> QED BY <1>5, <1>7 DEF Windows, RefusedWhenFull
    <2>2. ~a2[n + 1].granted => Cardinality(W(n + 1)) > max_count
      <3>1. ~granted => k > max_count
        BY <1>1, <1>3, CountAssumption
      <3> HIDE DEF W
      <3> QED BY <1>5, <1>10, <3>1
    <2> HIDE DEF W, n, a2
    <2> QED BY <1>14, <2>1, <2>2
  <1>17. ASSUME NEW x \in Servers, NEW j \in 1 .. Len(attempts'[x])
         PROVE  /\ Cardinality({i \in InWindow(x, j)' : attempts'[x][i].granted}) <= max_count
                /\ ~attempts'[x][j].granted => Cardinality(InWindow(x, j)') > max_count
    <2>1. CASE x = s
      <3>1. InWindow(x, j)' = W(j)
        BY <2>1 DEF InWindow
      <3>2. j \in 1 .. n + 1
        BY <1>5, <2>1
      <3>3. {i \in InWindow(x, j)' : attempts'[x][i].granted} = G(j)
        <4> HIDE DEF W
        <4> QED BY <2>1, <3>1
      <3> HIDE DEF W, G
      <3> QED BY <1>15, <1>16, <2>1, <3>1, <3>2, <3>3
    <2>2. CASE x # s
      <3>1. InWindow(x, j)' = InWindow(x, j) /\ attempts'[x] = attempts[x]
        BY <1>2, <2>2 DEF InWindow
      <3> QED BY <3>1 DEF Windows, WindowBound, RefusedWhenFull
    <2> QED BY <2>1, <2>2
  <1>18. WindowBound' /\ RefusedWhenFull'
    BY <1>17 DEF WindowBound, RefusedWhenFull
  <1> QED BY <1>1, <1>6, <1>18 DEF Windows
\* The sends as time passes.
LEMMA TickStep ==
    ASSUME Kinds, Windows, Tick
    PROVE  Windows' /\ Kinds'
  <1>1. /\ now \in Nat /\ now' = now + 1 /\ events' = events /\ attempts' = attempts
        /\ calls' = calls /\ ml_available' = ml_available /\ limited' = limited
        /\ approved' = approved /\ tokens' = tokens /\ pending' = pending
        /\ trips' = trips /\ verdicts' = verdicts
    BY DEF Tick, policy, Kinds
  <1>2. \A x \in Servers : Tracks(x)'
    <2> SUFFICES ASSUME NEW x \in Servers PROVE Tracks(x)'
      OBVIOUS
    <2>1. Tracks(x) /\ attempts[x] \in Seq(SendRecord(now)) /\ events[x] \in Seq(0 .. now)
      BY DEF Windows, Kinds
    <2>2. \A i \in 1 .. Len(attempts[x]) : attempts[x][i].ts \in 0 .. now
      <3>1. \A i \in 1 .. Len(attempts[x]) : attempts[x][i] \in SendRecord(now)
        BY <2>1, ElementOfSeq
      <3> QED BY <3>1 DEF SendRecord
    <2>3. ASSUME NEW i \in 1 .. Len(attempts[x]) - Len(events[x])
          PROVE  now' - attempts[x][i].ts > window
      <3>1. i \in 1 .. Len(attempts[x])
        BY <2>1
      <3>2. now - attempts[x][i].ts > window
        BY <2>1 DEF Tracks
      <3> QED BY <1>1, <2>2, <3>1, <3>2, WindowAssumption
    <2>4. /\ Len(events'[x]) <= Len(attempts'[x])
          /\ \A i \in 1 .. Len(events'[x]) :
                events'[x][i] = attempts'[x][Len(attempts'[x]) - Len(events'[x]) + i].ts
          /\ \A i \in 1 .. Len(attempts'[x]) - Len(events'[x]) :
                now' - attempts'[x][i].ts > window
      <3>1. /\ Len(events[x]) <= Len(attempts[x])
            /\ \A i \in 1 .. Len(events[x]) :
                  events[x][i] = attempts[x][Len(attempts[x]) - Len(events[x]) + i].ts
        BY <2>1 DEF Tracks
      <3>2. events'[x] = events[x] /\ attempts'[x] = attempts[x] /\ now' = now + 1
        BY <1>1
      <3>3. \A i \in 1 .. Len(attempts[x]) - Len(events[x]) : now' - attempts[x][i].ts > window
        BY <2>3
      <3> QED BY <3>1, <3>2, <3>3, Zenon
    <2> QED BY <2>4 DEF Tracks
  <1>3. Windows'
    BY <1>1, <1>2 DEF Windows, InOrder, WindowBound, RefusedWhenFull, InWindow
  <1>4. /\ Seq(0 .. now) \subseteq Seq(0 .. now + 1)
        /\ Seq(CallRecord(now)) \subseteq Seq(CallRecord(now + 1))
        /\ Seq(SendRecord(now)) \subseteq Seq(SendRecord(now + 1))
    <2>1. 0 .. now \subseteq 0 .. now + 1
      BY <1>1
    <2>2. CallRecord(now) \subseteq CallRecord(now + 1) /\ SendRecord(now) \subseteq SendRecord(now + 1)
      BY <2>1 DEF CallRecord, SendRecord
    <2> QED BY <2>1, <2>2, SeqMonotonic
  <1> QED BY <1>1, <1>3, <1>4 DEF Kinds

\* A step either leaves the clock and the sends alone, or asks one limit, or is time.
LEMMA StepCases ==
    ASSUME Next
    PROVE  \/ UNCHANGED <<now, events, attempts>>
           \/ now' = now /\ \E s \in Servers, granted \in BOOLEAN : Attempt(s, granted)
           \/ Tick
  <1>1. ASSUME NEW c \in Calls, inspect_call(c)
        PROVE  \/ UNCHANGED <<now, events, attempts>>
               \/ now' = now /\ \E s \in Servers, granted \in BOOLEAN : Attempt(s, granted)
    <2>1. now' = now /\ c.server \in Servers
      BY <1>1, CallAssumption DEF inspect_call
    <2>2. CASE ByHoneypot(c) \/ ByClassifier(c) \/ ByWhitelist(c)
      BY <2>1, <2>2 DEF ByHoneypot, ByClassifier, ByWhitelist
    <2>3. CASE ByRateLimit(c)
      BY <2>1, <2>3 DEF ByRateLimit
    <2>4. CASE Passes(c)
      BY <2>1, <2>4 DEF Passes
    <2> QED BY <1>1, <2>2, <2>3, <2>4 DEF inspect_call
  <1>2. ASSUME NEW s \in Servers, check_rate_limit(s)
        PROVE  now' = now /\ \E x \in Servers, granted \in BOOLEAN : Attempt(x, granted)
    BY <1>2 DEF check_rate_limit
  <1> QED BY <1>1, <1>2 DEF Next, configure_server, approve, mint, inspect_call_raises,
                            inspect_egress, request, scan_network, policy

LEMMA WindowsStep ==
    ASSUME Kinds, Windows, [Next]_vars
    PROVE  Windows'
  <1>1. CASE UNCHANGED <<now, events, attempts>>
    BY <1>1 DEF Windows, Tracks, InOrder, WindowBound, RefusedWhenFull, InWindow
  <1>2. CASE now' = now /\ \E s \in Servers, granted \in BOOLEAN : Attempt(s, granted)
    BY <1>2, AttemptStep
  <1>3. CASE Tick
    BY <1>3, TickStep
  <1>4. UNCHANGED vars => UNCHANGED <<now, events, attempts>>
    BY DEF vars
  <1> QED BY <1>1, <1>2, <1>3, <1>4, StepCases

\* The sends keep their kind.
LEMMA SendKinds ==
    ASSUME Kinds, Windows, UNCHANGED now,
           \/ UNCHANGED <<events, attempts>>
           \/ \E s \in Servers, granted \in BOOLEAN : Attempt(s, granted)
    PROVE  /\ events' \in [Servers -> Seq(0 .. now)]
           /\ attempts' \in [Servers -> Seq(SendRecord(now))]
  <1>1. CASE UNCHANGED <<events, attempts>>
    BY <1>1 DEF Kinds
  <1>2. ASSUME NEW s \in Servers, NEW granted \in BOOLEAN, Attempt(s, granted)
        PROVE  /\ events' \in [Servers -> Seq(0 .. now)]
               /\ attempts' \in [Servers -> Seq(SendRecord(now))]
    BY <1>2, AttemptTracks
  <1> QED BY <1>1, <1>2

\* The list of verdicts keeps its kind.
LEMMA VerdictKinds ==
    ASSUME verdicts \in Nat
    PROVE  (_block => verdicts' \in Nat) /\ (_allow => verdicts' \in Nat)
  BY ListAssumption DEF _block, _allow

LEMMA KindsStep ==
    ASSUME Kinds, Windows, [Next]_vars
    PROVE  Kinds'
  <1> DEFINE Rest == /\ events' \in [Servers -> Seq(0 .. now)]
                     /\ attempts' \in [Servers -> Seq(SendRecord(now))]
  <1>1. ASSUME NEW s \in Servers, NEW domains \in Configurations, configure_server(s, domains)
        PROVE  Kinds'
    <2>1. domains \subseteq Domains
      BY PolicyAssumption
    <2>2. approved' \in [Servers -> SUBSET (Emails \cup Domains)]
      BY <1>1, <2>1 DEF configure_server, Kinds
    <2> QED BY <1>1, <2>2 DEF configure_server, Kinds
  <1>2. ASSUME NEW s \in Servers, NEW e \in Approvable, approve(s, e) PROVE Kinds'
    <2>1. e \in Emails
      BY PolicyAssumption
    <2>2. approved' \in [Servers -> SUBSET (Emails \cup Domains)]
      BY <1>2, <2>1 DEF approve, Kinds
    <2> QED BY <1>2, <2>2 DEF approve, Kinds
  <1>3. ASSUME NEW t \in Tokens, mint(t) PROVE Kinds'
    <2>1. IsFiniteSet(tokens \cup {t})
      BY FS_AddElement DEF Kinds
    <2> QED BY <1>3, <2>1 DEF mint, Kinds
  <1>4. ASSUME NEW c \in Calls, inspect_call(c) PROVE Kinds'
    <2>1. /\ c.server \in Servers /\ c.stated \in SUBSET Emails /\ c.emails \in SUBSET Emails
          /\ now' = now /\ ml_available' = ml_available /\ limited' = limited /\ tokens' = tokens
      BY <1>4, CallAssumption DEF inspect_call
    <2>2. calls' \in Seq(CallRecord(now))
      <3>1. [stated |-> c.stated, ts |-> now] \in CallRecord(now)
        BY <2>1 DEF CallRecord, Kinds
      <3> QED BY <1>4, <3>1, AppendProperties DEF inspect_call, Kinds
    <2>3. Rest
      <3>1. \/ UNCHANGED <<events, attempts>>
            \/ \E s \in Servers, granted \in BOOLEAN : Attempt(s, granted)
        BY <1>4, <2>1 DEF inspect_call, ByHoneypot, ByClassifier, ByWhitelist, ByRateLimit, Passes
      <3> QED BY <2>1, <3>1, SendKinds
    <2>4. trips' \in Nat
      <3>1. Cardinality(Trips(c)) \in Nat
        <4>1. Trips(c) \in SUBSET tokens
          BY DEF Trips
        <4> QED BY <4>1, FS_Subset, FS_CardinalityType DEF Kinds
      <3>2. trips' = trips \/ trips' = trips + Cardinality(Trips(c))
        BY <1>4 DEF inspect_call, ByHoneypot, ByClassifier, ByWhitelist, ByRateLimit, Passes
      <3>3. trips \in Nat
        BY DEF Kinds
      <3> QED BY <3>1, <3>2, <3>3
    <2>5. pending' \in Nat
      <3>1. pending' = pending \/ pending' = pending + 1
        BY <1>4 DEF inspect_call, ByHoneypot, ByClassifier, ByWhitelist, ByRateLimit, Passes
      <3>2. pending \in Nat
        BY DEF Kinds
      <3> QED BY <3>1, <3>2
    <2>6. verdicts' \in Nat
      BY <1>4, VerdictKinds
         DEF inspect_call, ByHoneypot, ByClassifier, ByWhitelist, ByRateLimit, Passes, Kinds
    <2>7. approved' \in [Servers -> SUBSET (Emails \cup Domains)]
      <3>1. Unknown(c) \subseteq Emails
        BY <2>1 DEF Unknown
      <3>2. [approved EXCEPT ![c.server] = @ \cup Unknown(c)] \in [Servers -> SUBSET (Emails \cup Domains)]
        BY <2>1, <3>1 DEF Kinds
      <3> QED BY <1>4, <3>2
            DEF inspect_call, ByHoneypot, ByClassifier, ByWhitelist, ByRateLimit, Passes, Kinds
    <2> QED BY <2>1, <2>2, <2>3, <2>4, <2>5, <2>6, <2>7 DEF Kinds
  <1>5. ASSUME NEW s \in Servers, check_rate_limit(s) PROVE Kinds'
    <2>1. Rest
      BY <1>5, SendKinds DEF check_rate_limit
    <2> QED BY <1>5, <2>1 DEF check_rate_limit, policy, Kinds
  <1>6. CASE inspect_call_raises
    BY <1>6 DEF inspect_call_raises, policy, Kinds
  <1>7. ASSUME NEW id \in 0 .. Len(calls), NEW actual \in Outbound, inspect_egress(id, actual)
        PROVE  Kinds'
    <2>1. verdicts' \in Nat
      BY <1>7, VerdictKinds DEF inspect_egress, Kinds
    <2> QED BY <1>7, <2>1 DEF inspect_egress, policy, Kinds
  <1>8. ASSUME NEW id \in 0 .. Len(calls), request(id) PROVE Kinds'
    BY <1>8 DEF request, policy, Kinds
  <1>9. ASSUME NEW alerted \in BOOLEAN, scan_network(alerted) PROVE Kinds'
    <2>1. verdicts' \in Nat
      BY <1>9, VerdictKinds DEF scan_network, Kinds
    <2> QED BY <1>9, <2>1 DEF scan_network, policy, Kinds
  <1>10. CASE Tick
    BY <1>10, TickStep
  <1>11. CASE UNCHANGED vars
    BY <1>11 DEF vars, Kinds
  <1> QED BY <1>1, <1>2, <1>3, <1>4, <1>5, <1>6, <1>7, <1>8, <1>9, <1>10, <1>11 DEF Next
-----------------------------------------------------------------------------
\* A registry that only lost intents that are expired or among the older half.
LEMMA RegistryShrinks ==
    ASSUME Kinds, Registered, calls' = calls, now' \in Nat, now <= now',
           NEW ids \in SUBSET DOMAIN intents, intents' = Only(intents, ids),
           \A id \in DOMAIN intents \ Expired(intents, now) :
              Len(calls) - id <= max_entries \div 2 => id \in ids
    PROVE  Registered'
  <1>1. /\ Len(calls) \in Nat /\ DOMAIN intents \in SUBSET (1 .. Len(calls)) /\ now \in Nat
        /\ \A id \in 1 .. Len(calls) : calls[id] \in CallRecord(now)
    BY DEF Registered, Kinds
  <1>2. \A id \in DOMAIN intents :
            intents[id] = [recipients |-> calls[id].stated, ts |-> calls[id].ts]
    BY DEF Registered
  <1>3. DOMAIN intents' = ids /\ \A id \in ids : intents'[id] = intents[id]
    BY DEF Only
  <1>4. intents' = [id \in DOMAIN intents' |->
                      [recipients |-> calls'[id].stated, ts |-> calls'[id].ts]]
    BY <1>2 DEF Only
  <1>5. Cardinality(DOMAIN intents') <= MostHeld
    <2> DEFINE D == DOMAIN intents
    <2>1. IsFiniteSet(D) /\ Cardinality(D) \in Nat
      <3> HIDE DEF D
      <3> QED BY <1>1, IdsFinite DEF D
    <2>2. Cardinality(ids) \in Nat /\ Cardinality(ids) <= Cardinality(D)
      <3> HIDE DEF D
      <3> QED BY <2>1, FS_Subset, FS_CardinalityType DEF D
    <2>3. Cardinality(D) <= MostHeld
      BY DEF Registered
    <2> QED BY <1>3, <2>1, <2>2, <2>3, EntriesAssumption DEF MostHeld
  <1>6. FreshIntentKept'
    <2> SUFFICES ASSUME NEW id \in 1 .. Len(calls), now' - calls[id].ts <= max_age,
                        Len(calls) - id <= max_entries \div 2
                 PROVE  id \in ids /\ intents'[id].recipients = calls[id].stated
      BY <1>3 DEF FreshIntentKept
    <2>1. calls[id].ts \in 0 .. now
      BY <1>1 DEF CallRecord
    <2>2. now - calls[id].ts <= max_age
      BY <1>1, <2>1, AgeAssumption
    <2>3. id \in DOMAIN intents /\ intents[id].recipients = calls[id].stated
      BY <2>2 DEF Registered, FreshIntentKept
    <2>4. id \notin Expired(intents, now)
      <3>1. intents[id].ts = calls[id].ts
        BY <1>2, <2>3
      <3> QED BY <1>1, <2>1, <2>2, <3>1, AgeAssumption DEF Expired
    <2> QED BY <1>3, <2>3, <2>4
  <1>7. DOMAIN intents' \in SUBSET (1 .. Len(calls'))
    BY <1>1, <1>3
  <1> QED BY <1>4, <1>5, <1>6, <1>7 DEF Registered

\* What the eviction leaves of a registry, once more.
LEMMA EvictionHere ==
    ASSUME Kinds, Registered
    PROVE  LET kept == Evicted(intents, now)
           IN  /\ DOMAIN kept \in SUBSET DOMAIN intents
               /\ kept = Only(intents, DOMAIN kept)
               /\ IsFiniteSet(DOMAIN kept)
               /\ Cardinality(DOMAIN kept) + 1 <= MostHeld
               /\ \A id \in DOMAIN intents \ Expired(intents, now) :
                     Len(calls) - id <= max_entries \div 2 => id \in DOMAIN kept
  <1>1. /\ Len(calls) \in Nat /\ DOMAIN intents \in SUBSET (1 .. Len(calls))
        /\ Cardinality(DOMAIN intents) <= MostHeld
    BY DEF Registered, Kinds
  <1>2. Evicted(intents, now) = Only(intents, DOMAIN Evicted(intents, now))
    BY DEF Evicted, Only
  <1>3. /\ DOMAIN Evicted(intents, now) \in SUBSET DOMAIN intents
        /\ IsFiniteSet(DOMAIN Evicted(intents, now))
        /\ Cardinality(DOMAIN Evicted(intents, now)) + 1 <= MostHeld
        /\ \A id \in DOMAIN intents \ Expired(intents, now) :
              Len(calls) - id <= max_entries \div 2 => id \in DOMAIN Evicted(intents, now)
    BY <1>1, Eviction
  <1> QED BY <1>2, <1>3

\* A call recorded.
LEMMA CallRegistered ==
    ASSUME Kinds, Registered, NEW c \in Calls, inspect_call(c)
    PROVE  Registered'
  <1> DEFINE n == Len(calls)
             kept == Evicted(intents, now)
             D == DOMAIN kept
  <1>1. /\ n \in Nat /\ DOMAIN intents \in SUBSET (1 .. n) /\ now \in Nat
        /\ calls \in Seq(CallRecord(now)) /\ \A id \in 1 .. n : calls[id] \in CallRecord(now)
    BY DEF Registered, Kinds
  <1>2. \A id \in DOMAIN intents :
            intents[id] = [recipients |-> calls[id].stated, ts |-> calls[id].ts]
    BY DEF Registered
  <1>3. /\ D \in SUBSET DOMAIN intents
        /\ \A id \in D : kept[id] = intents[id]
        /\ IsFiniteSet(D) /\ Cardinality(D) + 1 <= MostHeld
        /\ \A id \in DOMAIN intents \ Expired(intents, now) :
              n - id <= max_entries \div 2 => id \in D
    BY EvictionHere DEF Only
  <1>4. /\ now' = now /\ calls' = Append(calls, [stated |-> c.stated, ts |-> now])
        /\ intents' = record(intents, now, n + 1, c.stated)
    BY DEF inspect_call
  <1>5. /\ Len(calls') = n + 1 /\ calls'[n + 1] = [stated |-> c.stated, ts |-> now]
        /\ \A id \in 1 .. n : calls'[id] = calls[id]
    <2>1. [stated |-> c.stated, ts |-> now] \in CallRecord(now)
      BY <1>1, CallAssumption DEF CallRecord
    <2> QED BY <1>1, <1>4, <2>1, AppendProperties
  <1>6. intents' = [k \in D \cup {n + 1} |->
                      IF k = n + 1 THEN [recipients |-> c.stated, ts |-> now] ELSE kept[k]]
    BY <1>4 DEF record
  <1>7. DOMAIN intents' = D \cup {n + 1}
    BY <1>6
  <1>8. \A id \in D : id \in 1 .. n /\ id # n + 1
    BY <1>1, <1>3
  <1>9. \A id \in D \cup {n + 1} :
            intents'[id] = [recipients |-> calls'[id].stated, ts |-> calls'[id].ts]
    <2>1. intents'[n + 1] = [recipients |-> c.stated, ts |-> now]
      BY <1>6
    <2>2. ASSUME NEW id \in D
          PROVE  intents'[id] = [recipients |-> calls[id].stated, ts |-> calls[id].ts]
      <3> HIDE DEF n, kept
      <3> QED BY <1>2, <1>3, <1>6, <1>8
    <2> HIDE DEF n, kept, D
    <2> QED BY <1>5, <1>8, <2>1, <2>2
  <1>10. intents' = [id \in DOMAIN intents' |->
                       [recipients |-> calls'[id].stated, ts |-> calls'[id].ts]]
    <2>1. intents' = [id \in DOMAIN intents' |-> intents'[id]]
      BY <1>6, <1>7
    <2> HIDE DEF n, kept, D
    <2> QED BY <1>7, <1>9, <2>1
  <1>11. DOMAIN intents' \in SUBSET (1 .. Len(calls'))
    <2> HIDE DEF n, kept, D
    <2> QED BY <1>1, <1>5, <1>7, <1>8
  <1>12. Cardinality(DOMAIN intents') <= MostHeld
    <2>1. n + 1 \notin D
      BY <1>8
    <2>2. Cardinality(D \cup {n + 1}) = Cardinality(D) + 1
      <3> HIDE DEF D, n
      <3> QED BY <1>3, <2>1, FS_AddElement
    <2> QED BY <1>3, <1>7, <2>2
  <1>13. FreshIntentKept'
    <2> SUFFICES ASSUME NEW id \in 1 .. n + 1, now - calls'[id].ts <= max_age,
                        n + 1 - id <= max_entries \div 2
                 PROVE  id \in DOMAIN intents'
      <3>1. ASSUME \A id \in 1 .. n + 1 :
                      /\ now - calls'[id].ts <= max_age
                      /\ n + 1 - id <= max_entries \div 2
                      => id \in DOMAIN intents'
            PROVE  \A id \in 1 .. Len(calls') :
                      /\ now' - calls'[id].ts <= max_age
                      /\ Len(calls') - id <= max_entries \div 2
                      => id \in DOMAIN intents' /\ intents'[id].recipients = calls'[id].stated
        <4> TAKE id \in 1 .. Len(calls')
        <4> HAVE now' - calls'[id].ts <= max_age /\ Len(calls') - id <= max_entries \div 2
        <4>1. id \in 1 .. n + 1 /\ now - calls'[id].ts <= max_age
              /\ n + 1 - id <= max_entries \div 2
          BY <1>4, <1>5
        <4>2. id \in DOMAIN intents'
          BY <3>1, <4>1
        <4>3. intents'[id] = [recipients |-> calls'[id].stated, ts |-> calls'[id].ts]
          <5> HIDE DEF D, kept, n
          <5> QED BY <1>7, <1>9, <4>2
        <4> QED BY <4>2, <4>3
      <3> QED BY <3>1 DEF FreshIntentKept
    <2>1. CASE id = n + 1
      BY <1>7, <2>1
    <2>2. CASE id # n + 1
      <3>1. id \in 1 .. n
        BY <1>1, <2>2
      <3>2. calls'[id] = calls[id]
        BY <1>5, <3>1
      <3>3. n - id <= max_entries \div 2
        BY <1>1, EntriesAssumption
      <3>4. id \in DOMAIN intents
        BY <3>1, <3>2, <3>3 DEF Registered, FreshIntentKept
      <3>5. id \notin Expired(intents, now)
        <4>1. intents[id].ts = calls[id].ts /\ calls[id].ts \in 0 .. now
          BY <1>1, <1>2, <3>1, <3>4 DEF CallRecord
        <4> QED BY <1>1, <3>2, <4>1, AgeAssumption DEF Expired
      <3> QED BY <1>3, <1>7, <3>3, <3>4, <3>5
    <2> QED BY <2>1, <2>2
  <1> QED BY <1>10, <1>11, <1>12, <1>13 DEF Registered

LEMMA RegisteredStep ==
    ASSUME Kinds, Registered, [Next]_vars
    PROVE  Registered'
  <1>0. now \in Nat /\ intents = Only(intents, DOMAIN intents)
    BY DEF Kinds, Registered, Only
  <1>1. ASSUME NEW id \in 0 .. Len(calls), intents' = got(intents, now, id), UNCHANGED <<now, calls>>
        PROVE  Registered'
    <2> DEFINE ids == DOMAIN intents \ ({id} \cap Expired(intents, now))
    <2>1. intents' = Only(intents, ids) /\ ids \in SUBSET DOMAIN intents
      BY <1>1 DEF got
    <2>2. \A i \in DOMAIN intents \ Expired(intents, now) : i \in ids
      OBVIOUS
    <2> HIDE DEF ids
    <2> QED BY <1>0, <1>1, <2>1, <2>2, RegistryShrinks
  <1>2. CASE inspect_call_raises
    <2> DEFINE kept == Evicted(intents, now)
               ids == DOMAIN kept
    <2>1. /\ ids \in SUBSET DOMAIN intents /\ kept = Only(intents, ids)
          /\ \A i \in DOMAIN intents \ Expired(intents, now) :
                Len(calls) - i <= max_entries \div 2 => i \in ids
      BY EvictionHere
    <2>2. intents' = kept /\ now' = now /\ calls' = calls
      BY <1>2 DEF inspect_call_raises
    <2> HIDE DEF kept, ids
    <2> QED BY <1>0, <2>1, <2>2, RegistryShrinks
  <1>3. ASSUME UNCHANGED <<intents, calls>>, now' \in Nat, now <= now' PROVE Registered'
    <2>1. intents' = Only(intents, DOMAIN intents)
      BY <1>0, <1>3
    <2> QED BY <1>3, <2>1, RegistryShrinks
  <1>4. CASE UNCHANGED <<now, intents, calls>>
    BY <1>0, <1>3, <1>4
  <1>5. CASE Tick
    BY <1>0, <1>3, <1>5 DEF Tick
  <1>6. UNCHANGED vars => UNCHANGED <<now, intents, calls>>
    BY DEF vars
  <1>7. ASSUME NEW id \in 0 .. Len(calls), NEW actual \in Outbound, inspect_egress(id, actual)
        PROVE  Registered'
    BY <1>1, <1>7 DEF inspect_egress
  <1>8. ASSUME NEW id \in 0 .. Len(calls), request(id) PROVE Registered'
    BY <1>1, <1>8 DEF request
  <1> QED BY <1>2, <1>4, <1>5, <1>6, <1>7, <1>8, CallRegistered
        DEF Next, configure_server, approve, mint, check_rate_limit, scan_network
-----------------------------------------------------------------------------
(* What follows of every run. *)

Inductive == Kinds /\ Registered /\ Windows

LEMMA InductiveInit == ASSUME Init PROVE Inductive
  <1>1. /\ now = 0 /\ ml_available \in BOOLEAN /\ calls = <<>> /\ intents = [id \in {} |-> {}]
        /\ events = [s \in Servers |-> <<>>] /\ attempts = [s \in Servers |-> <<>>]
    BY DEF Init
  <1>2. Kinds
    BY FS_EmptySet DEF Init, Kinds
  <1>3. Registered
    <2>1. DOMAIN intents = {} /\ Len(calls) = 0
      BY <1>1
    <2>2. Cardinality(DOMAIN intents) <= MostHeld
      BY <2>1, FS_EmptySet, EntriesAssumption DEF MostHeld
    <2>3. intents = [id \in DOMAIN intents |->
                       [recipients |-> calls[id].stated, ts |-> calls[id].ts]]
      BY <1>1, <2>1
    <2> QED BY <2>1, <2>2, <2>3 DEF Registered, FreshIntentKept
  <1>4. Windows
    <2>1. \A s \in Servers : Len(attempts[s]) = 0 /\ Len(events[s]) = 0
      BY <1>1
    <2>2. ASSUME NEW s \in Servers
          PROVE  1 .. Len(attempts[s]) = {} /\ 1 .. Len(events[s]) = {}
                 /\ 1 .. Len(attempts[s]) - Len(events[s]) = {}
      <3>1. Len(attempts[s]) = 0 /\ Len(events[s]) = 0 /\ 0 - 0 = 0 /\ 1 .. 0 = {}
        BY <2>1
      <3> QED BY <3>1
    <2>3. ASSUME NEW s \in Servers PROVE Tracks(s) /\ InOrder(s)
      <3>1. Len(events[s]) <= Len(attempts[s])
        BY <2>1
      <3> QED BY <2>2, <3>1 DEF Tracks, InOrder
    <2>4. WindowBound /\ RefusedWhenFull
      BY <2>2 DEF WindowBound, RefusedWhenFull
    <2> QED BY <2>3, <2>4 DEF Windows
  <1> QED BY <1>2, <1>3, <1>4 DEF Inductive

LEMMA InductiveAlways == Spec => []Inductive
  <1>1. Inductive /\ [Next]_vars => Inductive'
    BY KindsStep, RegisteredStep, WindowsStep DEF Inductive
  <1> QED BY <1>1, InductiveInit, PTL DEF Spec

\* The registry never outgrows its bound, and keeps what its newest calls stated:
\* an eviction takes at most half of it, and takes the oldest.
THEOREM RegistryIsBounded == Spec => []RegistryInv
  <1>1. ASSUME Inductive PROVE RegistryInv
    <2>1. /\ DOMAIN intents \in SUBSET (1 .. Len(calls)) /\ now \in Nat
          /\ Cardinality(DOMAIN intents) <= MostHeld /\ FreshIntentKept
          /\ intents = [id \in DOMAIN intents |->
                           [recipients |-> calls[id].stated, ts |-> calls[id].ts]]
      BY <1>1 DEF Inductive, Registered, Kinds
    <2>2. ASSUME NEW id \in DOMAIN intents PROVE intents[id] \in Intents
      <3>1. calls[id] \in CallRecord(now)
        <4>1. calls \in Seq(CallRecord(now)) /\ id \in 1 .. Len(calls)
          BY <1>1, <2>1 DEF Inductive, Kinds
        <4> QED BY <4>1, ElementOfSeq
      <3> QED BY <2>1, <3>1 DEF CallRecord, Intents
    <2>3. intents \in [DOMAIN intents -> Intents]
      BY <2>1, <2>2
    <2>4. TypeOK
      BY <1>1, <2>1, <2>3 DEF Inductive, Kinds, TypeOK, CallRecord, SendRecord
    <2> QED BY <2>1, <2>4 DEF RegistryInv
  <1> QED BY <1>1, InductiveAlways, PTL

\* An outbound call reaches nobody but those its own call stated, and only while
\* the call is no older than max_age, whatever was recorded or evicted since.
THEOREM SendsAreStated == Spec => []SentAsStated
  <1>1. ASSUME Inductive PROVE SentAsStated
    <2> SUFFICES ASSUME NEW id \in 0 .. Len(calls), Authorized(id) # {}
                 PROVE  /\ id # 0 /\ Authorized(id) \subseteq calls[id].stated
                        /\ now - calls[id].ts <= max_age
      BY DEF SentAsStated
    <2> DEFINE ids == DOMAIN intents \ ({id} \cap Expired(intents, now))
    <2>1. got(intents, now, id) = [i \in ids |-> intents[i]]
      BY DEF got, Only
    <2>2. id \in ids /\ Authorized(id) = intents[id].recipients
      BY <2>1 DEF Authorized
    <2>3. id \in DOMAIN intents /\ id \notin Expired(intents, now)
      BY <2>2
    <2>4. /\ id \in 1 .. Len(calls) /\ intents[id].recipients = calls[id].stated
          /\ intents[id].ts = calls[id].ts
      BY <1>1, <2>3 DEF Inductive, Registered
    <2>5. calls[id].ts \in 0 .. now /\ now \in Nat
      <3>1. calls \in Seq(CallRecord(now)) /\ now \in Nat
        BY <1>1 DEF Inductive, Kinds
      <3>2. calls[id] \in CallRecord(now)
        BY <2>4, <3>1, ElementOfSeq
      <3> QED BY <3>1, <3>2 DEF CallRecord
    <2>6. now - calls[id].ts <= max_age
      BY <2>3, <2>4, <2>5, AgeAssumption DEF Expired
    <2> QED BY <2>2, <2>4, <2>6
  <1> QED BY <1>1, InductiveAlways, PTL

\* No window of a server with a limit holds more granted sends than the limit.
THEOREM WindowsAreBounded == Spec => []WindowBound
  <1>1. Inductive => WindowBound
    BY DEF Inductive, Windows
  <1> QED BY <1>1, InductiveAlways, PTL

\* A send is refused only when its window holds more attempts than the limit.
THEOREM RefusalsAreDue == Spec => []RefusedWhenFull
  <1>1. Inductive => RefusedWhenFull
    BY DEF Inductive, Windows
  <1> QED BY <1>1, InductiveAlways, PTL
=============================================================================
