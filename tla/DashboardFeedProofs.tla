------------------------- MODULE DashboardFeedProofs -------------------------
(***************************************************************************)
(* For every set of dashboards and scans: whatever connects, leaves and is *)
(* removed at the awaits of the broadcasts, no dashboard is sent a scan    *)
(* twice, and one that stays misses a scan only when the walk of that      *)
(* scan's broadcast was overtaken.                                         *)
(***************************************************************************)
EXTENDS DashboardFeed, FiniteSetTheorems, SequenceTheorems, TLAPS

\* Positions ranked among those that stay fill 1 .. their number.
LEMMA RanksFill ==
    ASSUME NEW n \in Nat, NEW S \in SUBSET (1 .. n)
    PROVE  /\ Cardinality(S) \in 0 .. n
           /\ \A j \in S : /\ Cardinality({i \in S : i <= j}) \in 1 .. Cardinality(S)
                           /\ Cardinality({i \in S : i <= j}) <= j
           /\ \A k \in 1 .. Cardinality(S) :
                 \E j \in S : Cardinality({i \in S : i <= j}) = k
           /\ \A j, l \in S : Cardinality({i \in S : i <= j}) = Cardinality({i \in S : i <= l})
                                 => j = l
  <1> DEFINE Rank(j) == Cardinality({i \in S : i <= j})
             size == Cardinality(S)
             rank == [j \in S |-> Rank(j)]
  <1>1. IsFiniteSet(S) /\ size \in 0 .. n
    <2>1. IsFiniteSet(1 .. n) /\ Cardinality(1 .. n) = n
      BY FS_Interval
    <2>2. IsFiniteSet(S) /\ size <= n
      BY <2>1, FS_Subset
    <2> QED BY <2>2, FS_CardinalityType
  <1>2. ASSUME NEW j \in S
        PROVE  IsFiniteSet({i \in S : i <= j}) /\ Rank(j) \in 1 .. size /\ Rank(j) <= j
    <2> DEFINE below == {i \in S : i <= j}
    <2>0. S \subseteq Nat \ {0} /\ j \in Nat
      OBVIOUS
    <2>1. below \in SUBSET S /\ below \in SUBSET (1 .. j) /\ j \in below /\ j \in Nat
      <3>0. \A i \in S : i <= j => i \in 1 .. j
        BY <2>0
      <3>1. below \in SUBSET (1 .. j)
        BY <3>0
      <3>2. below \in SUBSET S /\ j \in below
        BY <2>0
      <3> QED BY <2>0, <3>1, <3>2
    <2>2. IsFiniteSet(1 .. j) /\ Cardinality(1 .. j) = j
      BY <2>1, FS_Interval
    <2> HIDE DEF below
    <2>3. IsFiniteSet(below) /\ Cardinality(below) <= size
      BY <1>1, <2>1, FS_Subset
    <2>4. Cardinality(below) <= j
      BY <2>1, <2>2, FS_Subset
    <2>5. Cardinality(below) \in Nat /\ Cardinality(below) # 0
      BY <2>1, <2>3, FS_CardinalityType, FS_EmptySet
    <2>6. Cardinality(below) \in 1 .. size
      BY <1>1, <2>3, <2>5
    <2> QED BY <2>3, <2>4, <2>6 DEF below
  <1>3. ASSUME NEW j \in S, NEW l \in S, j < l PROVE Rank(j) # Rank(l)
    <2> DEFINE low == {i \in S : i <= j}
               high == {i \in S : i <= l}
    <2>0. S \subseteq Nat
      OBVIOUS
    <2>1. low \in SUBSET high /\ l \in high /\ l \notin low
      <3>1. \A i \in S : i <= j => i <= l
        BY <1>3, <2>0
      <3>2. l <= l /\ ~(l <= j)
        BY <1>3, <2>0
      <3> QED BY <3>1, <3>2
    <2>2. IsFiniteSet(high)
      BY <1>2
    <2> HIDE DEF low, high
    <2>3. Cardinality(low) # Cardinality(high)
      BY <2>1, <2>2, FS_Subset
    <2> QED BY <2>3 DEF low, high
  <1>4. \A j, l \in S : Rank(j) = Rank(l) => j = l
    <2> HIDE DEF Rank
    <2> QED BY <1>3
  <1>5. rank \in Surjection(S, 1 .. size)
    <2> HIDE DEF Rank, size
    <2>1. rank \in [S -> 1 .. size]
      BY <1>2 DEF size, Rank
    <2>2. rank \in Injection(S, 1 .. size)
      BY <1>4, <2>1 DEF Injection, IsInjective
    <2>3. IsFiniteSet(1 .. size) /\ Cardinality(1 .. size) = size
      BY <1>1, FS_Interval
    <2> HIDE DEF rank
    <2> QED BY <2>2, <2>3, FS_Injection DEF size
  <1>6. \A k \in 1 .. size : \E j \in S : Rank(j) = k
    <2> HIDE DEF Rank, size
    <2> QED BY <1>5 DEF Surjection
  <1> QED BY <1>1, <1>2, <1>4, <1>6

-----------------------------------------------------------------------------
\* The new list holds sockets of the old one, each once and none further on.
ListStep == /\ active' \in Seq(Sockets) /\ IsInjective(active')
            /\ \A k \in DOMAIN active' : \E j \in DOMAIN active : j >= k /\ active[j] = active'[k]

\* Without removes the sockets it is given and no other, and moves none back.
LEMMA WithoutRemoves ==
    ASSUME active \in Seq(Sockets), IsInjective(active), NEW S
    PROVE  /\ Without(S) \in Seq(Sockets) /\ IsInjective(Without(S))
           /\ \A k \in DOMAIN Without(S) : \E j \in DOMAIN active :
                 j >= k /\ active[j] = Without(S)[k] /\ active[j] \notin S
  <1> DEFINE n == Len(active)
             size == Cardinality(Kept(S))
             Rank(j) == Cardinality({i \in Kept(S) : i <= j})
             Place(k) == CHOOSE j \in Kept(S) : Rank(j) = k
  <1>1. n \in Nat /\ DOMAIN active = 1 .. n /\ Kept(S) \in SUBSET (1 .. n)
    BY DEF Kept
  <1>2. /\ size \in Nat
        /\ \A k \in 1 .. size : \E j \in Kept(S) : Rank(j) = k
        /\ \A j \in Kept(S) : Rank(j) <= j
    <2> DEFINE kept == Kept(S)
    <2>1. kept \in SUBSET (1 .. n)
      BY <1>1
    <2> HIDE DEF n, kept
    <2>2. /\ Cardinality(kept) \in 0 .. n
          /\ \A j \in kept : Cardinality({i \in kept : i <= j}) <= j
          /\ \A k \in 1 .. Cardinality(kept) :
                \E j \in kept : Cardinality({i \in kept : i <= j}) = k
      BY <1>1, <2>1, RanksFill
    <2>3. Cardinality(kept) \in Nat
      BY <1>1, <2>2
    <2> QED BY <2>2, <2>3 DEF kept
  <1>3. ASSUME NEW k \in 1 .. size
        PROVE  /\ Place(k) \in 1 .. n /\ active[Place(k)] \in Sockets \ S
               /\ Rank(Place(k)) = k /\ Place(k) >= k
    <2> HIDE DEF size, Rank, n
    <2>1. Place(k) \in Kept(S) /\ Rank(Place(k)) = k
      BY <1>2
    <2> HIDE DEF Place
    <2>2. Place(k) \in 1 .. n /\ active[Place(k)] \notin S
      BY <1>1, <2>1 DEF Kept
    <2>3. Place(k) >= k
      BY <1>1, <1>2, <2>1
    <2> QED BY <1>1, <2>1, <2>2, <2>3
  <1>4. Without(S) = [k \in 1 .. size |-> active[Place(k)]]
    BY DEF Without
  <1> HIDE DEF size, Place, Rank, n
  <1>5. Without(S) \in Seq(Sockets) /\ DOMAIN Without(S) = 1 .. size
    BY <1>2, <1>3, <1>4, IsASeq
  <1>6. IsInjective(Without(S))
    <2> SUFFICES ASSUME NEW k \in 1 .. size, NEW l \in 1 .. size, Without(S)[k] = Without(S)[l]
                 PROVE  k = l
      BY <1>5 DEF IsInjective
    <2>1. active[Place(k)] = active[Place(l)]
      BY <1>4
    <2>2. Place(k) = Place(l)
      BY <1>1, <1>3, <2>1 DEF IsInjective
    <2> QED BY <1>3, <2>2
  <1>7. \A k \in DOMAIN Without(S) : \E j \in DOMAIN active :
           j >= k /\ active[j] = Without(S)[k] /\ active[j] \notin S
    BY <1>1, <1>3, <1>4, <1>5
  <1> QED BY <1>5, <1>6, <1>7

\* A socket that stays is still behind position i when no socket at or before i was
\* removed: those up to i are ranked before it.
LEMMA WithoutKeeps ==
    ASSUME active \in Seq(Sockets), NEW S, NEW i \in Nat, NEW k \in DOMAIN active,
           k > i, active[k] \notin S, \A j \in DOMAIN active : j <= i => active[j] \notin S
    PROVE  \E l \in DOMAIN Without(S) : l > i /\ Without(S)[l] = active[k]
  <1> DEFINE n == Len(active)
             kept == Kept(S)
             size == Cardinality(kept)
             below(j) == {m \in kept : m <= j}
             Place(l) == CHOOSE j \in kept : Cardinality(below(j)) = l
             r == Cardinality(below(k))
  <1>1. n \in Nat /\ DOMAIN active = 1 .. n /\ k \in 1 .. n
    OBVIOUS
  <1>2. kept \in SUBSET (1 .. n) /\ k \in kept
    BY <1>1 DEF Kept
  <1>3. \A j \in 1 .. i : j \in kept
    BY <1>1 DEF Kept
  <1>4. /\ r \in 1 .. size
        /\ \A j \in kept : Cardinality(below(j)) = r => j = k
    <2> HIDE DEF n, kept
    <2>1. /\ \A j \in kept : Cardinality({m \in kept : m <= j}) \in 1 .. Cardinality(kept)
          /\ \A j, l \in kept :
                Cardinality({m \in kept : m <= j}) = Cardinality({m \in kept : m <= l}) => j = l
      BY <1>1, <1>2, RanksFill
    <2> QED BY <1>2, <2>1
  <1>5. IsFiniteSet(below(k))
    <2>1. IsFiniteSet(1 .. n)
      BY <1>1, FS_Interval
    <2> HIDE DEF n, kept
    <2>2. below(k) \in SUBSET (1 .. n)
      BY <1>2
    <2> HIDE DEF below
    <2> QED BY <2>1, <2>2, FS_Subset
  <1>6. r > i
    <2> HIDE DEF n, kept
    <2>1. 1 .. i \in SUBSET below(k) /\ k \in below(k) /\ k \notin 1 .. i
      BY <1>1, <1>2, <1>3
    <2>2. Cardinality(1 .. i) = i
      BY FS_Interval
    <2> HIDE DEF below
    <2>3. Cardinality(1 .. i) <= Cardinality(below(k)) /\ Cardinality(1 .. i) # Cardinality(below(k))
      BY <1>5, <2>1, FS_Subset
    <2>4. Cardinality(below(k)) \in Nat
      BY <1>5, FS_CardinalityType
    <2> QED BY <2>2, <2>3, <2>4
  <1>7. Without(S) = [l \in 1 .. size |-> active[Place(l)]]
    BY DEF Without
  <1>8. Place(r) = k
    <2> HIDE DEF kept, below
    <2> QED BY <1>2, <1>4
  <1> HIDE DEF Place, r, size
  <1> QED BY <1>4, <1>6, <1>7, <1>8

-----------------------------------------------------------------------------
\* e has been sent to s.
Got(s, e) == e \in ToSet(received[s])

\* s is at a position the broadcast of e has still to reach.
Ahead(s, e) == \E k \in DOMAIN active : k > cast[e].index /\ active[k] = s

\* A broadcast is at a socket of the list's past, at a position from 1 on; one
\* that has not started has been sent to nobody.
CastsPlaced == \A e \in Scans :
    /\ cast[e].pc = "sending" => cast[e].to \in Sockets /\ cast[e].index > 0
    /\ cast[e].pc = "new" => cast[e].dead = << >> /\ \A s \in Sockets : ~Got(s, e)

\* The socket a broadcast is at and those ahead of it have not been sent the
\* scan, and it does not come to the one it is at again.
AheadUnsent == \A e \in Scans, s \in Sockets : cast[e].pc = "sending" =>
    /\ cast[e].to = s => ~Got(s, e) /\ ~Ahead(s, e)
    /\ Ahead(s, e) => ~Got(s, e)

\* A socket that has not connected is in no list and no broadcast.
NewUntouched == \A s \in Sockets : endpoint[s] = "new" =>
    /\ ~Contains(active, s) /\ received[s] = << >>
    /\ \A e \in Scans : cast[e].pc = "sending" => cast[e].to # s

\* Every dashboard that is connected and has not left is in the list, and only
\* those that left were found dead.
AllListed ==
    /\ \A s \in Sockets \ gone : endpoint[s] = "connected" => Contains(active, s)
    /\ \A e \in Scans : \A j \in DOMAIN cast[e].dead : cast[e].dead[j] \in gone

\* A recorded scan is in the snapshot of a dashboard that stays, was sent to it, or
\* will be by a broadcast under way, unless that was overtaken.
NoneLost == \A s \in Sockets \ gone, e \in Scans \ pulled :
    endpoint[s] = "connected" /\ e \in recorded =>
        \/ e \in snapshot[s] \/ Got(s, e)
        \/ cast[e].pc = "sending" /\ (cast[e].to = s \/ Ahead(s, e))

\* A scan is recorded when its broadcast starts.
RecordedStarted == recorded = {e \in Scans : cast[e].pc # "new"}

\* The inductive invariant: what no dashboard is sent twice rests on what is
\* ahead of each broadcast, and what none misses on who is in the list.
FeedIInv == /\ TypeOK /\ EndedNotActive /\ SentOnce /\ CastsPlaced /\ AheadUnsent
            /\ NewUntouched /\ AllListed /\ NoneLost /\ RecordedStarted

-----------------------------------------------------------------------------
\* s stays in the list it is in, and ahead of the walks it is ahead of, but for
\* those of E and those that are overtaken by now.
Stays(s, E) ==
    /\ Contains(active, s) => Contains(active', s)
    /\ \A f \in Scans \ pulled' : f \notin E /\ cast[f].pc = "sending" /\ Ahead(s, f)
          => \E l \in DOMAIN active' : l > cast[f].index /\ active'[l] = s

\* Who is not removed stays.
LEMMA RemovalKeeps ==
    ASSUME TypeOK, NEW S, active' = Without(S), NEW E,
           \A f \in Overtaken(S) \ E : f \in pulled', NEW s \in Sockets \ S
    PROVE  Stays(s, E)
  <1>1. active \in Seq(Sockets) /\ IsInjective(active) /\ cast \in [Scans -> Casts]
    BY DEF TypeOK
  <1>2. Contains(active, s) => Contains(active', s)
    <2> SUFFICES ASSUME Contains(active, s) PROVE Contains(active', s)
      OBVIOUS
    <2>1. PICK k \in 1 .. Len(active) : active[k] = s
      BY DEF Contains
    <2>2. k \in DOMAIN active /\ k > 0 /\ \A j \in DOMAIN active : ~(j <= 0)
      BY <1>1
    <2>3. \E l \in DOMAIN Without(S) : l > 0 /\ Without(S)[l] = active[k]
      BY <1>1, <2>1, <2>2, WithoutKeeps
    <2>4. active' \in Seq(Sockets)
      BY <1>1, WithoutRemoves
    <2> QED BY <2>1, <2>3, <2>4 DEF Contains
  <1>3. ASSUME NEW f \in Scans \ pulled', f \notin E, cast[f].pc = "sending", Ahead(s, f)
        PROVE  \E l \in DOMAIN active' : l > cast[f].index /\ active'[l] = s
    <2>1. PICK k \in DOMAIN active : k > cast[f].index /\ active[k] = s
      BY <1>3 DEF Ahead
    <2>2. cast[f].index \in Nat
      BY <1>1 DEF Casts
    <2>3. \A j \in DOMAIN active : j <= cast[f].index => active[j] \notin S
      BY <1>3 DEF Overtaken
    <2>4. \E l \in DOMAIN Without(S) : l > cast[f].index /\ Without(S)[l] = active[k]
      BY <1>1, <2>1, <2>2, <2>3, WithoutKeeps
    <2> QED BY <2>1, <2>4
  <1> QED BY <1>2, <1>3 DEF Stays

\* A broadcast goes on to the next socket and leaves the list alone, or it is
\* past the end and removes sockets it has found dead.
LEMMA GoOnCases ==
    ASSUME TypeOK, NEW e \in Scans, NEW i \in Nat \ {0}, NEW dead \in Seq(Sockets),
           GoOn(e, i, dead)
    PROVE  /\ ListStep /\ pulled \subseteq pulled' /\ pulled' \subseteq Scans
           /\ \E c \in Casts :
                 /\ cast' = [cast EXCEPT ![e] = c]
                 /\ c.index = i /\ c.dead = dead /\ c.pc # "new"
                 /\ c.pc = "sending" => i \in DOMAIN active /\ c.to = active[i] /\ active' = active
                 /\ c.pc # "sending" => i > Len(active)
  <1> DEFINE missing == {j \in DOMAIN dead : ~Contains(active, dead[j])}
             removed == {dead[j] : j \in {k \in DOMAIN dead : \A m \in missing : k < m}}
             next == [pc |-> "sending", index |-> i, to |-> active[i], dead |-> dead]
             last == [pc |-> IF missing = {} THEN "returned" ELSE "raised",
                      index |-> i, to |-> NoSocket, dead |-> dead]
  <1>1. active \in Seq(Sockets) /\ IsInjective(active) /\ pulled \subseteq Scans
    BY DEF TypeOK
  <1>2. \/ /\ ~AtEnd(i) /\ UNCHANGED <<active, pulled>>
           /\ cast' = [cast EXCEPT ![e] = next]
        \/ /\ AtEnd(i) /\ active' = Without(removed) /\ cast' = [cast EXCEPT ![e] = last]
           /\ pulled' = pulled \cup (Overtaken(removed) \ {e})
    BY DEF GoOn
  <1>3. CASE ~AtEnd(i) /\ UNCHANGED <<active, pulled>> /\ cast' = [cast EXCEPT ![e] = next]
    <2>1. i \in DOMAIN active
      BY <1>1, <1>3 DEF AtEnd
    <2>2. ListStep
      BY <1>1, <1>3 DEF ListStep
    <2>3. next \in Casts
      BY <1>1, <2>1 DEF Casts
    <2>4. /\ next.index = i /\ next.dead = dead /\ next.pc = "sending"
          /\ next.to = active[i]
      OBVIOUS
    <2> HIDE DEF next
    <2> QED BY <1>1, <1>3, <2>1, <2>2, <2>3, <2>4
  <1>4. CASE /\ AtEnd(i) /\ active' = Without(removed) /\ cast' = [cast EXCEPT ![e] = last]
             /\ pulled' = pulled \cup (Overtaken(removed) \ {e})
    <2>1. ListStep
      <3> HIDE DEF removed
      <3> QED BY <1>1, <1>4, WithoutRemoves DEF ListStep
    <2>3. last \in Casts /\ last.index = i /\ last.dead = dead /\ last.pc \in {"returned", "raised"}
      <3> HIDE DEF missing
      <3> QED BY DEF Casts
    <2>4. pulled \subseteq pulled' /\ pulled' \subseteq Scans
      <3> HIDE DEF removed
      <3> QED BY <1>1, <1>4 DEF Overtaken
    <2> HIDE DEF last
    <2> QED BY <1>4, <2>1, <2>3, <2>4 DEF AtEnd
  <1> QED BY <1>2, <1>3, <1>4

\* Whom a broadcast has not found dead stays when it goes on.
LEMMA GoOnStays ==
    ASSUME TypeOK, NEW e \in Scans, NEW i \in Nat \ {0}, NEW dead \in Seq(Sockets),
           GoOn(e, i, dead), NEW s \in Sockets, \A j \in DOMAIN dead : dead[j] # s
    PROVE  Stays(s, {e})
  <1> DEFINE missing == {j \in DOMAIN dead : ~Contains(active, dead[j])}
             removed == {dead[j] : j \in {k \in DOMAIN dead : \A m \in missing : k < m}}
  <1>1. \/ UNCHANGED <<active, pulled>>
        \/ /\ active' = Without(removed)
           /\ pulled' = pulled \cup (Overtaken(removed) \ {e})
    BY DEF GoOn
  <1>2. CASE UNCHANGED <<active, pulled>>
    BY <1>2 DEF Stays, Ahead
  <1>3. CASE /\ active' = Without(removed)
             /\ pulled' = pulled \cup (Overtaken(removed) \ {e})
    <2>1. s \notin removed
      OBVIOUS
    <2> HIDE DEF removed
    <2>2. \A f \in Overtaken(removed) \ {e} : f \in pulled'
      BY <1>3
    <2> QED BY <1>3, <2>1, <2>2, RemovalKeeps
  <1> QED BY <1>1, <1>2, <1>3

\* A step of the broadcast of e keeps the invariant when what it goes on to
\* has not been sent e, what it passed has, and those found dead have left.
LEMMA GoOnKeeps ==
    ASSUME FeedIInv, NEW e \in Scans, NEW i \in Nat \ {0}, NEW dead \in Seq(Sockets),
           GoOn(e, i, dead), UNCHANGED <<endpoint, gone, snapshot>>,
           recorded' = recorded \cup {e},
           received' \in [Sockets -> Seq(Scans)], SentOnce',
           \A s \in Sockets : /\ endpoint[s] = "new" => received'[s] = << >>
                              /\ Got(s, e) => Got(s, e)'
                              /\ \A f \in Scans \ {e} : Got(s, f)' <=> Got(s, f),
           \A s \in Sockets : (\E k \in DOMAIN active : k >= i /\ active[k] = s) => ~Got(s, e)',
           \A j \in DOMAIN dead : dead[j] \in gone,
           e \notin pulled => \A s \in Sockets \ gone : endpoint[s] = "connected" =>
              \/ e \in snapshot[s] \/ Got(s, e)'
              \/ \E k \in DOMAIN active : k >= i /\ active[k] = s
    PROVE  FeedIInv'
  <1> USE DEF FeedIInv
  <1>1. active \in Seq(Sockets) /\ IsInjective(active) /\ cast \in [Scans -> Casts]
    BY DEF TypeOK
  <1>2. PICK c \in Casts :
           /\ cast' = [cast EXCEPT ![e] = c]
           /\ c.index = i /\ c.dead = dead /\ c.pc # "new"
           /\ c.pc = "sending" => i \in DOMAIN active /\ c.to = active[i] /\ active' = active
           /\ c.pc # "sending" => i > Len(active)
    <2>1. TypeOK
      OBVIOUS
    <2> HIDE DEF FeedIInv
    <2>2. \E c \in Casts :
             /\ cast' = [cast EXCEPT ![e] = c]
             /\ c.index = i /\ c.dead = dead /\ c.pc # "new"
             /\ c.pc = "sending" => i \in DOMAIN active /\ c.to = active[i] /\ active' = active
             /\ c.pc # "sending" => i > Len(active)
      BY <2>1, GoOnCases, SMTT(60)
    <2> QED BY <2>2
  <1>3. ListStep /\ pulled \subseteq pulled' /\ pulled' \subseteq Scans
    BY GoOnCases
  <1>17. ASSUME NEW s \in Sockets \ gone PROVE Stays(s, {e})
    <2>1. TypeOK /\ \A j \in DOMAIN dead : dead[j] # s
      OBVIOUS
    <2> HIDE DEF FeedIInv
    <2> QED BY <2>1, GoOnStays
  <1>4. cast'[e] = c /\ \A f \in Scans \ {e} : cast'[f] = cast[f]
    BY <1>1, <1>2
  <1>5. \A k \in DOMAIN active : active[k] \in Sockets
    BY <1>1
  <1>6. ASSUME NEW s \in Sockets, Contains(active, s)' PROVE Contains(active, s)
    <2>1. PICK k \in DOMAIN active' : active'[k] = s
      BY <1>3, <1>6 DEF Contains, ListStep
    <2>2. \E j \in DOMAIN active : active[j] = s
      BY <1>3, <2>1 DEF ListStep
    <2> QED BY <1>1, <2>2 DEF Contains
  <1>7. ASSUME NEW s \in Sockets, NEW f \in Scans \ {e}, Ahead(s, f)' PROVE Ahead(s, f)
    <2>1. PICK k \in DOMAIN active' : k > cast[f].index /\ active'[k] = s
      BY <1>4, <1>7 DEF Ahead
    <2>2. PICK j \in DOMAIN active : j >= k /\ active[j] = s
      BY <1>3, <2>1 DEF ListStep
    <2>3. cast[f].index \in Nat /\ j \in Nat /\ k \in Nat
      <3>1. cast[f] \in Casts
        BY <1>1
      <3>2. cast[f].index \in Nat
        BY <3>1 DEF Casts
      <3>3. DOMAIN active = 1 .. Len(active) /\ DOMAIN active' = 1 .. Len(active')
        BY <1>1, <1>3 DEF ListStep
      <3> QED BY <3>2, <3>3
    <2> QED BY <2>1, <2>2, <2>3 DEF Ahead
  <1>8. \A s \in Sockets : c.pc = "sending" =>
           (Ahead(s, e)' <=> \E k \in DOMAIN active : k > i /\ active[k] = s)
    BY <1>2, <1>4 DEF Ahead
  <1>9. TypeOK'
    BY <1>1, <1>2, <1>3 DEF TypeOK, ListStep
  <1>10. EndedNotActive'
    BY <1>6 DEF EndedNotActive
  <1>11. CastsPlaced'
    <2>1. ASSUME NEW f \in Scans, f # e
          PROVE  /\ cast'[f].pc = "sending" => cast'[f].to \in Sockets /\ cast'[f].index > 0
                 /\ cast'[f].pc = "new" => cast'[f].dead = << >> /\ \A s \in Sockets : ~Got(s, f)'
      BY <1>4, <2>1 DEF CastsPlaced
    <2>2. cast'[e].pc = "sending" => cast'[e].to \in Sockets /\ cast'[e].index > 0
      BY <1>2, <1>4, <1>5
    <2> QED BY <1>2, <1>4, <2>1, <2>2 DEF CastsPlaced
  <1>12. AheadUnsent'
    <2>1. ASSUME NEW f \in Scans \ {e}, NEW s \in Sockets, cast'[f].pc = "sending"
          PROVE  /\ cast'[f].to = s => ~Got(s, f)' /\ ~Ahead(s, f)'
                 /\ Ahead(s, f)' => ~Got(s, f)'
      <3>1. cast[f].pc = "sending" /\ cast'[f].to = cast[f].to
        BY <1>4, <2>1
      <3>2. /\ cast[f].to = s => ~Got(s, f) /\ ~Ahead(s, f)
            /\ Ahead(s, f) => ~Got(s, f)
        BY <3>1 DEF AheadUnsent
      <3>3. Got(s, f)' <=> Got(s, f)
        OBVIOUS
      <3> QED BY <1>7, <3>1, <3>2, <3>3
    <2>2. ASSUME NEW s \in Sockets, c.pc = "sending"
          PROVE  /\ c.to = s => ~Got(s, e)' /\ ~Ahead(s, e)'
                 /\ Ahead(s, e)' => ~Got(s, e)'
      <3>1. c.to = active[i] /\ i \in DOMAIN active
        BY <1>2, <2>2
      <3>2. c.to = s => ~Got(s, e)'
        <4>1. i >= i
          OBVIOUS
        <4> QED BY <3>1, <4>1
      <3>3. c.to = s => ~Ahead(s, e)'
        <4>1. \A k \in DOMAIN active : active[k] = active[i] => k = i
          BY <1>1, <3>1 DEF IsInjective
        <4>2. ~(i > i)
          OBVIOUS
        <4> QED BY <1>8, <2>2, <3>1, <4>1, <4>2
      <3>4. (\E k \in DOMAIN active : k > i /\ active[k] = s)
               => \E k \in DOMAIN active : k >= i /\ active[k] = s
        BY <1>1
      <3>5. Ahead(s, e)' => ~Got(s, e)'
        BY <1>8, <2>2, <3>4
      <3> QED BY <3>2, <3>3, <3>5
    <2>3. \A f \in Scans, s \in Sockets : cast'[f].pc = "sending" =>
             /\ cast'[f].to = s => ~Got(s, f)' /\ ~Ahead(s, f)'
             /\ Ahead(s, f)' => ~Got(s, f)'
      BY <1>4, <2>1, <2>2
    <2> QED BY <2>3 DEF AheadUnsent
  <1>13. NewUntouched'
    <2>1. \A s \in Sockets : endpoint[s] = "new" => ~Contains(active, s)' /\ received'[s] = << >>
      BY <1>6 DEF NewUntouched
    <2>2. \A s \in Sockets : endpoint[s] = "new" /\ c.pc = "sending" => c.to # s
      BY <1>1, <1>2 DEF NewUntouched, Contains
    <2>3. ASSUME NEW s \in Sockets, endpoint[s] = "new", NEW f \in Scans
          PROVE  ~(cast'[f].pc = "sending" /\ cast'[f].to = s)
      <3>1. CASE f = e
        BY <1>4, <2>2, <2>3, <3>1
      <3>2. CASE f # e
        <4>1. cast'[f] = cast[f]
          BY <1>4, <3>2
        <4>2. ~(cast[f].pc = "sending" /\ cast[f].to = s)
          BY <2>3 DEF NewUntouched
        <4> QED BY <4>1, <4>2
      <3> QED BY <3>1, <3>2
    <2> QED BY <2>1, <2>3 DEF NewUntouched
  <1>14. AllListed'
    <2>1. \A s \in Sockets \ gone : endpoint[s] = "connected" => Contains(active, s)'
      BY <1>17 DEF AllListed, Stays
    <2>2. \A f \in Scans : \A j \in DOMAIN cast'[f].dead : cast'[f].dead[j] \in gone
      BY <1>2, <1>4 DEF AllListed
    <2> QED BY <2>1, <2>2 DEF AllListed
  <1>15. NoneLost'
    <2> SUFFICES ASSUME NEW s \in Sockets \ gone, NEW f \in Scans \ pulled',
                        endpoint[s] = "connected", f \in recorded'
                 PROVE  \/ f \in snapshot[s] \/ Got(s, f)'
                        \/ cast'[f].pc = "sending" /\ (cast'[f].to = s \/ Ahead(s, f)')
      BY DEF NoneLost
    <2>0. f \notin pulled
      BY <1>3
    <2>1. CASE f # e
      <3>1. cast[f].pc = "sending" /\ Ahead(s, f) => Ahead(s, f)'
        <4>1. cast'[f] = cast[f] /\ Stays(s, {e})
          BY <1>4, <1>17, <2>1
        <4>2. f \notin {e}
          BY <2>1
        <4>3. cast[f].pc = "sending" /\ Ahead(s, f)
                 => \E l \in DOMAIN active' : l > cast[f].index /\ active'[l] = s
          BY <4>1, <4>2, Zenon DEF Stays
        <4> QED BY <4>1, <4>3 DEF Ahead
      <3> QED BY <1>4, <2>0, <2>1, <3>1 DEF NoneLost
    <2>2. CASE f = e
      <3>1. ASSUME NEW k \in DOMAIN active, k >= i, active[k] = s
            PROVE  cast'[e].pc = "sending" /\ (cast'[e].to = s \/ Ahead(s, e)')
        <4>1. c.pc = "sending"
          BY <1>1, <1>2, <3>1
        <4>2. CASE k = i
          BY <1>2, <1>4, <3>1, <4>1, <4>2
        <4>3. CASE k > i
          BY <1>4, <1>8, <3>1, <4>1, <4>3
        <4> QED BY <1>1, <3>1, <4>2, <4>3
      <3> QED BY <2>0, <2>2, <3>1
    <2> QED BY <2>1, <2>2
  <1>16. RecordedStarted'
    BY <1>2, <1>4 DEF RecordedStarted
  <1> QED BY <1>9, <1>10, <1>11, <1>12, <1>13, <1>14, <1>15, <1>16

\* connect() appends a socket no list and no broadcast has yet.
LEMMA ConnectKeeps ==
    ASSUME FeedIInv, NEW x \in Sockets, connect(x)
    PROVE  FeedIInv'
  <1> USE DEF FeedIInv, connect
  <1>1. active \in Seq(Sockets) /\ IsInjective(active) /\ Len(active) \in Nat
    BY DEF TypeOK
  <1>2. /\ active' \in Seq(Sockets) /\ DOMAIN active' = 1 .. Len(active) + 1
        /\ \A k \in 1 .. Len(active) : active'[k] = active[k]
        /\ active'[Len(active) + 1] = x
    BY <1>1
  <1>3. \A k \in 1 .. Len(active) : active[k] # x
    BY DEF NewUntouched, Contains
  <1>4. IsInjective(active')
    <2>1. DOMAIN active = 1 .. Len(active)
      BY <1>1
    <2>2. \A k, l \in 1 .. Len(active) : active[k] = active[l] => k = l
      BY <1>1, <2>1 DEF IsInjective
    <2>3. \A k \in DOMAIN active' : k \in 1 .. Len(active) \/ k = Len(active) + 1
      BY <1>1, <1>2
    <2> QED BY <1>2, <1>3, <2>2, <2>3 DEF IsInjective
  <1>5. \A s \in Sockets : Contains(active, s)' <=> Contains(active, s) \/ s = x
    <2>1. \A k \in 1 .. Len(active') : k \in 1 .. Len(active) \/ k = Len(active) + 1
      BY <1>1, <1>2
    <2>2. Len(active') = Len(active) + 1
      BY <1>1
    <2>3. 1 .. Len(active) \subseteq 1 .. Len(active') /\ Len(active) + 1 \in 1 .. Len(active')
      BY <1>1, <2>2
    <2> QED BY <1>2, <2>1, <2>3 DEF Contains
  <1>6. \A s \in Sockets, e \in Scans : Ahead(s, e) => Ahead(s, e)'
    BY <1>1, <1>2 DEF Ahead
  <1>7. \A s \in Sockets, e \in Scans : Ahead(s, e)' => Ahead(s, e) \/ s = x
    <2>1. \A k \in DOMAIN active' : k \in DOMAIN active \/ k = Len(active) + 1
      BY <1>1, <1>2
    <2> QED BY <1>1, <1>2, <2>1 DEF Ahead
  <1>8. \A s \in Sockets, e \in Scans : Got(s, e)' <=> Got(s, e)
    BY DEF Got
  <1>9. \A e \in Scans : ~Got(x, e) /\ (cast[e].pc = "sending" => cast[e].to # x)
    BY DEF NewUntouched, Got, ToSet
  <1>10. TypeOK'
    BY <1>2, <1>4 DEF TypeOK
  <1>11. \A s \in Sockets : /\ endpoint'[s] = IF s = x THEN "connected" ELSE endpoint[s]
                            /\ snapshot'[s] = IF s = x THEN recorded ELSE snapshot[s]
    BY DEF TypeOK
  <1>12. EndedNotActive'
    BY <1>5, <1>11 DEF EndedNotActive
  <1>13. SentOnce'
    BY DEF SentOnce
  <1>14. CastsPlaced'
    BY <1>8 DEF CastsPlaced
  <1>15. AheadUnsent'
    BY <1>7, <1>8, <1>9 DEF AheadUnsent
  <1>16. NewUntouched'
    BY <1>5, <1>11 DEF NewUntouched
  <1>17. AllListed'
    BY <1>5, <1>11 DEF AllListed
  <1>18. NoneLost'
    BY <1>6, <1>8, <1>11 DEF NoneLost
  <1>19. RecordedStarted'
    BY DEF RecordedStarted
  <1> QED BY <1>10, <1>12, <1>13, <1>14, <1>15, <1>16, <1>17, <1>18, <1>19

\* A peer that leaves changes no list: nothing is promised to it from then on.
LEMMA PeerLeavesKeeps ==
    ASSUME FeedIInv, NEW x \in Sockets, PeerLeaves(x)
    PROVE  FeedIInv'
  <1> USE DEF FeedIInv, PeerLeaves
  <1>1. \A s \in Sockets, e \in Scans : /\ Got(s, e)' <=> Got(s, e)
                                        /\ Ahead(s, e)' <=> Ahead(s, e)
    BY DEF Got, Ahead
  <1>2. TypeOK'
    BY DEF TypeOK
  <1>3. EndedNotActive' /\ SentOnce' /\ RecordedStarted'
    BY DEF EndedNotActive, SentOnce, RecordedStarted
  <1>4. CastsPlaced' /\ AheadUnsent' /\ NewUntouched'
    BY <1>1 DEF CastsPlaced, AheadUnsent, NewUntouched
  <1>6. AllListed' /\ NoneLost'
    BY <1>1 DEF AllListed, NoneLost
  <1> QED BY <1>2, <1>3, <1>4, <1>6

\* disconnect() removes the socket: what lies ahead of a broadcast may shrink.
LEMMA DisconnectKeeps ==
    ASSUME FeedIInv, NEW x \in Sockets, disconnect(x)
    PROVE  FeedIInv'
  <1> USE DEF FeedIInv, disconnect
  <1>1. active \in Seq(Sockets) /\ IsInjective(active) /\ cast \in [Scans -> Casts]
    BY DEF TypeOK
  <1>2. /\ active' \in Seq(Sockets) /\ IsInjective(active')
        /\ \A k \in DOMAIN active' : \E j \in DOMAIN active :
              j >= k /\ active[j] = active'[k] /\ active[j] \notin {x}
    BY <1>1, WithoutRemoves
  <1>3. ASSUME NEW s \in Sockets, Contains(active, s)' PROVE Contains(active, s) /\ s # x
    <2>1. PICK k \in DOMAIN active' : active'[k] = s
      BY <1>2, <1>3 DEF Contains
    <2>2. \E j \in DOMAIN active : active[j] = s /\ s # x
      BY <1>2, <2>1
    <2> QED BY <1>1, <2>2 DEF Contains
  <1>4. ASSUME NEW s \in Sockets, NEW e \in Scans, Ahead(s, e)' PROVE Ahead(s, e)
    <2>1. PICK k \in DOMAIN active' : k > cast[e].index /\ active'[k] = s
      BY <1>4 DEF Ahead
    <2>2. PICK j \in DOMAIN active : j >= k /\ active[j] = s
      BY <1>2, <2>1
    <2>3. cast[e].index \in Nat /\ j \in Nat /\ k \in Nat
      <3>1. cast[e].index \in Nat
        BY <1>1 DEF Casts
      <3>2. DOMAIN active = 1 .. Len(active) /\ DOMAIN active' = 1 .. Len(active')
        BY <1>1, <1>2
      <3> QED BY <3>1, <3>2
    <2> QED BY <2>1, <2>2, <2>3 DEF Ahead
  <1>5. \A s \in Sockets, e \in Scans : Got(s, e)' <=> Got(s, e)
    BY DEF Got
  <1>6. \A s \in Sockets : endpoint'[s] = IF s = x THEN "ended" ELSE endpoint[s]
    BY DEF TypeOK
  <1>7. TypeOK'
    BY <1>2 DEF TypeOK, Overtaken
  <1>8. EndedNotActive'
    BY <1>3, <1>6 DEF EndedNotActive
  <1>9. SentOnce' /\ RecordedStarted'
    BY DEF SentOnce, RecordedStarted
  <1>10. CastsPlaced'
    BY <1>5 DEF CastsPlaced
  <1>11. AheadUnsent'
    BY <1>4, <1>5 DEF AheadUnsent
  <1>12. NewUntouched'
    <2>1. \A s \in Sockets : endpoint'[s] = "new" => endpoint[s] = "new"
      BY <1>6
    <2> QED BY <1>3, <2>1 DEF NewUntouched
  <1>13. \A s \in Sockets \ gone : s # x /\ Stays(s, {})
    <2>1. \A s \in Sockets \ gone : s \in Sockets \ {x}
      OBVIOUS
    <2>2. \A f \in Overtaken({x}) \ {} : f \in pulled'
      OBVIOUS
    <2> QED BY <2>1, <2>2, RemovalKeeps
  <1>14. AllListed'
    BY <1>6, <1>13 DEF AllListed, Stays
  <1>15. NoneLost'
    <2> SUFFICES ASSUME NEW s \in Sockets \ gone, NEW f \in Scans \ pulled',
                        endpoint'[s] = "connected", f \in recorded
                 PROVE  \/ f \in snapshot[s] \/ Got(s, f)
                        \/ cast[f].pc = "sending" /\ (cast[f].to = s \/ Ahead(s, f)')
      BY <1>5 DEF NoneLost
    <2>1. endpoint[s] = "connected" /\ f \notin pulled
      BY <1>6, <1>13
    <2>2. \/ f \in snapshot[s] \/ Got(s, f)
          \/ cast[f].pc = "sending" /\ (cast[f].to = s \/ Ahead(s, f))
      BY <2>1 DEF NoneLost
    <2>3. cast[f].pc = "sending" /\ Ahead(s, f) => Ahead(s, f)'
      <3>1. f \notin {}
        OBVIOUS
      <3>2. cast[f].pc = "sending" /\ Ahead(s, f)
               => \E l \in DOMAIN active' : l > cast[f].index /\ active'[l] = s
        BY <1>13, <3>1, Zenon DEF Stays
      <3> QED BY <3>2 DEF Ahead
    <2> QED BY <2>2, <2>3
  <1> QED BY <1>7, <1>8, <1>9, <1>10, <1>11, <1>12, <1>14, <1>15

\* A scan starts its broadcast at the first socket, having been sent to none.
LEMMA ScanKeeps ==
    ASSUME FeedIInv, NEW e \in Scans, scan(e)
    PROVE  FeedIInv'
  <1> USE DEF FeedIInv, scan
  <1>1. \A s \in Sockets, f \in Scans : Got(s, f)' <=> Got(s, f)
    BY DEF Got
  <1>2. \A s \in Sockets : ~Got(s, e)
    BY DEF CastsPlaced
  <1>3. ASSUME NEW s \in Sockets \ gone, endpoint[s] = "connected"
        PROVE  \E k \in DOMAIN active : k >= 1 /\ active[k] = s
    <2>1. Contains(active, s)
      BY <1>3 DEF AllListed
    <2>2. active \in Seq(Sockets)
      BY DEF TypeOK
    <2> QED BY <2>1, <2>2 DEF Contains
  <1>4. received' \in [Sockets -> Seq(Scans)] /\ SentOnce'
    BY DEF TypeOK, SentOnce
  <1>5. \A s \in Sockets : endpoint[s] = "new" => received'[s] = << >>
    BY DEF NewUntouched
  <1>6. 1 \in Nat \ {0} /\ << >> \in Seq(Sockets)
    OBVIOUS
  <1>7. \A j \in DOMAIN << >> : << >>[j] \in gone
    OBVIOUS
  <1> QED BY <1>1, <1>2, <1>3, <1>4, <1>5, <1>6, <1>7, GoOnKeeps

\* What Append adds to the elements of a sequence.
LEMMA AppendedSet ==
    ASSUME NEW S, NEW r \in Seq(S), NEW e \in S
    PROVE  ToSet(Append(r, e)) = ToSet(r) \cup {e}
  <1> DEFINE n == Len(r)
             q == Append(r, e)
  <1>1. n \in Nat /\ DOMAIN r = 1 .. n
    OBVIOUS
  <1>2. /\ DOMAIN q = 1 .. n + 1 /\ q[n + 1] = e
        /\ \A j \in 1 .. n : q[j] = r[j]
    BY <1>1
  <1> HIDE DEF n, q
  <1>3. \A k \in 1 .. n + 1 : k \in 1 .. n \/ k = n + 1
    BY <1>1
  <1>4. 1 .. n \subseteq 1 .. n + 1 /\ n + 1 \in 1 .. n + 1
    BY <1>1
  <1>5. ToSet(q) = ToSet(r) \cup {e}
    BY <1>1, <1>2, <1>3, <1>4 DEF ToSet
  <1> QED BY <1>5 DEF q

\* A send, whether it succeeds or not, goes on to the sockets ahead.
LEMMA SendKeeps ==
    ASSUME FeedIInv, NEW e \in Scans, send_json(e)
    PROVE  FeedIInv'
  <1> USE DEF FeedIInv
  <1> DEFINE i == cast[e].index + 1
             dead == cast[e].dead
  <1>1. cast[e] \in Casts /\ cast[e].pc = "sending"
    BY DEF send_json, TypeOK
  <1>0. PICK s0 \in Sockets : s0 = cast[e].to
    BY <1>1 DEF CastsPlaced
  <1>2. i \in Nat \ {0} /\ dead \in Seq(Sockets)
        /\ Append(dead, s0) \in Seq(Sockets)
    <2>1. cast[e].index \in Nat /\ dead \in Seq(Sockets)
      BY <1>1 DEF Casts
    <2> QED BY <2>1
  <1>3. UNCHANGED <<endpoint, gone, snapshot>> /\ recorded' = recorded \cup {e}
    BY <1>1 DEF send_json, RecordedStarted
  <1>4. ~Got(s0, e) /\ ~Ahead(s0, e) /\ \A s \in Sockets : Ahead(s, e) => ~Got(s, e)
    BY <1>0, <1>1 DEF AheadUnsent
  <1>5. \A s \in Sockets : (\E k \in DOMAIN active : k >= i /\ active[k] = s) => Ahead(s, e)
    <2>1. cast[e].index \in Nat /\ active \in Seq(Sockets)
      BY <1>1 DEF Casts, TypeOK
    <2> QED BY <2>1 DEF Ahead
  <1>6. \A s \in Sockets : Ahead(s, e) => \E k \in DOMAIN active : k >= i /\ active[k] = s
    <2>1. cast[e].index \in Nat /\ active \in Seq(Sockets)
      BY <1>1 DEF Casts, TypeOK
    <2> QED BY <2>1 DEF Ahead
  <1>7. CASE received' = [received EXCEPT ![s0] = Append(@, e)] /\ GoOn(e, i, dead)
    <2>1. received \in [Sockets -> Seq(Scans)]
      BY DEF TypeOK
    <2>2. /\ received' \in [Sockets -> Seq(Scans)]
          /\ received'[s0] = Append(received[s0], e)
          /\ \A s \in Sockets \ {s0} : received'[s] = received[s]
      BY <1>2, <1>7, <2>1
    <2>3. \A s \in Sockets, f \in Scans : Got(s, f)' <=> Got(s, f) \/ (s = s0 /\ f = e)
      <3>1. ASSUME NEW f \in Scans PROVE Got(s0, f)' <=> Got(s0, f) \/ f = e
        <4>1. received[s0] \in Seq(Scans) /\ Len(received[s0]) \in Nat
          BY <1>2, <2>1
        <4>2. ToSet(Append(received[s0], e)) = ToSet(received[s0]) \cup {e}
          BY <4>1, AppendedSet
        <4> QED BY <2>2, <4>2 DEF Got
      <3>2. \A s \in Sockets \ {s0}, f \in Scans : Got(s, f)' <=> Got(s, f)
        BY <2>2 DEF Got
      <3> QED BY <3>1, <3>2
    <2>4. SentOnce'
      <3>1. ASSUME NEW s \in Sockets \ {s0}, NEW k \in DOMAIN received'[s],
                   NEW l \in DOMAIN received'[s], k # l
            PROVE  received'[s][k] # received'[s][l]
        BY <2>2, <3>1 DEF SentOnce
      <3>2. ASSUME NEW k \in DOMAIN received'[s0], NEW l \in DOMAIN received'[s0], k # l
            PROVE  received'[s0][k] # received'[s0][l]
        <4> DEFINE r == received[s0]
                   n == Len(r)
        <4>1. r \in Seq(Scans) /\ n \in Nat /\ DOMAIN r = 1 .. n
          BY <1>2, <2>1
        <4>2. /\ DOMAIN Append(r, e) = 1 .. n + 1 /\ Append(r, e)[n + 1] = e
              /\ \A j \in 1 .. n : Append(r, e)[j] = r[j]
          BY <4>1
        <4>3. \A j \in 1 .. n : r[j] # e
          BY <1>4, <4>1 DEF Got, ToSet
        <4>4. \A j, m \in 1 .. n : j # m => r[j] # r[m]
          BY <1>2, <4>1 DEF SentOnce
        <4>5. k \in 1 .. n + 1 /\ l \in 1 .. n + 1
          BY <2>2, <4>2
        <4>6. (k \in 1 .. n \/ k = n + 1) /\ (l \in 1 .. n \/ l = n + 1)
          BY <4>1, <4>5
        <4> HIDE DEF r, n
        <4>7. Append(r, e)[k] # Append(r, e)[l]
          BY <3>2, <4>2, <4>3, <4>4, <4>6
        <4> QED BY <2>2, <4>7 DEF r
      <3> QED BY <3>1, <3>2 DEF SentOnce
    <2>5. \A s \in Sockets : endpoint[s] = "new" => received'[s] = << >>
      BY <1>0, <1>1, <2>2 DEF NewUntouched
    <2>6. \A s \in Sockets : (\E k \in DOMAIN active : k >= i /\ active[k] = s) => ~Got(s, e)'
      BY <1>4, <1>5, <2>3
    <2>7. \A j \in DOMAIN dead : dead[j] \in gone
      BY DEF AllListed
    <2>8. ASSUME NEW s \in Sockets \ gone, e \notin pulled, endpoint[s] = "connected"
          PROVE  \/ e \in snapshot[s] \/ Got(s, e)'
                 \/ \E k \in DOMAIN active : k >= i /\ active[k] = s
      <3>1. e \in recorded
        BY <1>1 DEF RecordedStarted
      <3>2. e \in snapshot[s] \/ Got(s, e) \/ cast[e].to = s \/ Ahead(s, e)
        BY <2>8, <3>1 DEF NoneLost
      <3> QED BY <1>0, <1>6, <2>3, <3>2
    <2> HIDE DEF i, dead
    <2> QED BY <1>2, <1>3, <1>7, <2>2, <2>3, <2>4, <2>5, <2>6, <2>7, <2>8, GoOnKeeps
  <1>8. CASE s0 \in gone /\ UNCHANGED received /\ GoOn(e, i, Append(dead, s0))
    <2>1. \A s \in Sockets, f \in Scans : Got(s, f)' <=> Got(s, f)
      BY <1>8 DEF Got
    <2>2. received' \in [Sockets -> Seq(Scans)] /\ SentOnce'
      BY <1>8 DEF TypeOK, SentOnce
    <2>3. \A s \in Sockets : endpoint[s] = "new" => received'[s] = << >>
      BY <1>8 DEF NewUntouched
    <2>4. \A s \in Sockets : (\E k \in DOMAIN active : k >= i /\ active[k] = s) => ~Got(s, e)'
      BY <1>4, <1>5, <2>1
    <2>5. \A j \in DOMAIN Append(dead, s0) : Append(dead, s0)[j] \in gone
      <3>1. \A j \in DOMAIN dead : dead[j] \in gone
        BY DEF AllListed
      <3>2. dead \in Seq(Sockets)
        BY <1>2
      <3> HIDE DEF dead
      <3> QED BY <1>8, <3>1, <3>2
    <2>6. ASSUME NEW s \in Sockets \ gone, e \notin pulled, endpoint[s] = "connected"
          PROVE  \/ e \in snapshot[s] \/ Got(s, e)'
                 \/ \E k \in DOMAIN active : k >= i /\ active[k] = s
      <3>1. e \in recorded
        BY <1>1 DEF RecordedStarted
      <3>2. e \in snapshot[s] \/ Got(s, e) \/ cast[e].to = s \/ Ahead(s, e)
        BY <2>6, <3>1 DEF NoneLost
      <3> QED BY <1>0, <1>6, <1>8, <2>1, <3>2
    <2> HIDE DEF i, dead
    <2> QED BY <1>2, <1>3, <1>8, <2>1, <2>2, <2>3, <2>4, <2>5, <2>6, GoOnKeeps
  <1> QED BY <1>0, <1>7, <1>8 DEF send_json

-----------------------------------------------------------------------------
\* Init establishes the invariant and every step keeps it.
LEMMA FeedInductive == Spec => []FeedIInv
  <1>1. ASSUME Init PROVE FeedIInv
    <2> USE <1>1 DEF Init
    <2>1. TypeOK
      <3>1. << >> \in Seq(Sockets) /\ << >> \in Seq(Scans) /\ IsInjective(<< >>)
        BY DEF IsInjective
      <3>2. cast \in [Scans -> Casts]
        BY <3>1 DEF Casts
      <3> QED BY <3>1, <3>2 DEF TypeOK
    <2>2. \A s \in Sockets : ~Contains(active, s)
      BY DEF Contains
    <2>3. \A s \in Sockets, e \in Scans : ~Got(s, e)
      BY DEF Got, ToSet
    <2>4. EndedNotActive /\ SentOnce
      BY DEF EndedNotActive, SentOnce
    <2>5. CastsPlaced /\ AheadUnsent /\ RecordedStarted
      BY <2>3 DEF CastsPlaced, AheadUnsent, RecordedStarted
    <2>6. NewUntouched /\ AllListed /\ NoneLost
      BY <2>2 DEF NewUntouched, AllListed, NoneLost
    <2> QED BY <2>1, <2>4, <2>5, <2>6 DEF FeedIInv
  <1>2. ASSUME FeedIInv, [Next]_vars PROVE FeedIInv'
    <2>1. ASSUME NEW x \in Sockets, connect(x) \/ PeerLeaves(x) \/ disconnect(x)
          PROVE  FeedIInv'
      BY <1>2, <2>1, ConnectKeeps, PeerLeavesKeeps, DisconnectKeeps
    <2>2. ASSUME NEW e \in Scans, scan(e) \/ send_json(e)
          PROVE  FeedIInv'
      BY <1>2, <2>2, ScanKeeps, SendKeeps
    <2>3. CASE UNCHANGED vars
      <3> USE <1>2, <2>3 DEF vars, FeedIInv
      <3>1. \A s \in Sockets, e \in Scans : /\ Got(s, e)' <=> Got(s, e)
                                            /\ Ahead(s, e)' <=> Ahead(s, e)
        BY DEF Got, Ahead
      <3>2. TypeOK' /\ EndedNotActive' /\ SentOnce' /\ RecordedStarted'
        BY DEF TypeOK, EndedNotActive, SentOnce, RecordedStarted
      <3>3. CastsPlaced' /\ AheadUnsent' /\ NewUntouched' /\ AllListed' /\ NoneLost'
        BY <3>1 DEF CastsPlaced, AheadUnsent, NewUntouched, AllListed, NoneLost
      <3> QED BY <3>2, <3>3
    <2> QED BY <1>2, <2>1, <2>2, <2>3 DEF Next
  <1> QED BY <1>1, <1>2, PTL DEF Spec

\* Every variable holds a value of its kind, the list names no socket twice and
\* none whose endpoint has ended, however many connect, leave and disconnect
\* during the broadcasts (realtime.py:550-566, 861-864).
THEOREM ListIsSound == Spec => []FeedInv
  <1>1. FeedIInv => FeedInv
    BY DEF FeedIInv, FeedInv
  <1> QED BY <1>1, FeedInductive, PTL

\* No dashboard is sent a scan twice, though the list that broadcast() walks by
\* position changes at every await (realtime.py:558-566).
THEOREM NoneSentTwice == Spec => []SentOnce
  <1>1. FeedIInv => SentOnce
    BY DEF FeedIInv
  <1> QED BY <1>1, FeedInductive, PTL

\* A dashboard that is connected and stays has every scan whose broadcast is over,
\* in its snapshot or sent to it, but for the scans whose walk was overtaken by the
\* removal of another dashboard at or before its position: nothing else that happens
\* at the awaits makes one miss a scan (realtime.py:550-567, 841-864, 879-888).
THEOREM NoneMisses == Spec => []NothingMissed
  <1>1. FeedIInv => NothingMissed
    <2> SUFFICES ASSUME FeedIInv, NEW s \in Sockets \ gone, NEW e \in Scans \ pulled,
                        endpoint[s] = "connected", cast[e].pc \in {"returned", "raised"}
                 PROVE  e \in snapshot[s] \cup ToSet(received[s])
      BY DEF NothingMissed
    <2>1. e \in recorded
      BY DEF FeedIInv, RecordedStarted
    <2> QED BY <2>1 DEF FeedIInv, NoneLost, Got
  <1> QED BY <1>1, FeedInductive, PTL
=============================================================================
