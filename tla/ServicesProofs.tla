---------------------------- MODULE ServicesProofs ----------------------------
(***************************************************************************)
(* The services that keep state of their own, each for every value of its  *)
(* constants: the token bucket's accounts and the bound on what it grants; *)
(* what load() of the model store takes and finds; that the write-ahead    *)
(* log keeps what it acknowledged, in order; that the monitor's verdicts   *)
(* and its trust in a server follow from what it was told; that the kernel *)
(* and network monitors report what there is to report; that the alerts,   *)
(* the histogram, the spans and the batches are true; that the gateway's   *)
(* statistics are those of its scans, and its clients run only what it     *)
(* allowed; and that every replayed attack is caught by its layer.         *)
(***************************************************************************)
EXTENDS MCServices, SequenceTheorems, FiniteSetTheorems, WellFoundedInduction, TLAPS
-----------------------------------------------------------------------------
(* The token bucket. *)

\* The refill of two spans of time is the refill of both together.
LEMMA RefillAdds ==
    ASSUME NEW a \in Nat, NEW b \in Nat
    PROVE  /\ Refill(a) \in Nat
           /\ Refill(a + b) = Refill(a) + Refill(b)
           /\ Refill(0) = 0
  BY BucketAssumption DEF Refill

LEMMA CapacityNat == Capacity \in Nat /\ Token = 60
  BY BucketAssumption DEF Capacity, Token

\* _refill() never lowers the tokens nor lifts them over the capacity.
LEMMA RefilledBounds ==
    ASSUME TypeOK
    PROVE  /\ Refilled \in 0 .. Capacity
           /\ Refilled <= tokens + Refill(now - last_refill)
           /\ \/ Refilled = tokens + Refill(now - last_refill)
              \/ Refilled = Capacity /\ last_refill < now
  <1>1. now - last_refill \in Nat /\ tokens \in 0 .. Capacity
    BY DEF TypeOK
  <1>2. Refill(now - last_refill) \in Nat
    BY <1>1, RefillAdds
  <1>3. now = last_refill => Refill(now - last_refill) = 0
    BY RefillAdds DEF TypeOK
  <1> QED BY <1>1, <1>2, <1>3, CapacityNat DEF Refilled, Least, TypeOK

-----------------------------------------------------------------------------
\* The inductive invariant.
IInv == TypeOK /\ Accounts

LEMMA InitIInv == Init => IInv
  <1> SUFFICES ASSUME Init PROVE IInv
    OBVIOUS
  <1>1. TypeOK
    BY CapacityNat DEF Init, TypeOK
  <1>2. Balance /\ Tight /\ Settled
    BY CapacityNat, RefillAdds DEF Init, Balance, Tight, Settled
  <1> QED BY <1>1, <1>2 DEF IInv, Accounts

\* What allow() and remaining_tokens have in common: a refill, and at most one
\* token taken for one grant.
Draws(n) == /\ last_refill' = now /\ tokens' = Refilled - Token * n
            /\ granted' = granted + n /\ UNCHANGED <<now, before>>

\* A span of time that reaches back over the last refill, in two parts.
LEMMA SpanSplits ==
    ASSUME TypeOK, NEW s \in 0 .. last_refill
    PROVE  /\ Refill(now - s) = Refill(now - last_refill) + Refill(last_refill - s)
           /\ Refill(now - last_refill) \in Nat /\ Refill(last_refill - s) \in Nat
           /\ Refill(now - s) \in Nat
  <1>1. now - last_refill \in Nat /\ last_refill - s \in Nat /\ now - s \in Nat
    BY DEF TypeOK
  <1>2. now - s = (now - last_refill) + (last_refill - s)
    BY DEF TypeOK
  <1> QED BY <1>1, <1>2, RefillAdds

\* The numbers the accounts are made of.
LEMMA Numbers ==
    ASSUME TypeOK
    PROVE  /\ now \in Nat /\ last_refill \in 0 .. now /\ granted \in Nat /\ tokens \in Nat
           /\ \A s \in 0 .. now : before[s] \in Nat /\ Refill(now - s) \in Nat
           /\ now \in 0 .. now /\ Refill(now - now) = 0
  <1>1. \A s \in 0 .. now : now - s \in Nat /\ before[s] \in Nat
    BY DEF TypeOK
  <1>2. \A t \in Nat : Refill(t) \in Nat
    BY RefillAdds
  <1>3. now \in 0 .. now /\ now - now = 0 /\ Refill(0) = 0
    BY RefillAdds DEF TypeOK
  <1>4. /\ now \in Nat /\ last_refill \in 0 .. now /\ granted \in Nat /\ tokens \in Nat
    BY CapacityNat DEF TypeOK
  <1> QED BY <1>1, <1>2, <1>3, <1>4

LEMMA DrawIInv ==
    ASSUME IInv, NEW n \in {0, 1}, Draws(n), Refilled >= Token * n
    PROVE  IInv'
  <1>1. TypeOK /\ Balance /\ Tight /\ Settled
    BY DEF IInv, Accounts
  <1>2. /\ Refilled \in 0 .. Capacity
        /\ Refilled <= tokens + Refill(now - last_refill)
        /\ \/ Refilled = tokens + Refill(now - last_refill)
           \/ Refilled = Capacity /\ last_refill < now
    BY <1>1, RefilledBounds
  <1>3. /\ now \in Nat /\ last_refill \in 0 .. now /\ granted \in Nat /\ tokens \in Nat
        /\ \A s \in 0 .. now : before[s] \in Nat /\ Refill(now - s) \in Nat
        /\ now \in 0 .. now /\ Refill(now - now) = 0
    BY <1>1, Numbers
  <1>4. TypeOK'
    BY <1>1, <1>2, CapacityNat DEF TypeOK, Draws
  <1>5. Settled'
    BY <1>3 DEF Settled, Draws
  <1>6. Balance'
    <2> SUFFICES ASSUME NEW s \in 0 .. now
                 PROVE  Token * (granted + n - before[s]) + (Refilled - Token * n)
                            <= Capacity + Refill(now - s)
      BY <1>3 DEF Balance, Draws
    <2>1. CASE s <= last_refill
      <3>1. Token * (granted - before[s]) + tokens <= Capacity + Refill(last_refill - s)
        BY <1>1, <2>1 DEF Balance
      <3>2. s \in 0 .. last_refill
        BY <1>3, <2>1
      <3>3. /\ Refill(now - s) = Refill(now - last_refill) + Refill(last_refill - s)
            /\ Refill(now - last_refill) \in Nat /\ Refill(last_refill - s) \in Nat
        BY <1>1, <3>2, SpanSplits
      <3> QED BY <1>2, <1>3, <3>1, <3>3, CapacityNat
    <2>2. CASE s > last_refill
      <3>1. before[s] = granted
        BY <1>1, <2>2 DEF Settled
      <3> QED BY <1>2, <1>3, <3>1, CapacityNat
    <2> QED BY <1>3, <2>1, <2>2
  <1>7. Tight'
    <2> SUFFICES \E s \in 0 .. now :
                     Token * (granted + n - before[s]) + (Refilled - Token * n)
                         = Capacity + Refill(now - s)
      BY <1>3 DEF Tight, Draws
    <2>1. CASE Refilled = tokens + Refill(now - last_refill)
      <3>1. PICK s \in 0 .. last_refill :
                Token * (granted - before[s]) + tokens = Capacity + Refill(last_refill - s)
        BY <1>1 DEF Tight
      <3>2. s \in 0 .. now /\ before[s] \in Nat
        BY <1>3
      <3>3. /\ Refill(now - s) = Refill(now - last_refill) + Refill(last_refill - s)
            /\ Refill(now - last_refill) \in Nat /\ Refill(last_refill - s) \in Nat
        BY <1>1, SpanSplits
      <3> QED BY <1>3, <2>1, <3>1, <3>2, <3>3, CapacityNat
    <2>2. CASE Refilled = Capacity /\ last_refill < now
      <3>1. before[now] = granted
        BY <1>1, <1>3, <2>2 DEF Settled
      <3> QED BY <1>3, <2>2, <3>1, CapacityNat
    <2> QED BY <1>2, <2>1, <2>2
  <1> QED BY <1>4, <1>5, <1>6, <1>7 DEF IInv, Accounts

LEMMA NextIInv == IInv /\ [Next]_vars => IInv'
  <1> SUFFICES ASSUME IInv, [Next]_vars PROVE IInv'
    OBVIOUS
  <1>1. CASE allow
    <2>1. Refilled \in Nat /\ granted \in Nat
      BY RefilledBounds, CapacityNat DEF IInv, TypeOK
    <2>2. CASE Refilled >= Token
      <3>1. Draws(1) /\ Refilled >= Token * 1
        BY <1>1, <2>1, <2>2, CapacityNat DEF allow, Draws
      <3> QED BY <3>1, DrawIInv
    <2>3. CASE Refilled < Token
      <3>1. Draws(0) /\ Refilled >= Token * 0
        BY <1>1, <2>1, <2>3, CapacityNat DEF allow, Draws
      <3> QED BY <3>1, DrawIInv
    <2> QED BY <2>1, <2>2, <2>3, CapacityNat
  <1>2. CASE remaining_tokens
    <2>1. Refilled \in Nat /\ granted \in Nat
      BY RefilledBounds, CapacityNat DEF IInv, TypeOK
    <2>2. Draws(0) /\ Refilled >= Token * 0
      BY <1>2, <2>1, CapacityNat DEF remaining_tokens, Draws
    <2> QED BY <2>2, DrawIInv
  <1>3. CASE reset
    <2>1. TypeOK'
      BY <1>3, CapacityNat DEF reset, IInv, TypeOK
    <2>2. \A s \in 0 .. now : Refill(now - s) \in Nat
      BY Numbers DEF IInv
    <2>3. Refill(now - now) = 0 /\ now \in 0 .. now
      BY Numbers DEF IInv
    <2>4. Balance' /\ Settled'
      BY <1>3, <2>2, CapacityNat DEF reset, IInv, TypeOK, Balance, Settled
    <2>5. Tight'
      <3>1. Token * (0 - [s \in 0 .. now |-> 0][now]) + Capacity = Capacity + Refill(now - now)
        BY <2>3, CapacityNat
      <3> QED BY <1>3, <2>3, <3>1 DEF reset, Tight
    <2> QED BY <2>1, <2>4, <2>5 DEF IInv, Accounts
  <1>4. CASE Tick
    <2>1. TypeOK'
      BY <1>4 DEF Tick, IInv, TypeOK
    <2>2. Settled'
      BY <1>4 DEF Tick, IInv, TypeOK, Accounts, Settled
    <2>3. Tight'
      BY <1>4 DEF Tick, IInv, TypeOK, Accounts, Tight
    <2>4. Balance'
      <3> SUFFICES ASSUME NEW s \in 0 .. now + 1
                   PROVE  Token * (granted - before'[s]) + tokens
                              <= Capacity + Refill(IF s <= last_refill THEN last_refill - s ELSE 0)
        BY <1>4 DEF Tick, Balance
      <3>1. CASE s \in 0 .. now
        BY <1>4, <3>1 DEF Tick, IInv, Accounts, Balance, TypeOK
      <3>2. CASE s = now + 1
        <4>1. before'[s] = granted /\ ~(s <= last_refill)
          BY <1>4, <3>2 DEF Tick, IInv, TypeOK
        <4> QED BY <4>1, CapacityNat, RefillAdds DEF IInv, TypeOK
      <3> QED BY <3>1, <3>2 DEF IInv, TypeOK
    <2> QED BY <2>1, <2>2, <2>3, <2>4 DEF IInv, Accounts
  <1>5. CASE UNCHANGED vars
    BY <1>5 DEF vars, IInv, TypeOK, Accounts, Balance, Tight, Settled
  <1> QED BY <1>1, <1>2, <1>3, <1>4, <1>5 DEF Next

\* Type correctness and the accounts of the bucket (rate_limiter.py:35-69).
THEOREM BucketInvariant == Spec => []BucketInv
  <1>1. Spec => []IInv
    BY InitIInv, NextIInv, PTL DEF Spec
  <1>2. IInv => BucketInv
    BY DEF IInv, BucketInv
  <1> QED BY <1>1, <1>2, PTL

-----------------------------------------------------------------------------
\* In no interval does the server allow more than the burst and the refill of
\* that interval, for any rate and burst (rate_limiter.py:19-21).
THEOREM RateIsBounded == Spec => []RateBound
  <1>1. TypeOK /\ Accounts => RateBound
    <2> SUFFICES ASSUME TypeOK, Accounts, NEW s \in 0 .. now
                 PROVE  Token * (granted - before[s]) <= Capacity + Refill(now - s)
      BY DEF RateBound
    <2>1. /\ now \in Nat /\ last_refill \in 0 .. now /\ granted \in Nat /\ tokens \in Nat
          /\ before[s] \in Nat /\ Refill(now - s) \in Nat
      BY Numbers
    <2>2. CASE s <= last_refill
      <3>1. Token * (granted - before[s]) + tokens <= Capacity + Refill(last_refill - s)
        BY <2>2 DEF Accounts, Balance
      <3>2. s \in 0 .. last_refill
        BY <2>1, <2>2
      <3>3. /\ Refill(now - s) = Refill(now - last_refill) + Refill(last_refill - s)
            /\ Refill(now - last_refill) \in Nat /\ Refill(last_refill - s) \in Nat
        BY <3>2, SpanSplits
      <3> QED BY <2>1, <3>1, <3>3, CapacityNat
    <2>3. CASE s > last_refill
      <3>1. before[s] = granted
        BY <2>3 DEF Accounts, Settled
      <3> QED BY <2>1, <3>1, CapacityNat
    <2> QED BY <2>1, <2>2, <2>3
  <1> QED BY <1>1, BucketInvariant, PTL DEF BucketInv

\* The limiter refuses a request only when the burst and the refill of some
\* interval are used up to less than one token (rate_limiter.py:35-47).
THEOREM RefusalsAreDue == Spec => RefusalIsDue
  <1>1. IInv /\ IInv' /\ [Next]_vars =>
            [allow /\ granted' = granted =>
                \E s \in 0 .. now : Token * (granted - before[s]) + Token
                                        > Capacity + Refill(now - s)]_vars
    <2> SUFFICES ASSUME IInv, IInv', allow, granted' = granted
                 PROVE  \E s \in 0 .. now : Token * (granted - before[s]) + Token
                                                > Capacity + Refill(now - s)
      OBVIOUS
    <2>1. last_refill' = now /\ tokens' < Token /\ before' = before
      <3>1. granted \in Nat
        BY Numbers DEF IInv
      <3> QED BY <3>1 DEF allow
    <2>2. PICK s \in 0 .. now : Token * (granted - before[s]) + tokens'
                                    = Capacity + Refill(now - s)
      BY <2>1 DEF IInv, Accounts, Tight
    <2>3. granted \in Nat /\ before[s] \in Nat /\ Refill(now - s) \in Nat
      BY Numbers DEF IInv
    <2>4. tokens' \in Nat
      BY CapacityNat DEF IInv, TypeOK
    <2> QED BY <2>1, <2>2, <2>3, <2>4, CapacityNat
  <1>2. Spec => []IInv
    BY BucketInvariant, PTL DEF IInv, BucketInv
  <1> QED BY <1>1, <1>2, PTL DEF Spec, RefusalIsDue
-----------------------------------------------------------------------------
(* The model store: StoreIInv is inductive; it is shown in three parts, each
   resting on those before. *)

Typed == StoreTypeOK /\ SavingInv
Sound == ChecksumsSealed /\ LoadedIsSaved
Undisturbed == AloneInv /\ KeptInv /\ SavedLoads

\* The classifiers and the files are of their types, and a save() is of a model
\* its process has trained (ml_classifier.py:174-175, 212-248).
LEMMA StoreTyping == StoreSpec => []Typed
<1>1. StoreInit => Typed
  BY StoreAssumption DEF StoreInit, Typed, SavingInv, StoreTypeOK, Contents, Steps, Saving
<1>2. Typed /\ [StoreNext]_storeVars => Typed'
  <2> SUFFICES ASSUME Typed, [StoreNext]_storeVars PROVE Typed'
    OBVIOUS
  <2> USE DEF Typed, StoreTypeOK, SavingInv, Contents, Steps, Saving, Is, Goes, files
  <2>1. ASSUME NEW p \in Processes, NEW m \in Models, train(p, m) PROVE Typed'
    BY <2>1 DEF train
  <2>2. ASSUME NEW p \in Processes, write_model(p) PROVE Typed'
    BY <2>2 DEF write_model
  <2>3. ASSUME NEW p \in Processes, open_checksum(p) PROVE Typed'
    BY <2>3 DEF open_checksum
  <2>4. ASSUME NEW p \in Processes, write_checksum(p) PROVE Typed'
    BY <2>4 DEF write_checksum
  <2>5. ASSUME NEW p \in Processes, save_raises(p) PROVE Typed'
    BY <2>5 DEF save_raises
  <2>6. ASSUME NEW p \in Processes, load(p) PROVE Typed'
    BY <2>6 DEF load
  <2>7. ASSUME NEW p \in Processes, read_checksum(p) PROVE Typed'
    BY <2>7 DEF read_checksum
  <2>8. ASSUME NEW p \in Processes, read_model(p) PROVE Typed'
    BY <2>8 DEF read_model, Matches
  <2>9. ASSUME NEW p \in Processes, StoreCrash(p) PROVE Typed'
    BY <2>9 DEF StoreCrash, Forgets
  <2>10. CASE StorePowerLoss
    BY <2>10 DEF StorePowerLoss, Forgets
  <2>11. CASE UNCHANGED storeVars
    BY <2>11 DEF storeVars
  <2> QED
    BY <2>1, <2>2, <2>3, <2>4, <2>5, <2>6, <2>7, <2>8, <2>9, <2>10, <2>11 DEF StoreNext
<1> QED
  BY <1>1, <1>2, PTL DEF StoreSpec

\* Every checksum is one a save() wrote, and nothing is loaded without one.
LEMMA StoreSound == StoreSpec => []Sound
<1>1. StoreInit => Sound
  BY DEF StoreInit, Sound, ChecksumsSealed, LoadedIsSaved
<1>2. Typed /\ Sound /\ [StoreNext]_storeVars => Sound'
  <2> SUFFICES ASSUME Typed, Sound, [StoreNext]_storeVars PROVE Sound'
    OBVIOUS
  <2> USE DEF Typed, StoreTypeOK, SavingInv, Sound, ChecksumsSealed, LoadedIsSaved, Saving, Is, Goes, files
  <2>1. ASSUME NEW p \in Processes, NEW m \in Models, train(p, m) PROVE Sound'
    BY <2>1 DEF train
  <2>2. ASSUME NEW p \in Processes, write_model(p) PROVE Sound'
    BY <2>2 DEF write_model
  <2>3. ASSUME NEW p \in Processes, open_checksum(p) PROVE Sound'
    BY <2>3 DEF open_checksum
  <2>4. ASSUME NEW p \in Processes, write_checksum(p) PROVE Sound'
    BY <2>4 DEF write_checksum
  <2>5. ASSUME NEW p \in Processes, save_raises(p) PROVE Sound'
    BY <2>5 DEF save_raises
  <2>6. ASSUME NEW p \in Processes, load(p) PROVE Sound'
    BY <2>6 DEF load
  <2>7. ASSUME NEW p \in Processes, read_checksum(p) PROVE Sound'
    BY <2>7 DEF read_checksum
  <2>8. ASSUME NEW p \in Processes, read_model(p) PROVE Sound'
    BY <2>8, StoreAssumption DEF read_model, Matches
  <2>9. ASSUME NEW p \in Processes, StoreCrash(p) PROVE Sound'
    BY <2>9 DEF StoreCrash, Forgets
  <2>10. CASE StorePowerLoss
    BY <2>10 DEF StorePowerLoss, Forgets
  <2>11. CASE UNCHANGED storeVars
    BY <2>11 DEF storeVars
  <2> QED
    BY <2>1, <2>2, <2>3, <2>4, <2>5, <2>6, <2>7, <2>8, <2>9, <2>10, <2>11 DEF StoreNext
<1> QED
  BY <1>1, <1>2, StoreTyping, PTL DEF StoreSpec

\* A save() that meets no other has both files to itself until the next one.
LEMMA StoreUndisturbed == StoreSpec => []Undisturbed
<1>1. StoreInit => Undisturbed
  BY DEF StoreInit, Undisturbed, AloneInv, KeptInv, SavedLoads
<1>2. Typed /\ Undisturbed /\ [StoreNext]_storeVars => Undisturbed'
  <2> SUFFICES ASSUME Typed, Undisturbed, [StoreNext]_storeVars PROVE Undisturbed'
    OBVIOUS
  <2> USE DEF Typed, StoreTypeOK, SavingInv, Undisturbed, AloneInv, KeptInv, SavedLoads, Saving, Steps, Is,
          Goes, files
  <2>1. ASSUME NEW p \in Processes, NEW m \in Models, train(p, m) PROVE Undisturbed'
    BY <2>1 DEF train
  <2>2. ASSUME NEW p \in Processes, write_model(p) PROVE Undisturbed'
    BY <2>2 DEF write_model
  <2>3. ASSUME NEW p \in Processes, open_checksum(p) PROVE Undisturbed'
    BY <2>3 DEF open_checksum
  <2>4. ASSUME NEW p \in Processes, write_checksum(p) PROVE Undisturbed'
    BY <2>4 DEF write_checksum
  <2>5. ASSUME NEW p \in Processes, save_raises(p) PROVE Undisturbed'
    BY <2>5 DEF save_raises
  <2>6. ASSUME NEW p \in Processes, load(p) PROVE Undisturbed'
    BY <2>6 DEF load
  <2>7. ASSUME NEW p \in Processes, read_checksum(p) PROVE Undisturbed'
    BY <2>7 DEF read_checksum
  <2>8. ASSUME NEW p \in Processes, read_model(p) PROVE Undisturbed'
    BY <2>8 DEF read_model
  <2>9. ASSUME NEW p \in Processes, StoreCrash(p) PROVE Undisturbed'
    BY <2>9 DEF StoreCrash, Forgets
  <2>10. CASE StorePowerLoss
    BY <2>10 DEF StorePowerLoss, Forgets
  <2>11. CASE UNCHANGED storeVars
    BY <2>11 DEF storeVars
  <2> QED
    BY <2>1, <2>2, <2>3, <2>4, <2>5, <2>6, <2>7, <2>8, <2>9, <2>10, <2>11 DEF StoreNext
<1> QED
  BY <1>1, <1>2, StoreTyping, PTL DEF StoreSpec

\* Whatever processes train, save, load, end or raise between two steps of one
\* another, and whenever the power fails, a model that is loaded was saved, and a
\* save() that met no other is found whole by the next load().
THEOREM StoreCorrect == StoreSpec => []StoreInv
<1>1. Typed /\ Sound /\ Undisturbed => StoreInv
  BY DEF Typed, Sound, Undisturbed, StoreInv
<1> QED
  BY <1>1, StoreTyping, StoreSound, StoreUndisturbed, PTL
-----------------------------------------------------------------------------
(* The write-ahead log. *)

WalLines == Nat \cup {Torn}

\* An entry is being written: its line is to come, in the file, or synced.
Writing == {"temp", "appended", "synced"}

WalTyped == /\ WalTypeOK /\ (~eol => wal # << >>)
            /\ temps <= next_id /\ (pc \in Writing => temps >= 1)

\* Lines that were not torn hold the entries in the order of their writes.
LinesInOrder == /\ \A i \in 1 .. Len(wal) : wal[i] # Torn =>
                     /\ wal[i] <= next_id
                     /\ pc = "temp" => wal[i] < next_id
                /\ \A i, j \in 1 .. Len(wal) :
                     i < j /\ wal[i] # Torn /\ wal[j] # Torn => wal[i] < wal[j]

WholeLines == \A i \in 1 .. Len(wal) : wal[i] # Torn

\* A line is torn, or lacks its newline, only in a log that was spoiled.
UnspoiledWhole == ~spoiled => eol /\ WholeLines

\* Of what was acknowledged, each line is synced with its newline, unless a torn
\* one before it is, at which recover() raises; and so is what is about to be.
AckedSynced ==
    /\ \A e \in acked : \/ \E i \in 1 .. durable : wal[i] = e /\ (i = Len(wal) => eol)
                        \/ \E i \in 1 .. durable : wal[i] = Torn
    /\ pc \in {"appended", "synced"} =>
         wal # << >> /\ eol /\ wal[Len(wal)] \in {next_id, Torn}
    /\ pc = "synced" => durable = Len(wal)

\* While the process runs, its count is at most that of the lines, and a
\* checkpoint covers as many of the first as it says.
CheckpointCovers ==
    pc # "down" /\ WholeLines =>
      /\ entries_written <= Len(wal)
      /\ pc \in {"appended", "synced"} => entries_written < Len(wal)
      /\ \A i \in 1 .. Len(wal) : i <= committed_count => wal[i] \in settled

\* What a write leaves of the file.
LEMMA WalWritten ==
    ASSUME WalTyped, NEW l \in WalLines
    PROVE  /\ Written(l) \in Seq(WalLines) /\ Written(l) # << >>
           /\ eol => /\ Len(Written(l)) = Len(wal) + 1 /\ Written(l)[Len(wal) + 1] = l
                     /\ \A i \in 1 .. Len(wal) : Written(l)[i] = wal[i]
           /\ ~eol => /\ Len(Written(l)) = Len(wal) /\ Len(wal) \in 1 .. Len(wal)
                      /\ Written(l)[Len(wal)] = Torn
                      /\ \A i \in 1 .. Len(wal) - 1 : Written(l)[i] = wal[i]
  <1>1. wal \in Seq(WalLines) /\ Len(wal) \in Nat
    BY LenProperties DEF WalTyped, WalTypeOK, WalLines
  <1>2. CASE eol
    BY <1>1, <1>2, AppendProperties DEF Written
  <1>3. CASE ~eol
    <2>1. Len(wal) \in 1 .. Len(wal)
      BY <1>1, <1>3, EmptySeq DEF WalTyped
    <2>2. Torn \in WalLines
      BY DEF WalLines
    <2>3. Written(l) = [wal EXCEPT ![Len(wal)] = Torn]
      BY <1>3 DEF Written
    <2>4. /\ Written(l) \in Seq(WalLines) /\ Len(Written(l)) = Len(wal)
          /\ \A j \in 1 .. Len(wal) : Written(l)[j] = IF j = Len(wal) THEN Torn ELSE wal[j]
      BY <1>1, <2>1, <2>2, <2>3, ExceptSeq
    <2>5. Written(l) # << >>
      BY <2>1, <2>4, EmptySeq
    <2>6. \A i \in 1 .. Len(wal) - 1 : i \in 1 .. Len(wal) /\ i # Len(wal)
      BY <1>1
    <2> QED BY <1>3, <2>1, <2>4, <2>5, <2>6
  <1> QED BY <1>2, <1>3

\* What a loss of power leaves of it.
LEMMA WalCut ==
    ASSUME WalTyped, NEW n \in durable .. Len(wal)
    PROVE  /\ n \in Nat /\ n <= Len(wal) /\ durable <= n /\ durable \in Nat /\ Len(wal) \in Nat
           /\ SubSeq(wal, 1, n) \in Seq(WalLines) /\ Len(SubSeq(wal, 1, n)) = n
           /\ \A i \in 1 .. n : SubSeq(wal, 1, n)[i] = wal[i]
           /\ Append(SubSeq(wal, 1, n), Torn) \in Seq(WalLines)
           /\ Len(Append(SubSeq(wal, 1, n), Torn)) = n + 1
           /\ Append(SubSeq(wal, 1, n), Torn)[n + 1] = Torn
           /\ \A i \in 1 .. n : Append(SubSeq(wal, 1, n), Torn)[i] = wal[i]
  <1> DEFINE s == SubSeq(wal, 1, n)
  <1>1. wal \in Seq(WalLines) /\ Len(wal) \in Nat /\ durable \in 0 .. Len(wal)
    BY LenProperties DEF WalTyped, WalTypeOK, WalLines
  <1>2. n \in Nat /\ n <= Len(wal) /\ durable <= n /\ durable \in Nat
    BY <1>1
  <1>3. \A i \in 1 .. n : wal[i] \in WalLines
    BY <1>1, <1>2, ElementOfSeq
  <1>4. s \in Seq(WalLines) /\ Len(s) = n /\ \A i \in 1 .. n : s[i] = wal[i]
    BY <1>2, <1>3, SubSeqProperties
  <1> HIDE DEF s
  <1>5. Torn \in WalLines
    BY DEF WalLines
  <1>6. /\ Append(s, Torn) \in Seq(WalLines) /\ Len(Append(s, Torn)) = n + 1
        /\ Append(s, Torn)[n + 1] = Torn
        /\ \A i \in 1 .. n : Append(s, Torn)[i] = s[i]
    BY <1>4, <1>5, AppendProperties
  <1>7. \A i \in 1 .. n : Append(s, Torn)[i] = wal[i]
    BY <1>4, <1>6
  <1> QED BY <1>1, <1>2, <1>4, <1>6, <1>7 DEF s

LEMMA WalInitTyped == WalInit => WalTyped
  <1> SUFFICES ASSUME WalInit PROVE WalTyped
    OBVIOUS
  <1>1. /\ wal \in Seq(Nat \cup {Torn}) /\ durable \in 0 .. Len(wal)
        /\ temps \in 0 .. MaxWrites /\ next_id \in 0 .. MaxWrites
    BY EmptySeq, BoundsAssumption DEF WalInit
  <1>2. entries_written \in Nat /\ committed_count \in 0 .. entries_written /\ temps <= next_id
    BY DEF WalInit
  <1>3. acked \subseteq 1 .. next_id /\ settled \subseteq Nat \cup {Torn}
    BY DEF WalInit
  <1>4. pc = "down" /\ eol = TRUE /\ spoiled = FALSE
    BY DEF WalInit
  <1> QED BY <1>1, <1>2, <1>3, <1>4 DEF WalTyped, WalTypeOK, Writing

LEMMA WalNextTyped ==
    ASSUME WalTyped, [WalNext]_walVars
    PROVE  WalTyped'
  <1> USE DEF WalTyped, WalTypeOK, Writing, WalLines
  <1>0. /\ Len(wal) \in Nat /\ MaxWrites \in Nat /\ next_id \in Nat /\ temps \in Nat
        /\ durable \in Nat /\ durable <= Len(wal) /\ entries_written \in Nat
        /\ committed_count \in Nat /\ committed_count <= entries_written
    BY LenProperties, BoundsAssumption
  <1>1. CASE UNCHANGED walVars
    BY <1>1 DEF walVars
  <1>2. CASE Open
    BY <1>0, <1>2 DEF Open, disk, ghosts
  <1>3. CASE write_temp
    BY <1>0, <1>3 DEF write_temp, disk, counts, ghosts
  <1>4. CASE append_wal
    <2>1. next_id \in WalLines /\ Torn \in WalLines
      BY <1>0
    <2>2. ASSUME NEW l \in {Torn, next_id}
          PROVE  /\ Written(l) \in Seq(WalLines) /\ Written(l) # << >>
                 /\ durable \in 0 .. Len(Written(l))
      <3>1. /\ Written(l) \in Seq(WalLines) /\ Written(l) # << >>
            /\ Len(Written(l)) \in {Len(wal), Len(wal) + 1}
        BY <2>1, WalWritten
      <3> QED BY <1>0, <3>1
    <2>3. wal' \in Seq(WalLines) /\ (~eol' => wal' # << >>) /\ durable \in 0 .. Len(wal')
      BY <1>4, <2>2 DEF append_wal
    <2>4. pc' \in {"idle", "appended"} /\ eol' \in BOOLEAN /\ spoiled' \in BOOLEAN
      BY <1>4 DEF append_wal
    <2>5. pc = "temp" /\ UNCHANGED <<durable, temps, counts, next_id, ghosts>>
      BY <1>4 DEF append_wal
    <2> QED BY <2>3, <2>4, <2>5 DEF counts, ghosts
  <1>5. CASE fsync_wal
    <2>1. durable' \in 0 .. Len(wal')
      BY <1>0, <1>5 DEF fsync_wal
    <2> QED BY <1>5, <2>1 DEF fsync_wal, counts, ghosts
  <1>6. CASE write_returns
    <2>1. temps' \in 0 .. MaxWrites /\ temps' <= next_id
      BY <1>0, <1>6 DEF write_returns
    <2>2. acked' \subseteq 1 .. next_id
      BY <1>0, <1>6 DEF write_returns
    <2>3. entries_written' \in Nat /\ committed_count \in 0 .. entries_written'
      BY <1>0, <1>6 DEF write_returns
    <2> QED BY <1>6, <2>1, <2>2, <2>3 DEF write_returns, disk
  <1>7. CASE checkpoint
    <2>1. ToSet(wal) \subseteq WalLines
      <3>1. DOMAIN wal = 1 .. Len(wal) /\ wal \in Seq(WalLines)
        BY LenProperties
      <3> QED BY <3>1, ElementOfSeq DEF ToSet
    <2>2. settled' \subseteq Nat \cup {Torn} /\ committed_count' \in 0 .. entries_written
      <3>1. settled' \subseteq Nat \cup {Torn}
        <4>1. settled \subseteq Nat \cup {Torn} /\ settled' = settled \cup ToSet(wal)
          BY <1>7 DEF checkpoint
        <4> QED BY <2>1, <4>1
      <3>2. committed_count' \in 0 .. entries_written
        BY <1>0, <1>7 DEF checkpoint
      <3> QED BY <3>1, <3>2
    <2> QED BY <1>7, <2>2 DEF checkpoint, disk
  <1>8. CASE truncate
    <2>1. wal' \in Seq(Nat \cup {Torn}) /\ durable' \in 0 .. Len(wal')
      BY <1>8, EmptySeq DEF truncate
    <2>2. entries_written' \in Nat /\ committed_count' \in 0 .. entries_written'
      BY <1>8 DEF truncate
    <2>3. acked' = {} /\ settled' = {} /\ eol' = TRUE /\ spoiled' = FALSE
      BY <1>8 DEF truncate
    <2> QED BY <1>8, <2>1, <2>2, <2>3 DEF truncate
  <1>9. CASE WalCrash
    BY <1>9 DEF WalCrash, disk, counts, ghosts
  <1>10. CASE WalPowerLoss
    <2>1. PICK n \in durable .. Len(wal) :
            \/ wal' = SubSeq(wal, 1, n) /\ eol' = (n = Len(wal) => eol) /\ UNCHANGED spoiled
            \/ /\ n < Len(wal) /\ wal' = Append(SubSeq(wal, 1, n), Torn)
               /\ eol' = FALSE /\ spoiled' = TRUE
      BY <1>10 DEF WalPowerLoss
    <2>2. wal' \in Seq(WalLines) /\ Len(wal') \in Nat
      <3>1. wal' \in Seq(WalLines)
        BY <2>1, WalCut
      <3> QED BY <3>1, LenProperties
    <2>3. eol' \in BOOLEAN /\ spoiled' \in BOOLEAN
      BY <2>1
    <2>4. ~eol' => wal' # << >>
      <3>1. CASE wal' = SubSeq(wal, 1, n) /\ eol' = (n = Len(wal) => eol)
        <4>1. ~eol' => Len(wal') = Len(wal) /\ Len(wal) # 0
          BY <1>0, <3>1, WalCut, EmptySeq
        <4> QED BY <4>1, EmptySeq
      <3>2. CASE n < Len(wal) /\ wal' = Append(SubSeq(wal, 1, n), Torn)
        <4>1. Len(wal') = n + 1 /\ n \in Nat
          BY <3>2, WalCut
        <4> QED BY <4>1, EmptySeq
      <3> QED BY <2>1, <3>1, <3>2
    <2>5. /\ pc' = "down" /\ durable' = Len(wal')
          /\ UNCHANGED <<temps, counts, next_id, ghosts>>
      BY <1>10 DEF WalPowerLoss
    <2> QED BY <2>2, <2>3, <2>4, <2>5 DEF counts, ghosts
  <1> QED BY <1>1, <1>2, <1>3, <1>4, <1>5, <1>6, <1>7, <1>8, <1>9, <1>10 DEF WalNext

\* The steps by what they do to the lines of the file.
LEMMA WalChanges ==
    ASSUME WalTyped, [WalNext]_walVars
    PROVE  \/ /\ UNCHANGED <<wal, eol, spoiled>>
              /\ \/ UNCHANGED next_id /\ (pc' = "temp" => pc = "temp")
                 \/ pc = "idle" /\ next_id' = next_id + 1
           \/ append_wal
           \/ truncate
           \/ WalPowerLoss
  BY DEF WalNext, walVars, Open, write_temp, fsync_wal, write_returns, checkpoint,
         WalCrash, disk

\* A line of the file is an entry or torn.
LEMMA WalLineKind ==
    ASSUME WalTyped
    PROVE  /\ Len(wal) \in Nat /\ next_id \in Nat /\ durable \in Nat /\ durable <= Len(wal)
           /\ \A i \in 1 .. Len(wal) : wal[i] # Torn => wal[i] \in Nat
           /\ DOMAIN wal = 1 .. Len(wal)
  <1>1. wal \in Seq(Nat \cup {Torn}) /\ durable \in 0 .. Len(wal) /\ next_id \in 0 .. MaxWrites
    BY DEF WalTyped, WalTypeOK
  <1>2. Len(wal) \in Nat /\ DOMAIN wal = 1 .. Len(wal)
    BY <1>1, LenProperties
  <1>3. \A i \in 1 .. Len(wal) : wal[i] \in Nat \cup {Torn}
    BY <1>1, ElementOfSeq
  <1> QED BY <1>1, <1>2, <1>3, BoundsAssumption

\* append_wal leaves the file, adds a line to it, or spoils the last one.
LEMMA WalAppends ==
    ASSUME WalTyped, append_wal
    PROVE  /\ pc = "temp" /\ pc' \in {"idle", "appended"}
           /\ UNCHANGED <<durable, temps, counts, next_id, ghosts>>
           /\ \/ UNCHANGED <<wal, eol, spoiled>> /\ pc' = "idle"
              \/ /\ wal' # << >>
                 /\ \/ pc' = "appended" /\ eol' = TRUE /\ UNCHANGED spoiled
                    \/ pc' = "idle" /\ spoiled' = TRUE
                 /\ \/ /\ eol /\ Len(wal') = Len(wal) + 1
                       /\ wal'[Len(wal) + 1] \in {Torn, next_id}
                       /\ pc' = "appended" => wal'[Len(wal) + 1] = next_id
                       /\ \A i \in 1 .. Len(wal) : wal'[i] = wal[i]
                    \/ /\ ~eol /\ Len(wal') = Len(wal) /\ Len(wal) \in 1 .. Len(wal)
                       /\ wal'[Len(wal)] = Torn
                       /\ \A i \in 1 .. Len(wal) - 1 : wal'[i] = wal[i]
  <1>1. /\ pc = "temp" /\ pc' \in {"idle", "appended"}
        /\ UNCHANGED <<durable, temps, counts, next_id, ghosts>>
    BY DEF append_wal
  <1>2. next_id \in WalLines /\ Torn \in WalLines
    BY WalLineKind DEF WalLines
  <1>3. ASSUME NEW l \in {Torn, next_id}, wal' = Written(l),
               \/ pc' = "appended" /\ eol' = TRUE /\ UNCHANGED spoiled /\ l = next_id
               \/ pc' = "idle" /\ spoiled' = TRUE
        PROVE  /\ wal' # << >>
               /\ \/ pc' = "appended" /\ eol' = TRUE /\ UNCHANGED spoiled
                  \/ pc' = "idle" /\ spoiled' = TRUE
               /\ \/ /\ eol /\ Len(wal') = Len(wal) + 1
                     /\ wal'[Len(wal) + 1] \in {Torn, next_id}
                     /\ pc' = "appended" => wal'[Len(wal) + 1] = next_id
                     /\ \A i \in 1 .. Len(wal) : wal'[i] = wal[i]
                  \/ /\ ~eol /\ Len(wal') = Len(wal) /\ Len(wal) \in 1 .. Len(wal)
                     /\ wal'[Len(wal)] = Torn
                     /\ \A i \in 1 .. Len(wal) - 1 : wal'[i] = wal[i]
    <2>1. l \in WalLines
      BY <1>2
    <2> QED BY <1>3, <2>1, WalWritten
  <1>4. \/ UNCHANGED <<wal, eol, spoiled>> /\ pc' = "idle"
        \/ \E l \in {Torn, next_id} :
             /\ wal' = Written(l)
             /\ \/ pc' = "appended" /\ eol' = TRUE /\ UNCHANGED spoiled /\ l = next_id
                \/ pc' = "idle" /\ spoiled' = TRUE
    BY DEF append_wal
  <1> QED BY <1>1, <1>3, <1>4

\* A loss of power keeps the first lines, at least those synced.
LEMMA WalLoses ==
    ASSUME WalTyped, WalPowerLoss
    PROVE  /\ pc' = "down" /\ UNCHANGED <<temps, counts, next_id, ghosts>>
           /\ durable' = Len(wal')
           /\ \E n \in durable .. Len(wal) :
                /\ \A i \in 1 .. n : wal'[i] = wal[i]
                /\ \/ /\ Len(wal') = n /\ (n = Len(wal) => eol' = eol)
                      /\ (n # Len(wal) => eol' = TRUE) /\ UNCHANGED spoiled
                   \/ Len(wal') = n + 1 /\ wal'[n + 1] = Torn /\ spoiled' = TRUE
  <1>1. PICK n \in durable .. Len(wal) :
          \/ wal' = SubSeq(wal, 1, n) /\ eol' = (n = Len(wal) => eol) /\ UNCHANGED spoiled
          \/ wal' = Append(SubSeq(wal, 1, n), Torn) /\ spoiled' = TRUE
    BY DEF WalPowerLoss
  <1>2. /\ SubSeq(wal, 1, n) \in Seq(WalLines) /\ Len(SubSeq(wal, 1, n)) = n
        /\ \A i \in 1 .. n : SubSeq(wal, 1, n)[i] = wal[i]
        /\ Len(Append(SubSeq(wal, 1, n), Torn)) = n + 1
        /\ Append(SubSeq(wal, 1, n), Torn)[n + 1] = Torn
        /\ \A i \in 1 .. n : Append(SubSeq(wal, 1, n), Torn)[i] = wal[i]
    BY WalCut
  <1>3. eol \in BOOLEAN
    BY DEF WalTyped, WalTypeOK
  <1> QED BY <1>1, <1>2, <1>3 DEF WalPowerLoss

LEMMA WalOrderKept ==
    ASSUME WalTyped, LinesInOrder, [WalNext]_walVars
    PROVE  LinesInOrder'
  <1>1. /\ Len(wal) \in Nat /\ next_id \in Nat
        /\ \A i \in 1 .. Len(wal) : wal[i] # Torn => wal[i] \in Nat
    BY WalLineKind
  <1>2. /\ \A i \in 1 .. Len(wal) : wal[i] # Torn =>
             wal[i] <= next_id /\ (pc = "temp" => wal[i] < next_id)
        /\ \A i, j \in 1 .. Len(wal) : i < j /\ wal[i] # Torn /\ wal[j] # Torn => wal[i] < wal[j]
    BY DEF LinesInOrder
  <1>3. CASE /\ UNCHANGED <<wal, eol, spoiled>>
             /\ \/ UNCHANGED next_id /\ (pc' = "temp" => pc = "temp")
                \/ pc = "idle" /\ next_id' = next_id + 1
    <2>1. wal' = wal
      BY <1>3
    <2>2. \A i \in 1 .. Len(wal) : wal[i] # Torn =>
             wal[i] <= next_id' /\ (pc' = "temp" => wal[i] < next_id')
      BY <1>1, <1>2, <1>3
    <2> QED BY <1>2, <2>1, <2>2 DEF LinesInOrder
  <1>4. CASE append_wal
    <2>1. next_id' = next_id /\ pc' # "temp" /\ pc = "temp"
      BY <1>4, WalAppends DEF counts
    <2>2. CASE UNCHANGED wal
      BY <1>2, <2>1, <2>2 DEF LinesInOrder
    <2>3. CASE /\ eol /\ Len(wal') = Len(wal) + 1
               /\ wal'[Len(wal) + 1] \in {Torn, next_id}
               /\ \A i \in 1 .. Len(wal) : wal'[i] = wal[i]
      <3>1. \A i \in 1 .. Len(wal) + 1 : i \in 1 .. Len(wal) \/ i = Len(wal) + 1
        BY <1>1
      <3>2. \A i \in 1 .. Len(wal) + 1 : wal'[i] # Torn => wal'[i] <= next_id
        BY <1>1, <1>2, <2>3, <3>1
      <3>3. ASSUME NEW i \in 1 .. Len(wal) + 1, NEW j \in 1 .. Len(wal) + 1, i < j,
                   wal'[i] # Torn, wal'[j] # Torn
            PROVE  wal'[i] < wal'[j]
        <4>1. i \in 1 .. Len(wal)
          BY <1>1, <3>3
        <4> QED BY <1>2, <2>1, <2>3, <3>1, <3>3, <4>1
      <3> QED BY <2>1, <2>3, <3>2, <3>3 DEF LinesInOrder
    <2>4. CASE /\ ~eol /\ Len(wal') = Len(wal) /\ Len(wal) \in 1 .. Len(wal)
               /\ wal'[Len(wal)] = Torn
               /\ \A i \in 1 .. Len(wal) - 1 : wal'[i] = wal[i]
      <3>1. \A i \in 1 .. Len(wal) : wal'[i] # Torn => wal'[i] = wal[i]
        <4>1. \A i \in 1 .. Len(wal) : i \in 1 .. Len(wal) - 1 \/ i = Len(wal)
          BY <1>1
        <4> QED BY <2>4, <4>1
      <3>2. \A i \in 1 .. Len(wal) : wal'[i] # Torn => wal'[i] <= next_id
        BY <1>2, <3>1
      <3>3. \A i, j \in 1 .. Len(wal) :
               i < j /\ wal'[i] # Torn /\ wal'[j] # Torn => wal'[i] < wal'[j]
        BY <1>2, <3>1
      <3> QED BY <2>1, <2>4, <3>2, <3>3 DEF LinesInOrder
    <2> QED BY <1>4, <2>2, <2>3, <2>4, WalAppends
  <1>5. CASE truncate
    <2>1. Len(wal') = 0
      BY <1>5, EmptySeq DEF truncate
    <2> QED BY <2>1 DEF LinesInOrder
  <1>6. CASE WalPowerLoss
    <2>1. PICK n \in durable .. Len(wal) :
            /\ \A i \in 1 .. n : wal'[i] = wal[i]
            /\ \/ Len(wal') = n
               \/ Len(wal') = n + 1 /\ wal'[n + 1] = Torn
      BY <1>6, WalLoses
    <2>2. n \in Nat /\ n <= Len(wal)
      BY WalLineKind
    <2>3. ASSUME NEW i \in 1 .. Len(wal'), wal'[i] # Torn
          PROVE  i \in 1 .. Len(wal) /\ wal'[i] = wal[i]
      <3>1. i \in 1 .. n
        BY <2>1, <2>2, <2>3
      <3> QED BY <1>1, <2>1, <2>2, <3>1
    <2>4. pc' = "down" /\ next_id' = next_id
      BY <1>6, WalLoses
    <2>5. \A i \in 1 .. Len(wal') : wal'[i] # Torn => wal'[i] <= next_id
      BY <1>2, <2>3
    <2>6. \A i, j \in 1 .. Len(wal') :
             i < j /\ wal'[i] # Torn /\ wal'[j] # Torn => wal'[i] < wal'[j]
      BY <1>2, <2>3
    <2> QED BY <2>4, <2>5, <2>6 DEF LinesInOrder
  <1> QED BY <1>3, <1>4, <1>5, <1>6, WalChanges

LEMMA WalWholeKept ==
    ASSUME WalTyped, UnspoiledWhole, [WalNext]_walVars
    PROVE  UnspoiledWhole'
  <1>1. CASE UNCHANGED <<wal, eol, spoiled>>
    BY <1>1 DEF UnspoiledWhole, WholeLines
  <1>2. CASE append_wal
    <2> SUFFICES ASSUME ~spoiled' PROVE eol' /\ WholeLines'
      BY DEF UnspoiledWhole
    <2>1. CASE UNCHANGED <<wal, eol, spoiled>>
      BY <1>1, <2>1 DEF UnspoiledWhole
    <2>2. CASE ~UNCHANGED <<wal, eol, spoiled>>
      <3>1. /\ pc' = "appended" /\ eol' = TRUE /\ spoiled' = spoiled
            /\ \/ /\ eol /\ Len(wal') = Len(wal) + 1 /\ wal'[Len(wal) + 1] = next_id
                  /\ \A i \in 1 .. Len(wal) : wal'[i] = wal[i]
               \/ ~eol
        BY <1>2, <2>2, WalAppends
      <3>2. eol /\ \A i \in 1 .. Len(wal) : wal[i] # Torn
        BY <3>1 DEF UnspoiledWhole, WholeLines
      <3>3. next_id # Torn /\ Len(wal) \in Nat
        BY WalLineKind, TornAssumption
      <3>4. \A i \in 1 .. Len(wal) + 1 : i \in 1 .. Len(wal) \/ i = Len(wal) + 1
        BY <3>3
      <3> QED BY <3>1, <3>2, <3>3, <3>4 DEF WholeLines
    <2> QED BY <2>1, <2>2
  <1>3. CASE truncate
    <2>1. Len(wal') = 0 /\ eol' = TRUE
      BY <1>3, EmptySeq DEF truncate
    <2> QED BY <2>1 DEF UnspoiledWhole, WholeLines
  <1>4. CASE WalPowerLoss
    <2> SUFFICES ASSUME ~spoiled' PROVE eol' /\ WholeLines'
      BY DEF UnspoiledWhole
    <2>1. PICK n \in durable .. Len(wal) :
            /\ \A i \in 1 .. n : wal'[i] = wal[i]
            /\ Len(wal') = n /\ (n = Len(wal) => eol' = eol)
            /\ (n # Len(wal) => eol' = TRUE) /\ UNCHANGED spoiled
      BY <1>4, WalLoses
    <2>2. eol /\ \A i \in 1 .. Len(wal) : wal[i] # Torn
      BY <2>1 DEF UnspoiledWhole, WholeLines
    <2>3. \A i \in 1 .. n : i \in 1 .. Len(wal)
      BY WalLineKind
    <2> QED BY <2>1, <2>2, <2>3 DEF WholeLines
  <1> QED BY <1>1, <1>2, <1>3, <1>4, WalChanges

\* A line that is synced with its newline, and one that is torn, stay in the file.
LEMMA SyncedStays ==
    ASSUME WalTyped, append_wal \/ WalPowerLoss, NEW i \in 1 .. durable
    PROVE  /\ i \in 1 .. durable' /\ (wal[i] = Torn => wal'[i] = Torn)
           /\ (i = Len(wal) => eol) => wal'[i] = wal[i] /\ (i = Len(wal') => eol')
  <1>1. Len(wal) \in Nat /\ durable \in Nat /\ durable <= Len(wal) /\ i \in 1 .. Len(wal)
    BY WalLineKind
  <1>2. CASE append_wal
    <2>1. durable' = durable
      BY <1>2, WalAppends
    <2>2. CASE UNCHANGED <<wal, eol, spoiled>>
      BY <2>1, <2>2
    <2>3. CASE /\ eol /\ Len(wal') = Len(wal) + 1
               /\ \A j \in 1 .. Len(wal) : wal'[j] = wal[j]
      BY <1>1, <2>1, <2>3
    <2>4. CASE /\ ~eol /\ Len(wal') = Len(wal) /\ wal'[Len(wal)] = Torn
               /\ \A j \in 1 .. Len(wal) - 1 : wal'[j] = wal[j]
      <3>1. i \in 1 .. Len(wal) - 1 \/ i = Len(wal)
        BY <1>1
      <3>2. i \in 1 .. Len(wal) - 1 => i # Len(wal)
        BY <1>1
      <3> QED BY <2>1, <2>4, <3>1, <3>2
    <2> QED BY <1>2, <2>2, <2>3, <2>4, WalAppends
  <1>3. CASE WalPowerLoss
    <2>1. PICK n \in durable .. Len(wal) :
            /\ \A j \in 1 .. n : wal'[j] = wal[j]
            /\ \/ /\ Len(wal') = n /\ (n = Len(wal) => eol' = eol)
                  /\ (n # Len(wal) => eol' = TRUE)
               \/ Len(wal') = n + 1
      BY <1>3, WalLoses
    <2>2. n \in Nat /\ durable <= n /\ i \in 1 .. n /\ i # n + 1
      BY <1>1
    <2>3. durable' = Len(wal')
      BY <1>3, WalLoses
    <2>4. i \in 1 .. durable'
      BY <1>1, <2>1, <2>2, <2>3
    <2> QED BY <2>1, <2>2, <2>4
  <1> QED BY <1>2, <1>3

LEMMA AckedSyncedKept ==
    ASSUME WalTyped, AckedSynced, [WalNext]_walVars
    PROVE  AckedSynced'
  <1>1. /\ Len(wal) \in Nat /\ durable \in Nat /\ durable <= Len(wal)
    BY WalLineKind
  <1>2. /\ \A e \in acked : \/ \E i \in 1 .. durable : wal[i] = e /\ (i = Len(wal) => eol)
                            \/ \E i \in 1 .. durable : wal[i] = Torn
        /\ pc \in {"appended", "synced"} =>
             wal # << >> /\ eol /\ wal[Len(wal)] \in {next_id, Torn}
        /\ pc = "synced" => durable = Len(wal)
    BY DEF AckedSynced
  <1>3. CASE append_wal \/ WalPowerLoss
    <2>1. acked' = acked
      BY <1>3, WalAppends, WalLoses DEF ghosts
    <2>2. \A e \in acked : \/ \E i \in 1 .. durable' : wal'[i] = e /\ (i = Len(wal') => eol')
                           \/ \E i \in 1 .. durable' : wal'[i] = Torn
      BY <1>2, <1>3, SyncedStays
    <2>3. pc' # "synced"
      BY <1>3, WalAppends, WalLoses
    <2>4. ASSUME pc' = "appended"
          PROVE  wal' # << >> /\ eol' /\ wal'[Len(wal')] \in {next_id', Torn}
      <3>1. append_wal
        BY <1>3, <2>4, WalLoses
      <3>2. next_id' = next_id
        BY <3>1, WalAppends
      <3> QED BY <2>4, <3>1, <3>2, WalAppends
    <2> QED BY <2>1, <2>2, <2>3, <2>4 DEF AckedSynced
  <1>4. CASE truncate
    BY <1>4 DEF truncate, AckedSynced
  <1>5. CASE fsync_wal
    <2>1. \A i \in 1 .. durable : i \in 1 .. durable'
      BY <1>1, <1>5 DEF fsync_wal
    <2>2. pc = "appended" /\ UNCHANGED <<wal, eol, acked, next_id>>
      BY <1>5 DEF fsync_wal, ghosts
    <2>3. pc' = "synced" => durable' = Len(wal)
      BY <1>5 DEF fsync_wal
    <2>4. \A e \in acked : \/ \E i \in 1 .. durable' : wal[i] = e /\ (i = Len(wal) => eol)
                           \/ \E i \in 1 .. durable' : wal[i] = Torn
      BY <1>2, <2>1
    <2> QED BY <1>2, <2>2, <2>3, <2>4 DEF AckedSynced
  <1>6. CASE write_returns
    <2>1. pc = "synced" /\ pc' = "idle" /\ acked' = acked \cup {next_id}
          /\ UNCHANGED <<wal, eol, durable>>
      BY <1>6 DEF write_returns, disk
    <2>2. Len(wal) \in 1 .. durable
      BY <1>1, <1>2, <2>1, EmptySeq DEF WalTyped, WalTypeOK
    <2>3. \/ \E i \in 1 .. durable : wal[i] = next_id /\ (i = Len(wal) => eol)
          \/ \E i \in 1 .. durable : wal[i] = Torn
      BY <1>2, <2>1, <2>2
    <2> QED BY <1>2, <2>1, <2>3 DEF AckedSynced
  <1>7. CASE /\ UNCHANGED <<wal, eol, durable, acked>>
             /\ pc' \notin {"appended", "synced"} \/ (UNCHANGED <<pc, next_id>>)
    BY <1>2, <1>7 DEF AckedSynced
  <1> QED BY <1>3, <1>4, <1>5, <1>6, <1>7
          DEF WalNext, walVars, Open, write_temp, checkpoint, WalCrash, disk, ghosts

LEMMA CheckpointKept ==
    ASSUME WalTyped, AckedSynced, CheckpointCovers, [WalNext]_walVars
    PROVE  CheckpointCovers'
  <1>1. /\ Len(wal) \in Nat /\ entries_written \in Nat /\ committed_count \in Nat
        /\ committed_count <= entries_written
    BY WalLineKind DEF WalTyped, WalTypeOK
  <1> SUFFICES ASSUME pc' # "down", WholeLines'
               PROVE  /\ entries_written' <= Len(wal')
                      /\ pc' \in {"appended", "synced"} => entries_written' < Len(wal')
                      /\ \A i \in 1 .. Len(wal') : i <= committed_count' => wal'[i] \in settled'
    BY DEF CheckpointCovers
  <1>2. ASSUME pc # "down", WholeLines
        PROVE  /\ entries_written <= Len(wal)
               /\ pc \in {"appended", "synced"} => entries_written < Len(wal)
               /\ \A i \in 1 .. Len(wal) : i <= committed_count => wal[i] \in settled
    BY <1>2 DEF CheckpointCovers
  <1>3. CASE Open
    BY <1>1, <1>3 DEF Open, disk
  <1>4. CASE append_wal
    <2>1. /\ pc = "temp" /\ entries_written' = entries_written
          /\ committed_count' = committed_count /\ settled' = settled /\ pc' \in {"idle", "appended"}
      BY <1>4, WalAppends DEF counts, ghosts
    <2>2. CASE UNCHANGED wal /\ pc' = "idle"
      BY <1>2, <2>1, <2>2 DEF WholeLines
    <2>3. CASE /\ eol /\ Len(wal') = Len(wal) + 1
               /\ \A i \in 1 .. Len(wal) : wal'[i] = wal[i]
      <3>1. \A i \in 1 .. Len(wal) : i \in 1 .. Len(wal) + 1
        BY <1>1
      <3>2. WholeLines
        BY <2>3, <3>1 DEF WholeLines
      <3>3. \A i \in 1 .. Len(wal) + 1 : i <= committed_count => i \in 1 .. Len(wal)
        BY <1>1, <1>2, <2>1, <3>2
      <3>4. \A i \in 1 .. Len(wal') : i <= committed_count => wal'[i] \in settled
        BY <1>2, <2>1, <2>3, <3>2, <3>3
      <3> QED BY <1>1, <1>2, <2>1, <2>3, <3>2, <3>4
    <2>4. CASE Len(wal') = Len(wal) /\ Len(wal) \in 1 .. Len(wal) /\ wal'[Len(wal)] = Torn
      BY <2>4 DEF WholeLines
    <2> QED BY <1>4, <2>2, <2>3, <2>4, WalAppends
  <1>5. CASE truncate
    BY <1>5, EmptySeq DEF truncate
  <1>6. CASE write_returns
    <2>1. /\ pc = "synced" /\ pc' = "idle" /\ entries_written' = entries_written + 1
          /\ UNCHANGED <<wal, committed_count, settled>>
      BY <1>6 DEF write_returns, disk
    <2> QED BY <1>1, <1>2, <2>1 DEF WholeLines
  <1>7. CASE checkpoint
    <2>1. /\ pc = "idle" /\ pc' = "idle" /\ settled' = settled \cup ToSet(wal)
          /\ UNCHANGED <<wal, entries_written>>
      BY <1>7 DEF checkpoint, disk
    <2>2. \A i \in 1 .. Len(wal) : wal[i] \in ToSet(wal)
      BY WalLineKind DEF ToSet
    <2> QED BY <1>2, <2>1, <2>2 DEF WholeLines
  <1>8. CASE fsync_wal
    <2>1. pc = "appended" /\ UNCHANGED <<wal, entries_written, committed_count, settled>>
      BY <1>8 DEF fsync_wal, counts, ghosts
    <2> QED BY <1>2, <2>1 DEF WholeLines
  <1>9. CASE write_temp \/ UNCHANGED walVars
    <2>1. /\ UNCHANGED <<wal, entries_written, committed_count, settled>>
          /\ pc # "down" /\ (pc' \in {"appended", "synced"} => pc' = pc)
      BY <1>9 DEF write_temp, walVars, disk, counts, ghosts
    <2> QED BY <1>2, <2>1 DEF WholeLines
  <1> QED BY <1>3, <1>4, <1>5, <1>6, <1>7, <1>8, <1>9 DEF WalNext, WalCrash, WalPowerLoss
-----------------------------------------------------------------------------
(* What these facts say of the write-ahead log. *)

WalIInv == WalTyped /\ LinesInOrder /\ UnspoiledWhole /\ AckedSynced /\ CheckpointCovers

LEMMA ReadableIsWhole == WalTyped => (Readable <=> WholeLines)
  BY WalLineKind DEF Readable, WholeLines, ToSet

\* recover() returns the lines past the committed position.
LEMMA RecoveredLines ==
    ASSUME WalTyped, NEW i \in 1 .. Len(wal), i > committed_count
    PROVE  wal[i] \in ToSet(recover)
  <1> DEFINE c == committed_count
             t == SubSeq(wal, c + 1, Len(wal))
  <1>1. wal \in Seq(WalLines) /\ Len(wal) \in Nat /\ c \in Nat
    BY LenProperties DEF WalTyped, WalTypeOK, WalLines
  <1>2. \A j \in c + 1 .. Len(wal) : wal[j] \in WalLines
    BY <1>1, ElementOfSeq
  <1>3. /\ t \in Seq(WalLines) /\ Len(t) = IF c + 1 <= Len(wal) THEN Len(wal) - (c + 1) + 1 ELSE 0
        /\ \A j \in 1 .. Len(wal) - (c + 1) + 1 : t[j] = wal[c + 1 + j - 1]
    BY <1>1, <1>2, SubSeqProperties
  <1> HIDE DEF c, t
  <1>4. c < i
    BY DEF c
  <1>5. /\ i - c \in 1 .. Len(wal) - (c + 1) + 1 /\ c + 1 + (i - c) - 1 = i
        /\ c + 1 <= Len(wal)
    BY <1>1, <1>4
  <1>6. t[i - c] = wal[i] /\ i - c \in 1 .. Len(t)
    BY <1>3, <1>5
  <1>7. DOMAIN t = 1 .. Len(t)
    BY <1>3, LenProperties
  <1>8. recover = t
    BY DEF recover, t, c
  <1> QED BY <1>6, <1>7, <1>8 DEF ToSet

\* The write-ahead log is whole: its lines keep the order of the writes, recover()
\* leaves out none that is owed, and what write() acknowledged stays in the file
\* (wal.py:39-97).
THEOREM WalIsKept == WalSpec => []WalKept
  <1>1. WalInit => WalIInv
    <2> SUFFICES ASSUME WalInit PROVE WalIInv
      OBVIOUS
    <2>1. wal = << >> /\ Len(wal) = 0 /\ eol = TRUE /\ pc = "down" /\ acked = {}
      BY EmptySeq DEF WalInit
    <2>2. LinesInOrder /\ WholeLines /\ AckedSynced /\ CheckpointCovers
      BY <2>1 DEF LinesInOrder, WholeLines, AckedSynced, CheckpointCovers
    <2> QED BY <2>1, <2>2, WalInitTyped DEF WalIInv, UnspoiledWhole
  <1>2. WalIInv /\ [WalNext]_walVars => WalIInv'
    BY WalNextTyped, WalOrderKept, WalWholeKept, AckedSyncedKept, CheckpointKept DEF WalIInv
  <1>3. WalIInv => WalKept
    <2> SUFFICES ASSUME WalIInv PROVE WalKept
      OBVIOUS
    <2>1. WalTyped /\ LinesInOrder /\ UnspoiledWhole /\ AckedSynced /\ CheckpointCovers
      BY DEF WalIInv
    <2>2. /\ DOMAIN wal = 1 .. Len(wal) /\ Len(wal) \in Nat /\ durable \in Nat
          /\ durable <= Len(wal)
      BY <2>1, WalLineKind
    <2>3. RecoverInOrder
      BY <2>1, <2>2, ReadableIsWhole DEF RecoverInOrder, WholeLines, LinesInOrder
    <2>4. ASSUME WholeLines, NEW e \in acked PROVE \E i \in 1 .. Len(wal) : wal[i] = e
      <3>1. \A i \in 1 .. durable : i \in 1 .. Len(wal)
        BY <2>2
      <3> QED BY <2>1, <2>4, <3>1 DEF AckedSynced, WholeLines
    <2>5. WrittenSurvives
      <3> SUFFICES ASSUME ~spoiled, NEW e \in acked PROVE e \in ToSet(wal)
        BY DEF WrittenSurvives
      <3>1. WholeLines
        BY <2>1 DEF UnspoiledWhole
      <3> QED BY <2>2, <2>4, <3>1 DEF ToSet
    <2>6. RecoverComplete
      <3> SUFFICES ASSUME pc = "idle", Readable, NEW e \in acked, e \notin settled
                   PROVE  e \in ToSet(recover)
        BY DEF RecoverComplete
      <3>1. WholeLines
        BY <2>1, ReadableIsWhole
      <3>2. PICK i \in 1 .. Len(wal) : wal[i] = e
        BY <2>4, <3>1
      <3>3. ~(i <= committed_count)
        BY <2>1, <3>1, <3>2 DEF CheckpointCovers
      <3>4. i > committed_count
        BY <2>1, <2>2, <3>3 DEF WalTyped, WalTypeOK
      <3> QED BY <2>1, <3>2, <3>4, RecoveredLines
    <2> QED BY <2>1, <2>3, <2>5, <2>6 DEF WalKept, WalInv, WalTyped
  <1> QED BY <1>1, <1>2, <1>3, PTL DEF WalSpec
-----------------------------------------------------------------------------
(* The monitor. *)

\* The last of a set of positions, 0 when there is none.
LEMMA LatestExists ==
    ASSUME NEW n \in Nat, NEW S \in SUBSET (1 .. n)
    PROVE  /\ Max({0} \cup S) \in {0} \cup S
           /\ \A x \in S : x <= Max({0} \cup S)
           /\ Max({0} \cup S) = 0 <=> S = {}
  <1> DEFINE T == {0} \cup S
             Above == {x .. n : x \in T}
  <1>1. T \subseteq 0 .. n
    OBVIOUS
  <1>2. Above \subseteq FiniteSubsetsOf(0 .. n) /\ Above # {}
    <2>1. \A x \in T : IsFiniteSet(x .. n) /\ x .. n \subseteq 0 .. n
      BY <1>1, FS_Interval
    <2> QED BY <2>1 DEF FiniteSubsetsOf
  <1>3. \E a \in Above : \A b \in Above : ~(<<b, a>> \in StrictSubsetOrdering(0 .. n))
    <2> HIDE DEF Above
    <2> QED BY <1>2, FS_StrictSubsetOrderingWellFounded, WFMin
  <1> HIDE DEF T
  <1>4. PICK m \in T : \A x \in T : ~(<<x .. n, m .. n>> \in StrictSubsetOrdering(0 .. n))
    BY <1>3
  <1>5. ASSUME NEW x \in T, x > m PROVE FALSE
    <2>1. m \in m .. n /\ m \notin x .. n /\ x .. n \subseteq m .. n
      BY <1>1, <1>5
    <2>2. x .. n \in SUBSET (0 .. n) /\ m .. n \in SUBSET (0 .. n)
      BY <1>1
    <2> QED BY <1>4, <2>1, <2>2 DEF StrictSubsetOrdering
  <1>6. \A x \in T : m >= x
    BY <1>1, <1>5
  <1>7. Max(T) \in T /\ \A x \in T : Max(T) >= x
    BY <1>6 DEF Max
  <1>8. \A x \in S : x <= Max(T)
    BY <1>1, <1>7 DEF T
  <1>9. Max(T) = 0 <=> S = {}
    <2>1. S = {} => Max(T) = 0
      BY <1>7 DEF T
    <2>2. ASSUME NEW x \in S PROVE Max(T) # 0
      <3>1. Max(T) \in 0 .. n
        BY <1>1, <1>7
      <3>2. x \in Nat /\ x >= 1 /\ x <= Max(T)
        BY <1>8
      <3> QED BY <3>1, <3>2
    <2> QED BY <2>1, <2>2
  <1> QED BY <1>7, <1>8, <1>9 DEF T

\* What Min and Max are of the sets the scores are taken from.
LEMMA LeastOfTwo ==
    ASSUME NEW a \in Int, NEW b \in Int
    PROVE  Min({a, b}) = IF a <= b THEN a ELSE b
  BY DEF Min

LEMMA GreatestOfFour ==
    ASSUME NEW a \in Nat, NEW b \in Nat, NEW c \in Nat, NEW d \in Nat
    PROVE  LET m == Max({a, b, c, d})
           IN  m \in {a, b, c, d} /\ a <= m /\ b <= m /\ c <= m /\ d <= m
  <1>1. \E m \in {a, b, c, d} : \A y \in {a, b, c, d} : m >= y
    <2> DEFINE p == IF a >= b THEN a ELSE b
               q == IF c >= d THEN c ELSE d
               m == IF p >= q THEN p ELSE q
    <2>1. m >= a /\ m >= b /\ m >= c /\ m >= d /\ m \in {a, b, c, d}
      OBVIOUS
    <2> QED BY <2>1
  <1> QED BY <1>1 DEF Max

\* RegisteredAt and Uses of any history.
Registrations(p, s, i) == {j \in 1 .. i : p[j].kind = "register" /\ p[j].server = s}
LatestIn(p, s, i) == Max({0} \cup Registrations(p, s, i))
UsesIn(p, s) == {i \in LatestIn(p, s, Len(p)) + 1 .. Len(p) :
                     p[i].kind = "call" /\ p[i].call.server = s}

\* The events of the history.
Happenings == [kind : {"init"}, servers : SUBSET Servers]
              \cup [kind : {"register"}, server : Servers, capabilities : Capabilities]
              \cup [kind : {"call"}, call : ToolCalls, entry : Nat]
              \cup [kind : {"output"}, entry : Nat]

\* What was the latest registration at an earlier time stays so.
LEMMA PastStays ==
    ASSUME NEW P, NEW p \in Seq(P), NEW ev \in P, NEW s
    PROVE  \A i \in 0 .. Len(p) : LatestIn(Append(p, ev), s, i) = LatestIn(p, s, i)
  <1> DEFINE q == Append(p, ev)
             n == Len(p)
  <1>1. n \in Nat /\ \A i \in 1 .. n : q[i] = p[i]
    OBVIOUS
  <1> HIDE DEF q, n
  <1>2. \A i \in 0 .. n : Registrations(q, s, i) = Registrations(p, s, i)
    <2> SUFFICES ASSUME NEW i \in 0 .. n PROVE Registrations(q, s, i) = Registrations(p, s, i)
      OBVIOUS
    <2>1. \A j \in 1 .. i : j \in 1 .. n
      BY <1>1
    <2> QED BY <1>1, <2>1 DEF Registrations
  <1>3. \A i \in 0 .. n : LatestIn(q, s, i) = LatestIn(p, s, i)
    BY <1>2 DEF LatestIn
  <1> QED BY <1>3 DEF q, n

\* What one more event changes of the registrations and uses.
LEMMA OneMoreEvent ==
    ASSUME NEW P, NEW p \in Seq(P), NEW ev \in P, NEW s
    PROVE  LET q == Append(p, ev)
               n == Len(p)
               new == ev.kind = "register" /\ ev.server = s
           IN  /\ \A i \in 0 .. n : LatestIn(q, s, i) = LatestIn(p, s, i)
               /\ LatestIn(q, s, n + 1) = IF new THEN n + 1 ELSE LatestIn(p, s, n)
               /\ UsesIn(q, s) = IF new THEN {}
                                 ELSE IF ev.kind = "call" /\ ev.call.server = s
                                 THEN UsesIn(p, s) \cup {n + 1} ELSE UsesIn(p, s)
               /\ LatestIn(p, s, n) \in 0 .. n
               /\ IsFiniteSet(UsesIn(p, s)) /\ UsesIn(p, s) \subseteq 1 .. n
               /\ \A i \in 0 .. n : /\ LatestIn(p, s, i) \in 0 .. i
                                    /\ LatestIn(p, s, i) # 0 => LatestIn(p, s, i) \in Registrations(p, s, i)
  <1> DEFINE q == Append(p, ev)
             n == Len(p)
             new == ev.kind = "register" /\ ev.server = s
             called == ev.kind = "call" /\ ev.call.server = s
  <1>1. /\ n \in Nat /\ Len(q) = n + 1 /\ q[n + 1] = ev
        /\ \A i \in 1 .. n : q[i] = p[i]
    OBVIOUS
  <1> HIDE DEF q, n
  <1>3. \A i \in 0 .. n : LatestIn(q, s, i) = LatestIn(p, s, i)
    BY PastStays DEF q, n
  <1>4. ASSUME NEW i \in 0 .. n
        PROVE  /\ LatestIn(p, s, i) \in 0 .. i
               /\ LatestIn(p, s, i) # 0 => LatestIn(p, s, i) \in Registrations(p, s, i)
    <2>1. Registrations(p, s, i) \in SUBSET (1 .. i) /\ i \in Nat
      BY <1>1 DEF Registrations
    <2>2. LatestIn(p, s, i) \in {0} \cup Registrations(p, s, i)
      BY <2>1, LatestExists DEF LatestIn
    <2>3. 0 \in 0 .. i /\ \A j \in 1 .. i : j \in 0 .. i
      BY <2>1
    <2> QED BY <2>1, <2>2, <2>3
  <1>5. LatestIn(q, s, n + 1) = IF new THEN n + 1 ELSE LatestIn(p, s, n)
    <2>0. \A j : j \in 1 .. n + 1 <=> j \in 1 .. n \/ j = n + 1
      BY <1>1
    <2>1. CASE new
      <3>1. Registrations(q, s, n + 1) \in SUBSET (1 .. n + 1)
        BY DEF Registrations
      <3>2. n + 1 \in Registrations(q, s, n + 1)
        BY <1>1, <2>0, <2>1 DEF Registrations
      <3>3. /\ LatestIn(q, s, n + 1) \in {0} \cup Registrations(q, s, n + 1)
            /\ n + 1 <= LatestIn(q, s, n + 1)
        <4> DEFINE m == n + 1
        <4>1. m \in Nat
          BY <1>1
        <4> HIDE DEF m
        <4>2. Registrations(q, s, m) \in SUBSET (1 .. m) /\ m \in Registrations(q, s, m)
          BY <3>1, <3>2 DEF m
        <4>3. /\ LatestIn(q, s, m) \in {0} \cup Registrations(q, s, m)
              /\ m <= LatestIn(q, s, m)
          BY <4>1, <4>2, LatestExists DEF LatestIn
        <4> QED BY <4>3 DEF m
      <3>4. LatestIn(q, s, n + 1) \in 0 .. n + 1
        BY <1>1, <3>1, <3>3
      <3> QED BY <1>1, <2>1, <3>3, <3>4
    <2>2. CASE ~new
      <3>1. Registrations(q, s, n + 1) = Registrations(p, s, n)
        BY <1>1, <2>0, <2>2 DEF Registrations
      <3> QED BY <2>2, <3>1 DEF LatestIn
    <2> QED BY <2>1, <2>2
  <1>6. UsesIn(p, s) \subseteq 1 .. n /\ IsFiniteSet(UsesIn(p, s))
    <2>1. LatestIn(p, s, n) \in 0 .. n
      BY <1>1, <1>4
    <2>2. UsesIn(p, s) \subseteq 1 .. n
      BY <1>1, <2>1 DEF UsesIn, n
    <2> QED BY <1>1, <2>2, FS_Interval, FS_Subset
  <1>7. UsesIn(q, s) = IF new THEN {} ELSE IF called THEN UsesIn(p, s) \cup {n + 1} ELSE UsesIn(p, s)
    <2>1. CASE new
      <3>1. LatestIn(q, s, Len(q)) + 1 .. Len(q) = {}
        BY <1>1, <1>5, <2>1
      <3> QED BY <2>1, <3>1 DEF UsesIn
    <2>2. CASE ~new
      <3> DEFINE r == LatestIn(p, s, n)
      <3>1. LatestIn(q, s, Len(q)) = r /\ r \in 0 .. n
        BY <1>1, <1>4, <1>5, <2>2
      <3> HIDE DEF r
      <3>2. \A i : i \in r + 1 .. n + 1 <=> i \in r + 1 .. n \/ i = n + 1
        BY <1>1, <3>1
      <3>3. \A i \in r + 1 .. n : i \in 1 .. n
        BY <1>1, <3>1
      <3>4. UsesIn(q, s) = {i \in r + 1 .. n + 1 : q[i].kind = "call" /\ q[i].call.server = s}
        BY <1>1, <3>1 DEF UsesIn
      <3>5. UsesIn(p, s) = {i \in r + 1 .. n : p[i].kind = "call" /\ p[i].call.server = s}
        BY DEF UsesIn, r, n
      <3>6. CASE called
        BY <1>1, <2>2, <3>2, <3>3, <3>4, <3>5, <3>6
      <3>7. CASE ~called
        BY <1>1, <2>2, <3>2, <3>3, <3>4, <3>5, <3>7
      <3> QED BY <3>6, <3>7
    <2> QED BY <2>1, <2>2
  <1>8. LatestIn(p, s, n) \in 0 .. n
    BY <1>1, <1>4
  <1> QED BY <1>3, <1>4, <1>5, <1>6, <1>7, <1>8 DEF q, n

\* What the shadow detector keeps is of its kind.
RegistryTyped ==
    /\ past \in Seq(Happenings) /\ past # << >>
    /\ past[1].kind = "init" /\ past[1].servers \in SUBSET Servers
    /\ registry \in [DOMAIN registry -> [capabilities : Capabilities, call_count : Nat]]
    /\ DOMAIN registry \subseteq Servers /\ approved \subseteq Servers

\* What it keeps of s is what the history says: whether it is approved, what it
\* declared last, and how often it was used since.
Recalls(s) ==
    LET r == LatestIn(past, s, Len(past))
    IN  /\ s \in approved <=> s \in past[1].servers \/ r # 0
        /\ s \in DOMAIN registry <=> r # 0
        /\ r # 0 => registry[s] = [capabilities |-> past[r].capabilities,
                                   call_count |-> Cardinality(UsesIn(past, s))]

\* What a call may name as its server.
AnyServer == Servers \cup {NoServer}
Remembers == RegistryTyped /\ \A s \in AnyServer : Recalls(s)

\* How the history looks after one more event.
LEMMA HistoryGrows ==
    ASSUME RegistryTyped, NEW ev \in Happenings, past' = Append(past, ev)
    PROVE  /\ past' \in Seq(Happenings) /\ past' # << >> /\ past'[1] = past[1]
           /\ Len(past) \in Nat \ {0} /\ Len(past') = Len(past) + 1
           /\ past'[Len(past) + 1] = ev
           /\ \A i \in 1 .. Len(past) : past'[i] = past[i]
  BY DEF RegistryTyped

\* What one more event changes of the registration in force and its uses.
LEMMA EventInHistory ==
    ASSUME RegistryTyped, NEW ev \in Happenings, past' = Append(past, ev), NEW s
    PROVE  LET n == Len(past)
               new == ev.kind = "register" /\ ev.server = s
           IN  /\ LatestIn(past', s, n + 1) = IF new THEN n + 1 ELSE LatestIn(past, s, n)
               /\ UsesIn(past', s) = IF new THEN {}
                                     ELSE IF ev.kind = "call" /\ ev.call.server = s
                                     THEN UsesIn(past, s) \cup {n + 1} ELSE UsesIn(past, s)
               /\ LatestIn(past, s, n) \in 0 .. n
               /\ IsFiniteSet(UsesIn(past, s)) /\ UsesIn(past, s) \subseteq 1 .. n
               /\ \A i \in 0 .. n : /\ LatestIn(past', s, i) = LatestIn(past, s, i)
                                    /\ LatestIn(past, s, i) \in 0 .. i
  <1>1. past \in Seq(Happenings)
    BY DEF RegistryTyped
  <1>2. \A i \in 0 .. Len(past) : LatestIn(past', s, i) = LatestIn(past, s, i)
    <2> DEFINE q == Append(past, ev)
    <2>1. \A i \in 0 .. Len(past) : LatestIn(q, s, i) = LatestIn(past, s, i)
      BY <1>1, PastStays
    <2>2. past' = q
      OBVIOUS
    <2> HIDE DEF q
    <2> QED BY <2>1, <2>2
  <1>3. \A i \in 0 .. Len(past) : LatestIn(past, s, i) \in 0 .. i
    BY <1>1, OneMoreEvent
  <1>4. LET n == Len(past)
            new == ev.kind = "register" /\ ev.server = s
        IN  /\ LatestIn(past', s, n + 1) = IF new THEN n + 1 ELSE LatestIn(past, s, n)
            /\ UsesIn(past', s) = IF new THEN {}
                                  ELSE IF ev.kind = "call" /\ ev.call.server = s
                                  THEN UsesIn(past, s) \cup {n + 1} ELSE UsesIn(past, s)
            /\ LatestIn(past, s, n) \in 0 .. n
            /\ IsFiniteSet(UsesIn(past, s)) /\ UsesIn(past, s) \subseteq 1 .. n
    BY <1>1, OneMoreEvent
  <1> QED BY <1>2, <1>3, <1>4

\* register_server(): the newest registration of s is the one made now, and no
\* call has used it.
LEMMA RegisterRemembered ==
    ASSUME Remembers, NEW x \in Servers, NEW caps \in Capabilities, register_server(x, caps)
    PROVE  Remembers'
  <1> DEFINE ev == [kind |-> "register", server |-> x, capabilities |-> caps]
             n == Len(past)
  <1>1. ev \in Happenings /\ ev.kind = "register" /\ ev.server = x /\ past' = Append(past, ev)
    BY DEF Happenings, register_server
  <1>2. RegistryTyped
    BY DEF Remembers
  <1> HIDE DEF ev
  <1>3. /\ past' \in Seq(Happenings) /\ past' # << >> /\ past'[1] = past[1]
        /\ n \in Nat \ {0} /\ Len(past') = n + 1 /\ past'[n + 1] = ev
        /\ \A i \in 1 .. n : past'[i] = past[i]
    BY <1>1, <1>2, HistoryGrows
  <1>4. registry' = [s \in {x} \cup DOMAIN registry |->
                        IF s = x THEN [capabilities |-> caps, call_count |-> 0] ELSE registry[s]]
    BY DEF register_server
  <1>5. RegistryTyped'
    BY <1>2, <1>3, <1>4 DEF RegistryTyped, register_server
  <1>6. ASSUME NEW s \in AnyServer PROVE Recalls(s)'
    <2> DEFINE r == LatestIn(past, s, n)
               q == past'
    <2>1. /\ LatestIn(q, s, n + 1) = IF s = x THEN n + 1 ELSE r
          /\ UsesIn(q, s) = IF s = x THEN {} ELSE UsesIn(past, s)
          /\ r \in 0 .. n
      BY <1>1, <1>2, EventInHistory
    <2>2. /\ s \in approved <=> s \in past[1].servers \/ r # 0
          /\ s \in DOMAIN registry <=> r # 0
          /\ r # 0 => registry[s] = [capabilities |-> past[r].capabilities,
                                     call_count |-> Cardinality(UsesIn(past, s))]
      BY DEF Remembers, Recalls
    <2>3. approved' = approved \cup {x}
      BY DEF register_server
    <2>4. CASE s = x
      <3>1. LatestIn(q, s, n + 1) = n + 1 /\ n + 1 # 0 /\ Cardinality(UsesIn(q, s)) = 0
        BY <1>3, <2>1, <2>4, FS_EmptySet
      <3>2. q[n + 1].capabilities = caps
        BY <1>3 DEF ev
      <3> QED BY <1>3, <1>4, <2>3, <2>4, <3>1, <3>2 DEF Recalls
    <2>5. CASE s # x
      <3>1. LatestIn(q, s, n + 1) = r /\ UsesIn(q, s) = UsesIn(past, s)
        BY <2>1, <2>5
      <3>2. r # 0 => q[r] = past[r]
        BY <1>3, <2>1
      <3> HIDE DEF r
      <3> QED BY <1>3, <1>4, <2>2, <2>3, <2>5, <3>1, <3>2 DEF Recalls
    <2> QED BY <2>4, <2>5
  <1> QED BY <1>5, <1>6 DEF Remembers, AnyServer

\* A call that comes as far as the shadow detector is one use more of its server,
\* if that is registered.
LEMMA UseRemembered ==
    ASSUME Remembers, NEW c \in ToolCalls, NEW e \in Nat, CountUse(c), approved' = approved,
           past' = Append(past, [kind |-> "call", call |-> c, entry |-> e])
    PROVE  Remembers'
  <1> DEFINE ev == [kind |-> "call", call |-> c, entry |-> e]
             n == Len(past)
             x == c.server
  <1>1. ev \in Happenings /\ ev.kind = "call" /\ ev.call.server = x /\ past' = Append(past, ev)
    BY DEF Happenings
  <1>2. RegistryTyped
    BY DEF Remembers
  <1> HIDE DEF ev
  <1>3. /\ past' \in Seq(Happenings) /\ past' # << >> /\ past'[1] = past[1]
        /\ n \in Nat \ {0} /\ Len(past') = n + 1 /\ past'[n + 1] = ev
        /\ \A i \in 1 .. n : past'[i] = past[i]
    BY <1>1, <1>2, HistoryGrows
  <1>4. /\ DOMAIN registry' = DOMAIN registry
        /\ \A s \in DOMAIN registry :
              registry'[s] = [registry[s] EXCEPT !.call_count =
                                 @ + IF s = x /\ Known(c) THEN 1 ELSE 0]
        /\ registry' = [s \in DOMAIN registry |-> registry'[s]]
    BY DEF CountUse
  <1>5. \A s \in DOMAIN registry :
           /\ registry[s] \in [capabilities : Capabilities, call_count : Nat]
           /\ registry'[s] = [capabilities |-> registry[s].capabilities,
                              call_count |-> registry[s].call_count + IF s = x /\ Known(c) THEN 1 ELSE 0]
    BY <1>2, <1>4 DEF RegistryTyped
  <1>6. RegistryTyped'
    <2>1. ASSUME NEW s \in DOMAIN registry
          PROVE  registry'[s] \in [capabilities : Capabilities, call_count : Nat]
      <3> DEFINE more == IF s = x /\ Known(c) THEN 1 ELSE 0
      <3>1. more \in Nat /\ registry[s].capabilities \in Capabilities /\ registry[s].call_count \in Nat
        BY <1>5
      <3>2. registry'[s] = [capabilities |-> registry[s].capabilities,
                            call_count |-> registry[s].call_count + more]
        BY <1>5
      <3> HIDE DEF more
      <3> QED BY <3>1, <3>2
    <2> QED BY <1>2, <1>3, <1>4, <2>1 DEF RegistryTyped
  <1>7. ASSUME NEW s \in AnyServer PROVE Recalls(s)'
    <2> DEFINE r == LatestIn(past, s, n)
               q == past'
    <2>1. /\ LatestIn(q, s, n + 1) = r
          /\ UsesIn(q, s) = IF s = x THEN UsesIn(past, s) \cup {n + 1} ELSE UsesIn(past, s)
          /\ r \in 0 .. n
          /\ IsFiniteSet(UsesIn(past, s)) /\ UsesIn(past, s) \subseteq 1 .. n
      BY <1>1, <1>2, EventInHistory
    <2>2. /\ s \in approved <=> s \in past[1].servers \/ r # 0
          /\ s \in DOMAIN registry <=> r # 0
          /\ r # 0 => registry[s] = [capabilities |-> past[r].capabilities,
                                     call_count |-> Cardinality(UsesIn(past, s))]
      BY DEF Remembers, Recalls
    <2> HIDE DEF r
    <2>3. r # 0 => q[r] = past[r]
      BY <1>3, <2>1
    <2>4. Cardinality(UsesIn(q, s)) = Cardinality(UsesIn(past, s)) + IF s = x THEN 1 ELSE 0
      <3>1. n + 1 \notin UsesIn(past, s)
        BY <1>3, <2>1
      <3>2. Cardinality(UsesIn(past, s)) \in Nat
        BY <2>1, FS_CardinalityType
      <3>3. Cardinality(UsesIn(past, s) \cup {n + 1}) = Cardinality(UsesIn(past, s)) + 1
        BY <2>1, <3>1, FS_AddElement
      <3> QED BY <2>1, <3>2, <3>3
    <2>5. s = x /\ r # 0 => Known(c)
      BY <2>2 DEF Known
    <2>6. r # 0 => registry'[s] = [capabilities |-> q[r].capabilities,
                                   call_count |-> Cardinality(UsesIn(q, s))]
      <3> SUFFICES ASSUME r # 0
                   PROVE  registry'[s] = [capabilities |-> q[r].capabilities,
                                          call_count |-> Cardinality(UsesIn(q, s))]
        OBVIOUS
      <3>1. /\ registry[s].capabilities = past[r].capabilities
            /\ registry[s].call_count = Cardinality(UsesIn(past, s))
        BY <2>2
      <3>2. (IF s = x /\ Known(c) THEN 1 ELSE 0) = IF s = x THEN 1 ELSE 0
        BY <2>5
      <3>3. registry'[s] = [capabilities |-> registry[s].capabilities, call_count |->
               registry[s].call_count + IF s = x /\ Known(c) THEN 1 ELSE 0]
        BY <1>5, <2>2
      <3> QED BY <2>3, <2>4, <3>1, <3>2, <3>3
    <2> QED BY <1>3, <1>4, <2>1, <2>2, <2>6 DEF Recalls
  <1> QED BY <1>6, <1>7 DEF Remembers, AnyServer

\* An output leaves the shadow detector alone.
LEMMA OutputRemembered ==
    ASSUME Remembers, NEW e \in Nat, UNCHANGED register,
           past' = Append(past, [kind |-> "output", entry |-> e])
    PROVE  Remembers'
  <1> DEFINE ev == [kind |-> "output", entry |-> e]
             n == Len(past)
  <1>1. ev \in Happenings /\ ev.kind = "output" /\ past' = Append(past, ev)
    BY DEF Happenings
  <1>2. RegistryTyped
    BY DEF Remembers
  <1> HIDE DEF ev
  <1>3. /\ past' \in Seq(Happenings) /\ past' # << >> /\ past'[1] = past[1]
        /\ n \in Nat \ {0} /\ Len(past') = n + 1
        /\ \A i \in 1 .. n : past'[i] = past[i]
    BY <1>1, <1>2, HistoryGrows
  <1>4. RegistryTyped'
    BY <1>2, <1>3 DEF RegistryTyped, register
  <1>5. ASSUME NEW s \in AnyServer PROVE Recalls(s)'
    <2> DEFINE r == LatestIn(past, s, n)
               q == past'
    <2>1. LatestIn(q, s, n + 1) = r /\ UsesIn(q, s) = UsesIn(past, s) /\ r \in 0 .. n
      BY <1>1, <1>2, EventInHistory
    <2>2. /\ s \in approved <=> s \in past[1].servers \/ r # 0
          /\ s \in DOMAIN registry <=> r # 0
          /\ r # 0 => registry[s] = [capabilities |-> past[r].capabilities,
                                     call_count |-> Cardinality(UsesIn(past, s))]
      BY DEF Remembers, Recalls
    <2>3. r # 0 => q[r] = past[r]
      BY <1>3, <2>1
    <2> HIDE DEF r
    <2> QED BY <1>3, <2>1, <2>2, <2>3 DEF Recalls, register
  <1> QED BY <1>4, <1>5 DEF Remembers, AnyServer

-----------------------------------------------------------------------------
\* The sets the detectors count are finite.
LEMMA PayloadShape ==
    ASSUME NEW p \in Payload, NEW labels \in SUBSET PIITypes, NEW tool
    PROVE  /\ IsFiniteSet(RegexMatched(p.texts)) /\ IsFiniteSet(PIIFound(p.texts, labels))
           /\ ExfilReasons(tool, p) \in Nat
  <1>1. p.texts \in Seq(Text)
    BY DEF Payload
  <1> DEFINE texts == p.texts
             n == Len(texts)
  <1>2. n \in Nat /\ DOMAIN texts = 1 .. n /\ \A i \in 1 .. n : texts[i] \in Text
    BY <1>1
  <1> HIDE DEF n
  <1>3. IsFiniteSet(RegexMatched(texts))
    <2>1. IsFiniteSet(Hidden)
      <3>1. Hidden = {"zero_width_chars_detected"} \cup {"unicode_bidi_override"}
        BY DEF Hidden
      <3>2. IsFiniteSet({"zero_width_chars_detected"}) /\ IsFiniteSet({"unicode_bidi_override"})
        BY FS_Singleton
      <3> QED BY <3>1, <3>2, FS_Union
    <2>2. IsFiniteSet(Patterns \cup Hidden)
      BY <2>1, DetectorsAssumption, FS_Union
    <2>3. \A i \in 1 .. n : _prescan(texts[i]) \cup UNION normalize_input(texts[i])
                               \subseteq Patterns \cup Hidden
      BY <1>2 DEF _prescan, normalize_input, Text
    <2>4. RegexMatched(texts) \subseteq Patterns \cup Hidden
      BY <1>2, <2>3 DEF RegexMatched
    <2> QED BY <2>2, <2>4, FS_Subset
  <1>4. IsFiniteSet(PIIFound(texts, labels))
    <2>1. \A i \in 1 .. n : texts[i].pii \subseteq PIITypes
      BY <1>2 DEF Text
    <2>2. PIIFound(texts, labels) \subseteq PIITypes
      BY <1>2, <2>1 DEF PIIFound
    <2> QED BY <2>2, DetectorsAssumption, FS_Subset
  <1>5. ExfilReasons(tool, p) \in Nat
    <2> DEFINE urls == {i \in DOMAIN texts : texts[i].url}
    <2>1. IsFiniteSet(1 .. n) /\ urls \in SUBSET (1 .. n)
      BY <1>2, FS_Interval
    <2>2. Cardinality(urls) \in Nat
      BY <2>1, FS_Subset, FS_CardinalityType
    <2> QED BY <2>2 DEF ExfilReasons
  <1> QED BY <1>3, <1>4, <1>5

\* What the detectors are given.
LEMMA CallShape ==
    ASSUME NEW c \in ToolCalls
    PROVE  /\ c.server \in AnyServer /\ c.proba \in 0 .. 100
           /\ IsFiniteSet(RegexMatched(c.payload.texts))
           /\ IsFiniteSet(PIIFound(c.payload.texts, c.labels))
           /\ ExfilReasons(c.tool, c.payload) \in Nat
  <1>1. /\ c.server \in AnyServer /\ c.payload \in Payload /\ c.labels \in SUBSET PIITypes
        /\ c.proba \in 0 .. 100
    BY MonitorCallAssumption DEF AnyServer
  <1> QED BY <1>1, PayloadShape

\* What the classifier can be by now: it was trained if it could be, and one
\* that could not is not asked again.
Learned ==
    /\ classifier \in {"none", "untrained", "trained"}
    /\ classifier = "trained" => trainable
    /\ trainable => enable_ml = TRUE /\ classifier # "untrained"
    /\ classifier = "untrained" => enable_ml = FALSE

\* A call that gets past the classifier was shown to one exactly when there is
\* one to ask and the patterns say nothing.
LEMMA AskedWhenDue ==
    ASSUME Learned, NEW c \in ToolCalls, ~ClassifyRaises(c)
    PROVE  Asked(c) <=> trainable /\ Ambiguous(c)
  BY DEF Learned, ClassifyRaises, Asked, Loaded

\* What there is to let through in a call, the server apart.
Harmless(c) ==
    LET matched == RegexMatched(c.payload.texts)
    IN  /\ Cardinality(matched) <= 1 /\ PIIFound(c.payload.texts, c.labels) = {}
        /\ ExfilReasons(c.tool, c.payload) = 0
        /\ matched = {} /\ trainable /\ c.payload.texts # << >> => c.proba < ml_threshold

\* What the injection detector says of a call, by its patterns or its classifier.
LEMMA InjectionDecides ==
    ASSUME Learned, NEW c \in ToolCalls, ~ClassifyRaises(c)
    PROVE  LET matched == RegexMatched(c.payload.texts)
           IN  /\ InjectionRisk(c) \in Nat
               /\ InjectionRisk(c) < 50 <=>
                     /\ Cardinality(matched) <= 1
                     /\ matched = {} /\ trainable /\ c.payload.texts # << >> => c.proba < ml_threshold
  <1> DEFINE matched == RegexMatched(c.payload.texts)
             n == Cardinality(matched)
  <1>1. n \in Nat /\ (n = 0 <=> matched = {}) /\ c.proba \in 0 .. 100
    BY CallShape, FS_CardinalityType, FS_EmptySet
  <1>2. CASE matched # {}
    <2>1. InjectionRisk(c) = RegexRisk(matched)
      BY <1>2 DEF InjectionRisk
    <2>2. RegexRisk(matched) = Min({30 + 15 * n, 100})
      BY DEF RegexRisk
    <2> HIDE DEF n, matched
    <2>3. Min({30 + 15 * n, 100}) = IF 30 + 15 * n <= 100 THEN 30 + 15 * n ELSE 100
      BY <1>1, LeastOfTwo
    <2> QED BY <1>1, <1>2, <2>1, <2>2, <2>3 DEF n, matched
  <1>3. CASE matched = {}
    <2> DEFINE p == c.proba
    <2>1. InjectionRisk(c) = IF trainable /\ c.payload.texts # << >> THEN MLRisk(p) ELSE 0
      BY <1>3, AskedWhenDue DEF InjectionRisk, Ambiguous
    <2> HIDE DEF p
    <2>2. p \in 0 .. 100
      BY <1>1 DEF p
    <2>3. MLRisk(p) \in Nat /\ (MLRisk(p) < 50 <=> p < ml_threshold)
      <3>1. CASE p >= 70
        <4>1. (p * 80) \div 100 \in 56 .. 80
          BY <2>2, <3>1
        <4> DEFINE d == (p * 80) \div 100
        <4> HIDE DEF d
        <4>2. d \in 56 .. 80
          BY <4>1 DEF d
        <4>3. Min({d, 80}) = d
          BY <4>2, LeastOfTwo
        <4>4. MLRisk(p) = d
          BY <3>1, <4>3 DEF MLRisk, ml_threshold, d
        <4> QED BY <2>2, <3>1, <4>2, <4>4 DEF ml_threshold
      <3>2. CASE p < 70
        BY <2>2, <3>2 DEF MLRisk, ml_threshold
      <3> QED BY <2>2, <3>1, <3>2
    <2>4. n = 0
      BY <1>1, <1>3
    <2> QED BY <1>3, <2>1, <2>3, <2>4 DEF p
  <1> QED BY <1>2, <1>3

\* A call scores below 50 when no detector says anything of it but that one
\* pattern matched.
LEMMA ScoresDecide ==
    ASSUME Learned, NEW c \in ToolCalls, ~ClassifyRaises(c)
    PROVE  CallRisk(c) \in 0 .. 100 /\ (CallRisk(c) < 50 <=> Harmless(c) /\ ~IsShadow(c))
  <1> DEFINE a == InjectionRisk(c)
             types == PIIFound(c.payload.texts, c.labels)
             b == PIIRisk(40, types)
             d == IF IsShadow(c) THEN 80 ELSE 0
             reasons == ExfilReasons(c.tool, c.payload)
             e == ExfilRisk(c.tool, c.payload)
             m == Max({a, b, d, e})
             matched == RegexMatched(c.payload.texts)
             clean == /\ Cardinality(matched) <= 1
                      /\ matched = {} /\ trainable /\ c.payload.texts # << >> => c.proba < ml_threshold
  <1>1. a \in Nat /\ (a < 50 <=> clean)
    BY InjectionDecides
  <1>2. b \in Nat /\ (b < 50 <=> types = {})
    <2> DEFINE k == Cardinality(types)
    <2>1. k \in Nat /\ (k = 0 <=> types = {})
      BY CallShape, FS_CardinalityType, FS_EmptySet
    <2>2. b = IF types = {} THEN 0 ELSE 40 + 10 * k
      BY DEF PIIRisk
    <2> HIDE DEF k, types, b
    <2> QED BY <2>1, <2>2
  <1>3. d \in Nat /\ (d < 50 <=> ~IsShadow(c))
    OBVIOUS
  <1>4. e \in Nat /\ (e < 50 <=> reasons = 0)
    <2>1. reasons \in Nat
      BY CallShape
    <2>2. e = IF reasons = 0 THEN 0 ELSE 70 + 5 * reasons
      BY DEF ExfilRisk
    <2> HIDE DEF reasons, e
    <2> QED BY <2>1, <2>2
  <1>5. Harmless(c) <=> clean /\ types = {} /\ reasons = 0
    BY DEF Harmless
  <1>6. CallRisk(c) = Min({100, m})
    BY DEF CallRisk
  <1> HIDE DEF a, b, d, e, clean, types, reasons
  <1>7. m \in {a, b, d, e} /\ a <= m /\ b <= m /\ d <= m /\ e <= m
    BY <1>1, <1>2, <1>3, <1>4, GreatestOfFour
  <1> HIDE DEF m
  <1>8. m \in Nat
    BY <1>1, <1>2, <1>3, <1>4, <1>7
  <1>9. Min({100, m}) = IF 100 <= m THEN 100 ELSE m
    BY <1>8, LeastOfTwo
  <1>10. m < 50 <=> a < 50 /\ b < 50 /\ d < 50 /\ e < 50
    BY <1>1, <1>2, <1>3, <1>4, <1>7, <1>8
  <1> QED BY <1>1, <1>2, <1>3, <1>4, <1>5, <1>6, <1>8, <1>9, <1>10

-----------------------------------------------------------------------------
\* Every call that was answered has its entry in the audit log.
EntriesMade == \A i \in DOMAIN past :
    past[i].kind = "call" => past[i].entry <= Len(inspected)

\* The entries of the audit log.
Answers == [kind : {"call"}, of : ToolCalls, risk_score : 0 .. 100, allowed : BOOLEAN]
           \cup [kind : {"output"}, of : ToolOutputs, risk_score : Nat, allowed : BOOLEAN]

\* The inductive invariant: what the shadow detector and the classifier keep
\* agrees with the history, and so does every verdict.
MonitorIInv ==
    /\ Remembers /\ Learned
    /\ inspected \in Seq(Answers) /\ EntriesMade /\ VerdictIsDue

\* One more event that leaves the entries made so far alone takes nothing back
\* of what was due of the calls before.
LEMMA DueStays ==
    ASSUME RegistryTyped, NEW ev \in Happenings, past' = Append(past, ev), trainable' = trainable,
           NEW c, NEW i \in 1 .. Len(past)
    PROVE  Due(c, i)' <=> Due(c, i)
  <1> DEFINE r == LatestIn(past, c.server, i)
             q == past'
  <1>1. /\ Len(past) \in Nat \ {0} /\ q[1] = past[1]
        /\ \A j \in 1 .. Len(past) : q[j] = past[j]
    BY HistoryGrows
  <1>2. LatestIn(q, c.server, i) = r
    BY EventInHistory
  <1>3. r \in 0 .. i
    <2>1. i \in 0 .. Len(past)
      BY <1>1
    <2> QED BY <2>1, EventInHistory
  <1>4. RegisteredAt(c.server, i)' = LatestIn(q, c.server, i) /\ RegisteredAt(c.server, i) = r
    BY DEF RegisteredAt, LatestIn, Registrations
  <1> HIDE DEF r
  <1>5. r # 0 => q[r] = past[r]
    BY <1>1, <1>3
  <1>6. RegisteredAt(c.server, i)' = RegisteredAt(c.server, i) /\ RegisteredAt(c.server, i) = r
    BY <1>2, <1>4
  <1> QED BY <1>1, <1>5, <1>6 DEF Due

\* What is due of a call when it is made is what the shadow detector and the
\* scores say of it.
LEMMA DueNow ==
    ASSUME Remembers, NEW c \in ToolCalls, NEW e \in Nat, NEW k, k = Len(past) + 1, trainable' = trainable,
           past' = Append(past, [kind |-> "call", call |-> c, entry |-> e])
    PROVE  Due(c, k)' <=> Harmless(c) /\ ~IsShadow(c)
  <1> DEFINE ev == [kind |-> "call", call |-> c, entry |-> e]
             n == Len(past)
             s == c.server
             r == LatestIn(past, s, n)
             q == past'
  <1>1. ev \in Happenings /\ ev.kind = "call" /\ past' = Append(past, ev) /\ RegistryTyped
    BY DEF Happenings, Remembers
  <1> HIDE DEF ev
  <1>2. /\ n \in Nat \ {0} /\ Len(q) = n + 1 /\ q[1] = past[1]
        /\ \A i \in 1 .. n : q[i] = past[i]
    BY <1>1, HistoryGrows
  <1>3. LatestIn(q, s, k) = r /\ r \in 0 .. n
    BY <1>1, EventInHistory
  <1>4. RegisteredAt(s, k)' = LatestIn(q, s, k)
    BY <1>2 DEF RegisteredAt, LatestIn, Registrations
  <1>5. /\ s \in approved <=> s \in past[1].servers \/ r # 0
        /\ s \in DOMAIN registry <=> r # 0
        /\ r # 0 => registry[s].capabilities = past[r].capabilities
    <2>1. s \in AnyServer
      BY CallShape
    <2>2. Recalls(s)
      BY <2>1 DEF Remembers
    <2> QED BY <2>2 DEF Recalls
  <1> HIDE DEF r
  <1>6. r # 0 => q[r] = past[r]
    BY <1>2, <1>3
  <1> DEFINE caps == IF r = 0 THEN {} ELSE past[r].capabilities
  <1>7. IsShadow(c) <=> \/ ~(s \in past[1].servers \/ r # 0)
                        \/ ~(caps = {} \/ c.tool.prefix = NoPrefix
                                \/ {c.tool.prefix, c.tool.name} \cap caps # {})
    BY <1>5 DEF IsShadow, Known, Mismatched
  <1>8. Due(c, k)' <=>
           /\ s \in past[1].servers \/ r # 0
           /\ caps = {} \/ c.tool.prefix = NoPrefix \/ {c.tool.prefix, c.tool.name} \cap caps # {}
           /\ Harmless(c)
    <2>1. RegisteredAt(s, k)' = r
      BY <1>3, <1>4
    <2> QED BY <1>2, <1>6, <2>1 DEF Due, Harmless
  <1> QED BY <1>7, <1>8

\* How a payload scores that an output carries.
LEMMA OutputScores ==
    ASSUME NEW o \in ToolOutputs
    PROVE  OutputRisk(o) \in Nat
  <1> DEFINE reasons == ExfilReasons(o.tool, o.payload)
             types == PIIFound(o.payload.texts, o.labels)
             k == Cardinality(types)
             e == ExfilRisk(o.tool, o.payload)
             b == PIIRisk(50, types)
             m == Max({e, b})
  <1>1. reasons \in Nat /\ k \in Nat
    <2>1. o.payload \in Payload /\ o.labels \in SUBSET PIITypes
      BY MonitorCallAssumption
    <2> QED BY <2>1, PayloadShape, FS_CardinalityType
  <1>2. e \in Nat
    <2>1. e = IF reasons = 0 THEN 0 ELSE 70 + 5 * reasons
      BY DEF ExfilRisk
    <2> HIDE DEF reasons, e
    <2> QED BY <1>1, <2>1
  <1>3. b \in Nat
    <2>1. b = IF types = {} THEN 0 ELSE 50 + 10 * k
      BY DEF PIIRisk
    <2> HIDE DEF types, k, b
    <2> QED BY <1>1, <2>1
  <1>4. OutputRisk(o) = Min({100, m})
    BY DEF OutputRisk
  <1> HIDE DEF e, b
  <1>5. m \in {e, b}
    <2>1. {e, b} = {e, b, e, b}
      OBVIOUS
    <2>2. Max({e, b, e, b}) \in {e, b, e, b}
      BY <1>2, <1>3, GreatestOfFour
    <2> QED BY <2>1, <2>2
  <1> HIDE DEF m
  <1>6. m \in Nat
    BY <1>2, <1>3, <1>5
  <1>7. Min({100, m}) = IF 100 <= m THEN 100 ELSE m
    BY <1>6, LeastOfTwo
  <1> QED BY <1>4, <1>6, <1>7

\* Asking the classifier, or not, leaves it what it can be.
LEMMA LearnedKept ==
    ASSUME Learned, NEW c \in ToolCalls, get_ml_classifier(c), trainable' = trainable
    PROVE  Learned'
  <1>1. CASE Asked(c)
    <2>1. /\ enable_ml = TRUE /\ classifier' = Loaded /\ enable_ml' = (Loaded = "trained")
          /\ enable_ml \in BOOLEAN
      BY <1>1 DEF get_ml_classifier, Asked, Learned
    <2>2. Loaded = IF classifier = "none" THEN IF trainable THEN "trained" ELSE "untrained"
                   ELSE classifier
      BY <1>1 DEF Loaded, Asked
    <2>3. Loaded = "trained" <=> trainable
      BY <2>1, <2>2 DEF Learned
    <2>4. Loaded \in {"none", "untrained", "trained"} /\ (Loaded = "none" => FALSE)
      BY <2>1, <2>2 DEF Learned
    <2> QED BY <2>1, <2>3, <2>4 DEF Learned
  <1>2. CASE ~Asked(c)
    BY <1>2 DEF get_ml_classifier, Learned, learned
  <1> QED BY <1>1, <1>2

\* The verdicts on record stay due, if the one that is added is.
LEMMA VerdictsStay ==
    ASSUME MonitorIInv, trainable' = trainable, inspected' \in Seq(Answers),
           Len(inspected) <= Len(inspected'),
           \A m \in 1 .. Len(inspected) : inspected'[m] = inspected[m],
           NEW ev \in Happenings, past' = Append(past, ev), NEW k, k = Len(past) + 1,
           ev.kind = "call" => ev.entry <= Len(inspected'),
           ev.kind = "call" /\ ev.entry # 0
               => (inspected'[ev.entry].allowed <=> Due(ev.call, k)')
    PROVE  EntriesMade' /\ VerdictIsDue'
  <1> DEFINE n == Len(past)
  <1>1. /\ RegistryTyped /\ past \in Seq(Happenings)
        /\ Len(inspected) \in Nat /\ Len(inspected') \in Nat
    BY DEF MonitorIInv, Remembers, RegistryTyped
  <1>2. /\ n \in Nat \ {0} /\ Len(past') = n + 1 /\ past'[k] = ev /\ past' \in Seq(Happenings)
        /\ \A i \in 1 .. n : past'[i] = past[i]
    BY <1>1, HistoryGrows
  <1>3. DOMAIN past = 1 .. n /\ DOMAIN past' = 1 .. n + 1
    BY <1>1, <1>2, LenProperties
  <1>4. \A i \in DOMAIN past' : i \in 1 .. n \/ i = k
    BY <1>2, <1>3
  <1>5. ASSUME NEW i \in 1 .. n, past'[i].kind = "call"
        PROVE  /\ past'[i].entry \in Nat /\ past'[i].entry <= Len(inspected)
               /\ past'[i].entry # 0 =>
                     (inspected'[past'[i].entry].allowed <=> Due(past[i].call, i)')
    <2>1. past'[i] = past[i]
      BY <1>2
    <2>2. PICK c \in ToolCalls, m \in Nat : past[i].call = c /\ past[i].entry = m
      <3>1. past[i] \in Happenings
        BY <1>1
      <3> QED BY <1>5, <2>1, <3>1 DEF Happenings
    <2>3. m <= Len(inspected)
      BY <1>3, <1>5, <2>1, <2>2 DEF MonitorIInv, EntriesMade
    <2>4. m # 0 => (inspected[m].allowed <=> Due(c, i))
      BY <1>3, <1>5, <2>1, <2>2 DEF MonitorIInv, VerdictIsDue
    <2>5. Due(c, i)' <=> Due(c, i)
      BY <1>1, DueStays
    <2>6. m # 0 => inspected'[m] = inspected[m]
      BY <1>1, <2>3
    <2>7. past'[i].call = c /\ past'[i].entry = m
      BY <2>1, <2>2
    <2>8. m # 0 => (inspected'[m].allowed <=> Due(c, i)')
      BY <2>4, <2>5, <2>6
    <2>9. Due(past[i].call, i)' <=> Due(c, i)'
      BY <2>7 DEF Due
    <2> QED BY <2>3, <2>7, <2>8, <2>9
  <1>6. EntriesMade'
    <2>1. \A i \in DOMAIN past' : past'[i].kind = "call" => past'[i].entry <= Len(inspected')
      BY <1>1, <1>2, <1>4, <1>5
    <2> QED BY <2>1 DEF EntriesMade
  <1>7. VerdictIsDue'
    <2>1. ASSUME NEW i, i \in DOMAIN past', past'[i].kind = "call", past'[i].entry # 0
          PROVE  inspected'[past'[i].entry].allowed <=> Due(past[i].call, i)'
      <3>1. CASE i \in 1 .. n
        BY <1>5, <2>1, <3>1
      <3>2. CASE i = k
        <4>1. past'[i] = ev
          BY <1>2, <3>2
        <4>2. inspected'[ev.entry].allowed <=> Due(ev.call, k)'
          BY <2>1, <4>1
        <4>3. Due(past[i].call, i)' <=> Due(ev.call, k)'
          BY <3>2, <4>1 DEF Due
        <4> QED BY <4>1, <4>2, <4>3
      <3> QED BY <1>4, <2>1, <3>1, <3>2
    <2> QED BY <2>1 DEF VerdictIsDue
  <1> QED BY <1>6, <1>7

\* inspect_call() puts on record the verdict that is due.
LEMMA CallKeeps ==
    ASSUME MonitorIInv, NEW c \in ToolCalls, inspect_call(c)
    PROVE  MonitorIInv'
  <1> DEFINE m == Len(inspected) + 1
             ev == [kind |-> "call", call |-> c, entry |-> m]
             answer == [kind |-> "call", of |-> c, risk_score |-> CallRisk(c),
                        allowed |-> CallRisk(c) < 50 /\ ~IsShadow(c)]
  <1>1. /\ Remembers /\ Learned /\ inspected \in Seq(Answers) /\ ~ClassifyRaises(c)
        /\ get_ml_classifier(c) /\ CountUse(c) /\ approved' = approved /\ trainable' = trainable
        /\ inspected' = Append(inspected, answer) /\ past' = Append(past, ev)
    BY DEF MonitorIInv, inspect_call
  <1>2. m \in Nat /\ m # 0 /\ Len(inspected) \in Nat /\ Len(inspected) <= m
    BY <1>1
  <1>3. CallRisk(c) \in 0 .. 100 /\ (CallRisk(c) < 50 <=> Harmless(c) /\ ~IsShadow(c))
    BY <1>1, ScoresDecide
  <1>4. answer \in Answers /\ (answer.allowed <=> Harmless(c) /\ ~IsShadow(c))
    BY <1>3 DEF Answers
  <1> HIDE DEF answer, m
  <1>5. Remembers'
    BY <1>1, <1>2, UseRemembered
  <1>6. Learned'
    BY <1>1, LearnedKept
  <1>7. /\ inspected' \in Seq(Answers) /\ Len(inspected') = m /\ inspected'[m] = answer
        /\ \A i \in 1 .. Len(inspected) : inspected'[i] = inspected[i]
    BY <1>1, <1>4 DEF m
  <1>8. PICK k : k = Len(past) + 1
    OBVIOUS
  <1>9. Due(c, k)' <=> Harmless(c) /\ ~IsShadow(c)
    BY <1>1, <1>2, <1>8, DueNow
  <1>10. EntriesMade' /\ VerdictIsDue'
    <2>1. PICK e \in Happenings : e.kind = "call" /\ e.call = c /\ e.entry = m /\ past' = Append(past, e)
      <3>1. ev \in Happenings
        BY <1>2 DEF Happenings
      <3> QED BY <1>1, <3>1
    <2>2. Due(e.call, k)' <=> Due(c, k)'
      BY <2>1 DEF Due
    <2>3. e.kind = "call" => e.entry <= Len(inspected')
      BY <1>2, <1>7, <2>1
    <2>4. e.kind = "call" /\ e.entry # 0 => (inspected'[e.entry].allowed <=> Due(e.call, k)')
      BY <1>4, <1>7, <1>9, <2>1, <2>2
    <2> QED BY <1>1, <1>2, <1>7, <1>8, <2>1, <2>3, <2>4, VerdictsStay
  <1> QED BY <1>5, <1>6, <1>7, <1>10 DEF MonitorIInv

\* A call the last detector raises on is a use, and has no verdict.
LEMMA RaisedCallKeeps ==
    ASSUME MonitorIInv, NEW c \in ToolCalls, exfiltration_raises(c)
    PROVE  MonitorIInv'
  <1> DEFINE ev == [kind |-> "call", call |-> c, entry |-> 0]
  <1>1. /\ Remembers /\ Learned /\ inspected \in Seq(Answers)
        /\ get_ml_classifier(c) /\ CountUse(c) /\ approved' = approved /\ trainable' = trainable
        /\ inspected' = inspected /\ past' = Append(past, ev)
    BY DEF MonitorIInv, exfiltration_raises
  <1>2. Remembers'
    BY <1>1, UseRemembered
  <1>3. Learned'
    BY <1>1, LearnedKept
  <1>4. ev \in Happenings /\ ev.entry = 0 /\ Len(inspected) \in Nat
    BY <1>1 DEF Happenings
  <1> HIDE DEF ev
  <1>5. EntriesMade' /\ VerdictIsDue'
    <2>1. PICK k : k = Len(past) + 1
      OBVIOUS
    <2>2. PICK e \in Happenings : e.entry = 0 /\ past' = Append(past, e)
      BY <1>1, <1>4
    <2>3. e.entry <= Len(inspected')
      BY <1>1, <1>4, <2>2
    <2>4. inspected' \in Seq(Answers) /\ Len(inspected) <= Len(inspected')
      BY <1>1, <1>4
    <2>5. \A i \in 1 .. Len(inspected) : inspected'[i] = inspected[i]
      BY <1>1
    <2> QED BY <1>1, <2>1, <2>2, <2>3, <2>4, <2>5, VerdictsStay
  <1> QED BY <1>1, <1>2, <1>3, <1>5 DEF MonitorIInv

\* What adds to the history but calls nothing, and to the log at its end, leaves
\* the verdicts as they are.
LEMMA OthersKeep ==
    ASSUME MonitorIInv, Remembers', Learned', trainable' = trainable,
           inspected' \in Seq(Answers), Len(inspected) <= Len(inspected'),
           \A i \in 1 .. Len(inspected) : inspected'[i] = inspected[i],
           NEW ev \in Happenings, ev.kind # "call", past' = Append(past, ev)
    PROVE  MonitorIInv'
  <1>1. PICK k : k = Len(past) + 1
    OBVIOUS
  <1>2. EntriesMade' /\ VerdictIsDue'
    BY <1>1, VerdictsStay
  <1> QED BY <1>2 DEF MonitorIInv

\* A registration disturbs no verdict made before it.
LEMMA RegisterKeeps ==
    ASSUME MonitorIInv, NEW s \in Servers, NEW caps \in Capabilities, register_server(s, caps)
    PROVE  MonitorIInv'
  <1> DEFINE ev == [kind |-> "register", server |-> s, capabilities |-> caps]
  <1>1. /\ Remembers /\ Learned /\ inspected \in Seq(Answers) /\ trainable' = trainable
        /\ UNCHANGED learned /\ inspected' = inspected /\ past' = Append(past, ev)
    BY DEF MonitorIInv, register_server
  <1>2. Remembers'
    BY <1>1, RegisterRemembered
  <1>3. Learned'
    BY <1>1 DEF Learned, learned
  <1>4. ev \in Happenings /\ ev.kind # "call" /\ Len(inspected) \in Nat
    BY <1>1 DEF Happenings
  <1> HIDE DEF ev
  <1>5. PICK e \in Happenings : e.kind # "call" /\ past' = Append(past, e)
    BY <1>1, <1>4
  <1>6. inspected' \in Seq(Answers) /\ Len(inspected) <= Len(inspected')
    BY <1>1, <1>4
  <1>7. \A i \in 1 .. Len(inspected) : inspected'[i] = inspected[i]
    BY <1>1
  <1> QED BY <1>1, <1>2, <1>3, <1>5, <1>6, <1>7, OthersKeep

\* An inspected output disturbs none either.
LEMMA OutputKeeps ==
    ASSUME MonitorIInv, NEW o \in ToolOutputs, inspect_output(o)
    PROVE  MonitorIInv'
  <1> DEFINE raises == ExfilRaises(o.tool, o.payload)
             m == IF raises THEN 0 ELSE Len(inspected) + 1
             ev == [kind |-> "output", entry |-> m]
             answer == [kind |-> "output", of |-> o, risk_score |-> OutputRisk(o),
                        allowed |-> OutputRisk(o) < 50]
  <1>1. /\ Remembers /\ Learned /\ inspected \in Seq(Answers) /\ trainable' = trainable
        /\ UNCHANGED register /\ UNCHANGED learned /\ past' = Append(past, ev)
        /\ inspected' = inspected \/ inspected' = Append(inspected, answer)
    BY DEF MonitorIInv, inspect_output
  <1>2. answer \in Answers /\ Len(inspected) \in Nat
    BY <1>1, OutputScores DEF Answers
  <1>3. m \in Nat
    BY <1>2
  <1> HIDE DEF m, answer
  <1>4. Remembers'
    BY <1>1, <1>3, OutputRemembered
  <1>5. Learned'
    BY <1>1 DEF Learned, learned
  <1>6. ev \in Happenings /\ ev.kind # "call"
    BY <1>3 DEF Happenings
  <1> HIDE DEF ev
  <1>7. PICK e \in Happenings : e.kind # "call" /\ past' = Append(past, e)
    BY <1>1, <1>6
  <1>8. /\ inspected' \in Seq(Answers) /\ Len(inspected) <= Len(inspected')
        /\ \A i \in 1 .. Len(inspected) : inspected'[i] = inspected[i]
    <2>1. CASE inspected' = inspected
      BY <1>1, <1>2, <2>1
    <2>2. CASE inspected' = Append(inspected, answer)
      BY <1>1, <1>2, <2>2
    <2> QED BY <1>1, <2>1, <2>2
  <1> QED BY <1>1, <1>4, <1>5, <1>7, <1>8, OthersKeep

\* What the verdicts are judged by did not change.
LEMMA SameVerdicts ==
    ASSUME EntriesMade, VerdictIsDue, UNCHANGED <<trainable, inspected, past>>
    PROVE  EntriesMade' /\ VerdictIsDue'
  <1>1. EntriesMade'
    BY DEF EntriesMade
  <1>2. ASSUME NEW i, i \in DOMAIN past', past'[i].kind = "call", past'[i].entry # 0
        PROVE  inspected'[past'[i].entry].allowed <=> Due(past[i].call, i)'
    <2>1. inspected[past[i].entry].allowed <=> Due(past[i].call, i)
      BY <1>2 DEF VerdictIsDue
    <2>2. Due(past[i].call, i)' <=> Due(past[i].call, i)
      BY DEF Due, RegisteredAt
    <2> QED BY <2>1, <2>2
  <1> QED BY <1>1, <1>2 DEF VerdictIsDue

\* A call the classifier raises on leaves the history and the log alone.
LEMMA UntrainedKeeps ==
    ASSUME MonitorIInv, NEW c \in ToolCalls, classify_raises(c)
    PROVE  MonitorIInv'
  <1>1. /\ UNCHANGED <<trainable, register, inspected, past>> /\ Learned /\ get_ml_classifier(c)
    BY DEF MonitorIInv, classify_raises
  <1>2. Learned'
    BY <1>1, LearnedKept
  <1>3. Remembers'
    BY <1>1 DEF MonitorIInv, Remembers, RegistryTyped, Recalls, register
  <1>4. EntriesMade' /\ VerdictIsDue'
    <2>1. EntriesMade /\ VerdictIsDue /\ UNCHANGED <<trainable, inspected, past>>
      BY <1>1 DEF MonitorIInv
    <2> QED BY <2>1, SameVerdicts
  <1> QED BY <1>1, <1>2, <1>3, <1>4 DEF MonitorIInv

\* A monitor begins with the servers it was given, and nothing learned.
LEMMA MonitorStarts ==
    ASSUME MonitorInit
    PROVE  MonitorIInv
  <1> DEFINE ev == [kind |-> "init", servers |-> approved]
  <1>1. /\ approved \in SUBSET Servers /\ past = << ev >> /\ registry = << >>
        /\ DOMAIN registry = {} /\ inspected = << >>
    BY DEF MonitorInit
  <1>2. ev \in Happenings /\ ev.kind = "init" /\ ev.servers = approved
    BY <1>1 DEF Happenings
  <1> HIDE DEF ev
  <1>3. past \in Seq(Happenings) /\ past # << >> /\ Len(past) = 1 /\ past[1] = ev
    BY <1>1, <1>2
  <1>4. RegistryTyped
    <2>1. registry \in [DOMAIN registry -> [capabilities : Capabilities, call_count : Nat]]
      BY <1>1
    <2> QED BY <1>1, <1>2, <1>3, <2>1 DEF RegistryTyped
  <1>5. ASSUME NEW s \in AnyServer PROVE Recalls(s)
    <2>1. Registrations(past, s, Len(past)) = {}
      BY <1>2, <1>3 DEF Registrations
    <2>2. LatestIn(past, s, Len(past)) = 0
      BY <1>3, <2>1, LatestExists DEF LatestIn
    <2> QED BY <1>1, <1>2, <1>3, <2>2 DEF Recalls
  <1>6. Learned
    BY DEF MonitorInit, Learned
  <1>7. inspected \in Seq(Answers)
    BY <1>1
  <1>8. \A i \in DOMAIN past : past[i].kind # "call"
    BY <1>2, <1>3
  <1>9. EntriesMade /\ VerdictIsDue
    BY <1>8 DEF EntriesMade, VerdictIsDue
  <1> QED BY <1>4, <1>5, <1>6, <1>7, <1>9 DEF MonitorIInv, Remembers

\* The inductive invariant, through every operation of the monitor.
LEMMA MonitorInvariant == MonitorSpec => []MonitorIInv
  <1>1. MonitorIInv /\ [MonitorNext]_monitorVars => MonitorIInv'
    <2> SUFFICES ASSUME MonitorIInv, [MonitorNext]_monitorVars PROVE MonitorIInv'
      OBVIOUS
    <2>1. ASSUME NEW s \in Servers, NEW caps \in Capabilities, register_server(s, caps)
          PROVE  MonitorIInv'
      BY <2>1, RegisterKeeps
    <2>2. ASSUME NEW c \in ToolCalls, inspect_call(c) \/ classify_raises(c) \/ exfiltration_raises(c)
          PROVE  MonitorIInv'
      BY <2>2, CallKeeps, UntrainedKeeps, RaisedCallKeeps
    <2>3. ASSUME NEW o \in ToolOutputs, inspect_output(o)
          PROVE  MonitorIInv'
      BY <2>3, OutputKeeps
    <2>4. CASE UNCHANGED monitorVars
      <3>1. UNCHANGED <<trainable, approved, registry, classifier, enable_ml, inspected, past>>
        BY <2>4 DEF monitorVars
      <3>2. Remembers' /\ Learned'
        BY <3>1 DEF MonitorIInv, Remembers, RegistryTyped, Recalls, Learned
      <3>3. EntriesMade' /\ VerdictIsDue'
        BY <3>1, SameVerdicts DEF MonitorIInv
      <3> QED BY <3>1, <3>2, <3>3 DEF MonitorIInv
    <2> QED BY <2>1, <2>2, <2>3, <2>4 DEF MonitorNext
  <1> QED BY <1>1, MonitorStarts, PTL DEF MonitorSpec

\* Every verdict on record is the one due by what was registered when the call
\* was made, whatever came before it and after (monitor.py:85-86).
THEOREM VerdictsAreDue == MonitorSpec => []VerdictIsDue
  <1>1. MonitorIInv => VerdictIsDue
    BY DEF MonitorIInv
  <1> QED BY <1>1, MonitorInvariant, PTL

\* The trust in a server is what its history has earned it (shadow_server.py:75-95).
THEOREM TrustIsEarned == MonitorSpec => []TrustIsUse
  <1>1. MonitorIInv => TrustIsUse
    <2> SUFFICES ASSUME MonitorIInv, NEW s \in Servers
                 PROVE  score_server_trust(s) =
                          IF RegisteredAt(s, Len(past)) # 0
                          THEN Min({50 + trust_per_call * Cardinality(Uses(s)), 100})
                          ELSE IF s \in past[1].servers THEN 30 ELSE 0
      BY DEF TrustIsUse
    <2> DEFINE r == LatestIn(past, s, Len(past))
               n == Cardinality(UsesIn(past, s))
               p == trust_per_call
    <2>1. /\ s \in approved <=> s \in past[1].servers \/ r # 0
          /\ s \in DOMAIN registry <=> r # 0
          /\ r # 0 => registry[s] = [capabilities |-> past[r].capabilities, call_count |-> n]
      BY DEF MonitorIInv, Remembers, Recalls, AnyServer
    <2>2. RegisteredAt(s, Len(past)) = r /\ Uses(s) = UsesIn(past, s)
      BY DEF RegisteredAt, LatestIn, Registrations, Uses, UsesIn
    <2>3. past[1].kind = "init"
      BY DEF MonitorIInv, Remembers, RegistryTyped
    <2>4. r # 0 => registry[s].call_count = n /\ n \in Nat
      <3>1. registry \in [DOMAIN registry -> [capabilities : Capabilities, call_count : Nat]]
        BY DEF MonitorIInv, Remembers, RegistryTyped
      <3>2. r # 0 => registry[s] \in [capabilities : Capabilities, call_count : Nat]
        BY <2>1, <3>1
      <3> QED BY <2>1, <3>2
    <2> HIDE DEF r, n
    <2>5. n \in Nat => 50 + Min({n * p, 50}) = Min({50 + p * n, 100})
      <3> SUFFICES ASSUME n \in Nat PROVE 50 + Min({n * p, 50}) = Min({50 + p * n, 100})
        OBVIOUS
      <3>1. PICK k \in Nat : k = n * p /\ k = p * n
        BY MonitorCallAssumption
      <3>2. Min({k, 50}) = IF k <= 50 THEN k ELSE 50
        BY <3>1, LeastOfTwo
      <3>3. Min({50 + k, 100}) = IF 50 + k <= 100 THEN 50 + k ELSE 100
        BY <3>1, LeastOfTwo
      <3>4. 50 + Min({k, 50}) = Min({50 + k, 100})
        BY <3>1, <3>2, <3>3
      <3> QED BY <3>1, <3>4
    <2> QED BY <2>1, <2>2, <2>4, <2>5 DEF score_server_trust, n
  <1> QED BY <1>1, MonitorInvariant, PTL
-----------------------------------------------------------------------------
(* The kernel monitor and the network monitor. *)

\* Positions ranked among those that stay fill 1 .. their number.
LEMMA RanksFill ==
    ASSUME NEW n \in Nat, NEW S \in SUBSET (1 .. n)
    PROVE  /\ Cardinality(S) \in 0 .. n
           /\ \A j \in S : /\ Cardinality({i \in S : i <= j}) \in 1 .. Cardinality(S)
                           /\ Cardinality({i \in S : i <= j}) <= j
           /\ \A k \in 1 .. Cardinality(S) :
                 \E j \in S : Cardinality({i \in S : i <= j}) = k
           /\ \A j, l \in S : Cardinality({i \in S : i <= j}) = Cardinality({i \in S : i <= l})
                                 => j = l
  <1> DEFINE Rank(j) == Cardinality({i \in S : i <= j})
             size == Cardinality(S)
             rank == [j \in S |-> Rank(j)]
  <1>1. IsFiniteSet(S) /\ size \in 0 .. n
    <2>1. IsFiniteSet(1 .. n) /\ Cardinality(1 .. n) = n
      BY FS_Interval
    <2>2. IsFiniteSet(S) /\ size <= n
      BY <2>1, FS_Subset
    <2> QED BY <2>2, FS_CardinalityType
  <1>2. ASSUME NEW j \in S
        PROVE  IsFiniteSet({i \in S : i <= j}) /\ Rank(j) \in 1 .. size /\ Rank(j) <= j
    <2> DEFINE below == {i \in S : i <= j}
    <2>0. S \subseteq Nat \ {0} /\ j \in Nat
      OBVIOUS
    <2>1. below \in SUBSET S /\ below \in SUBSET (1 .. j) /\ j \in below /\ j \in Nat
      <3>0. \A i \in S : i <= j => i \in 1 .. j
        BY <2>0
      <3>1. below \in SUBSET (1 .. j)
        BY <3>0
      <3>2. below \in SUBSET S /\ j \in below
        BY <2>0
      <3> QED BY <2>0, <3>1, <3>2
    <2>2. IsFiniteSet(1 .. j) /\ Cardinality(1 .. j) = j
      BY <2>1, FS_Interval
    <2> HIDE DEF below
    <2>3. IsFiniteSet(below) /\ Cardinality(below) <= size
      BY <1>1, <2>1, FS_Subset
    <2>4. Cardinality(below) <= j
      BY <2>1, <2>2, FS_Subset
    <2>5. Cardinality(below) \in Nat /\ Cardinality(below) # 0
      BY <2>1, <2>3, FS_CardinalityType, FS_EmptySet
    <2>6. Cardinality(below) \in 1 .. size
      BY <1>1, <2>3, <2>5
    <2> QED BY <2>3, <2>4, <2>6 DEF below
  <1>3. ASSUME NEW j \in S, NEW l \in S, j < l PROVE Rank(j) # Rank(l)
    <2> DEFINE low == {i \in S : i <= j}
               high == {i \in S : i <= l}
    <2>0. S \subseteq Nat
      OBVIOUS
    <2>1. low \in SUBSET high /\ l \in high /\ l \notin low
      <3>1. \A i \in S : i <= j => i <= l
        BY <1>3, <2>0
      <3>2. l <= l /\ ~(l <= j)
        BY <1>3, <2>0
      <3> QED BY <3>1, <3>2
    <2>2. IsFiniteSet(high)
      BY <1>2
    <2> HIDE DEF low, high
    <2>3. Cardinality(low) # Cardinality(high)
      BY <2>1, <2>2, FS_Subset
    <2> QED BY <2>3 DEF low, high
  <1>4. \A j, l \in S : Rank(j) = Rank(l) => j = l
    <2> HIDE DEF Rank
    <2> QED BY <1>3
  <1>5. rank \in Surjection(S, 1 .. size)
    <2> HIDE DEF Rank, size
    <2>1. rank \in [S -> 1 .. size]
      BY <1>2 DEF size, Rank
    <2>2. rank \in Injection(S, 1 .. size)
      BY <1>4, <2>1 DEF Injection, IsInjective
    <2>3. IsFiniteSet(1 .. size) /\ Cardinality(1 .. size) = size
      BY <1>1, FS_Interval
    <2> HIDE DEF rank
    <2> QED BY <2>2, <2>3, FS_Injection DEF size
  <1>6. \A k \in 1 .. size : \E j \in S : Rank(j) = k
    <2> HIDE DEF Rank, size
    <2> QED BY <1>5 DEF Surjection
  <1> QED BY <1>1, <1>2, <1>4, <1>6

\* What process_event() keeps of a connection, for the history.
Connections == [ts : Nat, counted : BOOLEAN, limit : Int, alerted : BOOLEAN]

\* The places of the times, and of the connections counted, from c on.
Since(q, c) == {k \in 1 .. Len(q) : q[k] >= c}
CountedSince(r, c) == {i \in 1 .. Len(r) : r[i].counted /\ r[i].ts >= c}

\* The times kept and the connections counted agree on every count a later
\* connection may ask for.
TalliesAgree(q, r, t) == \A c \in Int :
    c >= t - minute => Cardinality(Since(q, c)) = Cardinality(CountedSince(r, c))

\* The rate of the j-th connection is reported as it should be.
RateOf(r, j) ==
    r[j].alerted <=>
        /\ r[j].counted
        /\ Cardinality({i \in 1 .. j : r[i].counted /\ r[j].ts - r[i].ts <= minute}) > r[j].limit

\* The inductive invariant of the kernel monitor.
KernelIInv ==
    /\ uptime \in Nat /\ policies = [s \in Hosts |-> policies[s]]
    /\ \A s \in Hosts : policies[s] # NoPolicy => policies[s].max_connections_per_minute \in Int
    /\ connection_counts \in [Hosts -> Seq(Nat)] /\ connects \in [Hosts -> Seq(Connections)]
    /\ \A s \in Hosts : /\ TalliesAgree(connection_counts[s], connects[s], uptime)
                        /\ \A j \in 1 .. Len(connects[s]) : RateOf(connects[s], j)

\* A filter keeps what it is to keep, in number and in kind.
LEMMA FilterKeeps ==
    ASSUME NEW q \in Seq(Nat), NEW S \in SUBSET (1 .. Len(q))
    PROVE  /\ Filtered(q, S) \in Seq(Nat) /\ Len(Filtered(q, S)) = Cardinality(S)
           /\ \A c \in Int : (\A i \in 1 .. Len(q) : q[i] >= c => i \in S)
                 => Cardinality(Since(Filtered(q, S), c)) = Cardinality(Since(q, c))
  <1> DEFINE n == Len(q)
             m == Cardinality(S)
             Rank(j) == Cardinality({i \in S : i <= j})
             PlaceOf(k) == CHOOSE j \in S : Rank(j) = k
             f == Filtered(q, S)
  <1>1. n \in Nat /\ \A i \in 1 .. n : q[i] \in Nat
    BY ElementOfSeq, LenProperties
  <1> HIDE DEF n
  <1>2. S \in SUBSET (1 .. n)
    BY DEF n
  <1>3. /\ m \in 0 .. n
        /\ \A j \in S : Rank(j) \in 1 .. m
        /\ \A k \in 1 .. m : \E j \in S : Rank(j) = k
        /\ \A j, l \in S : Rank(j) = Rank(l) => j = l
    BY <1>1, <1>2, RanksFill
  <1>4. f = [k \in 1 .. m |-> q[PlaceOf(k)]]
    BY DEF Filtered
  <1> HIDE DEF f, m, Rank
  <1>5. \A k \in 1 .. m : PlaceOf(k) \in S /\ Rank(PlaceOf(k)) = k
    BY <1>3
  <1> HIDE DEF PlaceOf
  <1>6. \A k \in 1 .. m : f[k] = q[PlaceOf(k)] /\ PlaceOf(k) \in 1 .. n /\ f[k] \in Nat
    BY <1>1, <1>2, <1>4, <1>5
  <1>7. f \in Seq(Nat) /\ Len(f) = m
    <2>1. m \in Nat /\ f \in [1 .. m -> Nat]
      BY <1>1, <1>3, <1>4, <1>6
    <2> QED BY <2>1, LenProperties, SeqDef
  <1>8. ASSUME NEW c \in Int, \A i \in 1 .. n : q[i] >= c => i \in S
        PROVE  Cardinality(Since(f, c)) = Cardinality(Since(q, c))
    <2> DEFINE A == Since(f, c)
               B == Since(q, c)
               g == [k \in A |-> PlaceOf(k)]
    <2>1. A = {k \in 1 .. m : f[k] >= c}
      BY <1>7 DEF Since
    <2>2. B = {i \in 1 .. n : q[i] >= c}
      BY DEF Since, n
    <2> HIDE DEF A, B
    <2>3. \A k \in A : PlaceOf(k) \in B
      BY <1>6, <2>1, <2>2
    <2>4. \A k, l \in A : PlaceOf(k) = PlaceOf(l) => k = l
      BY <1>5, <2>1
    <2>5. ASSUME NEW i \in B PROVE \E k \in A : PlaceOf(k) = i
      <3>1. i \in S /\ i \in 1 .. n /\ q[i] >= c
        BY <1>8, <2>2
      <3>2. PICK k \in 1 .. m : k = Rank(i)
        BY <1>3, <3>1
      <3>3. PlaceOf(k) = i
        BY <1>3, <1>5, <3>1, <3>2
      <3>4. k \in A
        BY <1>6, <2>1, <3>1, <3>2, <3>3
      <3> QED BY <3>3, <3>4
    <2>6. g \in Bijection(A, B)
      <3>1. g \in [A -> B]
        BY <2>3
      <3>2. \A k, l \in A : g[k] = g[l] => k = l
        BY <2>4
      <3>3. \A i \in B : \E k \in A : g[k] = i
        BY <2>5
      <3> HIDE DEF g
      <3> QED BY <3>1, <3>2, <3>3 DEF Bijection, Injection, Surjection, IsInjective
    <2>7. IsFiniteSet(A)
      <3>1. m \in Int /\ IsFiniteSet(1 .. m)
        BY <1>3, FS_Interval
      <3> QED BY <2>1, <3>1, FS_Subset
    <2>8. ExistsBijection(A, B)
      BY <2>6 DEF ExistsBijection
    <2> HIDE DEF g
    <2>9. Cardinality(B) = Cardinality(A)
      BY <2>7, <2>8, FS_Bijection
    <2> QED BY <2>9 DEF A, B
  <1> QED BY <1>7, <1>8 DEF f, m, n

\* One time more.
LEMMA OneMoreTime ==
    ASSUME NEW q \in Seq(Nat), NEW t \in Nat, NEW c \in Int
    PROVE  LET p == Append(q, t)
           IN  /\ IsFiniteSet(Since(q, c)) /\ Cardinality(Since(q, c)) \in Nat
               /\ Cardinality(Since(p, c)) =
                    IF t >= c THEN Cardinality(Since(q, c)) + 1 ELSE Cardinality(Since(q, c))
  <1> DEFINE p == Append(q, t)
             n == Len(q)
             A == Since(q, c)
             B == Since(p, c)
  <1>1. n \in Nat /\ Len(p) = n + 1 /\ (\A k \in 1 .. n : p[k] = q[k]) /\ p[n + 1] = t
    OBVIOUS
  <1>2. A = {k \in 1 .. n : q[k] >= c} /\ B = {k \in 1 .. n + 1 : p[k] >= c}
    BY <1>1 DEF Since
  <1> HIDE DEF A, B, p, n
  <1>3. IsFiniteSet(A) /\ Cardinality(A) \in Nat
    <2>1. IsFiniteSet(1 .. n)
      BY <1>1, FS_Interval
    <2> QED BY <1>2, <2>1, FS_Subset, FS_CardinalityType
  <1>4. B = IF t >= c THEN A \cup {n + 1} ELSE A
    <2>1. \A k \in 1 .. n + 1 : k \in 1 .. n \/ k = n + 1
      BY <1>1
    <2>2. \A k \in 1 .. n : k \in 1 .. n + 1
      BY <1>1
    <2>3. n + 1 \in 1 .. n + 1
      BY <1>1
    <2> QED BY <1>1, <1>2, <2>1, <2>2, <2>3
  <1>5. n + 1 \notin A
    BY <1>1, <1>2
  <1>6. Cardinality(A \cup {n + 1}) = Cardinality(A) + 1
    BY <1>3, <1>5, FS_AddElement
  <1> QED BY <1>3, <1>4, <1>6 DEF A, B, p

\* One connection more.
LEMMA OneMoreConnection ==
    ASSUME NEW r \in Seq(Connections), NEW x \in Connections, NEW c \in Int
    PROVE  LET p == Append(r, x)
           IN  /\ IsFiniteSet(CountedSince(r, c)) /\ Cardinality(CountedSince(r, c)) \in Nat
               /\ Cardinality(CountedSince(p, c)) =
                    IF x.counted /\ x.ts >= c THEN Cardinality(CountedSince(r, c)) + 1
                    ELSE Cardinality(CountedSince(r, c))
  <1> DEFINE p == Append(r, x)
             n == Len(r)
             A == CountedSince(r, c)
             B == CountedSince(p, c)
             more == x.counted /\ x.ts >= c
  <1>1. n \in Nat /\ Len(p) = n + 1 /\ (\A k \in 1 .. n : p[k] = r[k]) /\ p[n + 1] = x
    OBVIOUS
  <1>2. /\ A = {k \in 1 .. n : r[k].counted /\ r[k].ts >= c}
        /\ B = {k \in 1 .. n + 1 : p[k].counted /\ p[k].ts >= c}
    BY <1>1 DEF CountedSince
  <1> HIDE DEF A, B, p, n
  <1>3. IsFiniteSet(A) /\ Cardinality(A) \in Nat
    <2>1. IsFiniteSet(1 .. n)
      BY <1>1, FS_Interval
    <2> QED BY <1>2, <2>1, FS_Subset, FS_CardinalityType
  <1>4. B = IF more THEN A \cup {n + 1} ELSE A
    <2>1. \A k \in 1 .. n + 1 : k \in 1 .. n \/ k = n + 1
      BY <1>1
    <2>2. \A k \in 1 .. n : k \in 1 .. n + 1
      BY <1>1
    <2>3. n + 1 \in 1 .. n + 1
      BY <1>1
    <2> QED BY <1>1, <1>2, <2>1, <2>2, <2>3
  <1>5. n + 1 \notin A
    BY <1>1, <1>2
  <1>6. Cardinality(A \cup {n + 1}) = Cardinality(A) + 1
    BY <1>3, <1>5, FS_AddElement
  <1> QED BY <1>3, <1>4, <1>6 DEF A, B, p

\* What was reported of a connection stays what should have been.
LEMMA RatesStay ==
    ASSUME NEW r \in Seq(Connections), NEW x \in Connections,
           \A j \in 1 .. Len(r) : RateOf(r, j), RateOf(Append(r, x), Len(r) + 1)
    PROVE  \A j \in 1 .. Len(Append(r, x)) : RateOf(Append(r, x), j)
  <1> DEFINE p == Append(r, x)
             n == Len(r)
  <1>1. n \in Nat /\ Len(p) = n + 1 /\ \A k \in 1 .. n : p[k] = r[k]
    OBVIOUS
  <1> HIDE DEF p, n
  <1>2. ASSUME NEW j \in 1 .. n PROVE RateOf(p, j)
    <2> DEFINE A == {i \in 1 .. j : r[i].counted /\ r[j].ts - r[i].ts <= minute}
               B == {i \in 1 .. j : p[i].counted /\ p[j].ts - p[i].ts <= minute}
    <2>1. p[j] = r[j] /\ \A i \in 1 .. j : p[i] = r[i]
      BY <1>1
    <2>2. A = B
      BY <2>1
    <2>3. RateOf(r, j)
      BY DEF n
    <2>4. r[j].alerted <=> r[j].counted /\ Cardinality(A) > r[j].limit
      BY <2>3 DEF RateOf
    <2> HIDE DEF A
    <2>5. p[j].alerted <=> p[j].counted /\ Cardinality(B) > p[j].limit
      BY <2>1, <2>2, <2>4
    <2> QED BY <2>5 DEF RateOf
  <1>3. \A j \in 1 .. n + 1 : j \in 1 .. n \/ j = n + 1
    BY <1>1
  <1>4. RateOf(p, n + 1)
    BY DEF p, n
  <1>5. \A j \in 1 .. Len(p) : RateOf(p, j)
    BY <1>1, <1>2, <1>3, <1>4
  <1> QED BY <1>5 DEF p

\* A connection of a server with a policy: the window is filtered and measured.
LEMMA ConnectionCounts ==
    ASSUME NEW q \in Seq(Nat), NEW r \in Seq(Connections), NEW x \in Connections,
           TalliesAgree(q, r, x.ts), NEW times,
           times = Filtered(Append(q, x.ts),
                            {i \in DOMAIN Append(q, x.ts) : x.ts - Append(q, x.ts)[i] <= minute}),
           x.counted, x.alerted <=> Len(times) > x.limit
    PROVE  /\ times \in Seq(Nat)
           /\ TalliesAgree(times, Append(r, x), x.ts) /\ RateOf(Append(r, x), Len(r) + 1)
  <1> DEFINE t == x.ts
             w == Append(q, t)
             S == {i \in DOMAIN w : t - w[i] <= minute}
             p == Append(r, x)
  <1>0. t \in Nat
    BY DEF Connections
  <1>1. w \in Seq(Nat) /\ DOMAIN w = 1 .. Len(w) /\ \A i \in DOMAIN w : w[i] \in Nat
    <2>1. w \in Seq(Nat)
      BY <1>0
    <2> HIDE DEF w
    <2> QED BY <2>1
  <1>2. times = Filtered(w, S)
    OBVIOUS
  <1> HIDE DEF t, w
  <1>3. S \in SUBSET (1 .. Len(w))
    BY <1>1
  <1>4. S = Since(w, t - minute)
    BY <1>0, <1>1, MinuteAssumption DEF Since
  <1>5. \A c \in Int : c >= t - minute => \A i \in 1 .. Len(w) : w[i] >= c => i \in S
    BY <1>0, <1>1, MinuteAssumption
  <1> HIDE DEF S
  <1>6. /\ times \in Seq(Nat) /\ Len(times) = Cardinality(S)
        /\ \A c \in Int : c >= t - minute =>
              Cardinality(Since(times, c)) = Cardinality(Since(w, c))
    <2>1. /\ Filtered(w, S) \in Seq(Nat) /\ Len(Filtered(w, S)) = Cardinality(S)
          /\ \A c \in Int : (\A i \in 1 .. Len(w) : w[i] >= c => i \in S)
                => Cardinality(Since(Filtered(w, S), c)) = Cardinality(Since(w, c))
      BY <1>1, <1>3, FilterKeeps
    <2> QED BY <1>2, <1>5, <2>1
  <1>8. ASSUME NEW c \in Int, c >= t - minute
        PROVE  Cardinality(Since(w, c)) = Cardinality(CountedSince(p, c))
    <2>1. Cardinality(Since(q, c)) = Cardinality(CountedSince(r, c))
      BY <1>8 DEF TalliesAgree, t
    <2>2. Cardinality(Since(w, c)) =
             IF t >= c THEN Cardinality(Since(q, c)) + 1 ELSE Cardinality(Since(q, c))
      BY <1>0, OneMoreTime DEF w
    <2>3. Cardinality(CountedSince(p, c)) =
             IF x.counted /\ x.ts >= c THEN Cardinality(CountedSince(r, c)) + 1
             ELSE Cardinality(CountedSince(r, c))
      BY OneMoreConnection
    <2> HIDE DEF p
    <2>4. x.counted /\ x.ts = t
      BY DEF t
    <2> QED BY <2>1, <2>2, <2>3, <2>4
  <1>9. p \in Seq(Connections) /\ Len(p) = Len(r) + 1 /\ p[Len(r) + 1] = x /\ Len(r) \in Nat
    BY AppendProperties, LenProperties
  <1> HIDE DEF p
  <1>10. TalliesAgree(times, p, t)
    BY <1>6, <1>8 DEF TalliesAgree, t
  <1>11. RateOf(p, Len(r) + 1)
    <2> DEFINE M == {i \in 1 .. Len(r) + 1 : p[i].counted /\ t - p[i].ts <= minute}
    <2>1. \A i \in 1 .. Len(r) + 1 : p[i].ts \in Nat
      <3>1. \A i \in 1 .. Len(p) : p[i] \in Connections
        BY <1>9, ElementOfSeq
      <3> QED BY <1>9, <3>1 DEF Connections
    <2>2. M = CountedSince(p, t - minute)
      BY <1>0, <1>9, <2>1, MinuteAssumption DEF CountedSince
    <2>3. t - minute \in Int /\ t - minute >= t - minute
      BY <1>0, MinuteAssumption
    <2>4. Len(times) = Cardinality(M)
      BY <1>4, <1>6, <1>8, <2>2, <2>3
    <2>5. RateOf(p, Len(r) + 1) <=>
             (x.alerted <=> x.counted /\ Cardinality(M) > x.limit)
      BY <1>9 DEF RateOf, t
    <2> HIDE DEF M
    <2> QED BY <2>4, <2>5
  <1> QED BY <1>6, <1>10, <1>11 DEF p, t

\* A step of the kernel monitor, whoever calls it.
KernelStep == \/ \E p : register_policy(p) /\ p.max_connections_per_minute \in Int
              \/ \E e : process_unknown(e) \/ process_connect(e) \/ process_other(e)
              \/ Uptime
              \/ UNCHANGED kernelVars

\* Each connection is entered with what process_event() said of it.
LEMMA ConnectedEntered ==
    ASSUME KernelIInv, NEW e, NEW counted \in BOOLEAN, NEW limit, NEW alerted,
           Connected(e, counted, limit, alerted), NEW s \in Hosts
    PROVE  connects'[s] = IF s = e.server
                          THEN Append(connects[s], [ts |-> uptime, counted |-> counted,
                                                    limit |-> limit, alerted |-> alerted])
                          ELSE connects[s]
  BY DEF KernelIInv, Connected

LEMMA KernelStepKeeps ==
    ASSUME KernelIInv, KernelStep
    PROVE  KernelIInv'
  <1>0. /\ uptime \in Nat /\ policies = [s \in Hosts |-> policies[s]]
        /\ \A s \in Hosts : policies[s] # NoPolicy => policies[s].max_connections_per_minute \in Int
        /\ connection_counts \in [Hosts -> Seq(Nat)] /\ connects \in [Hosts -> Seq(Connections)]
        /\ \A s \in Hosts : TalliesAgree(connection_counts[s], connects[s], uptime)
        /\ \A s \in Hosts : \A j \in 1 .. Len(connects[s]) : RateOf(connects[s], j)
    BY DEF KernelIInv
  <1>1. ASSUME NEW p, register_policy(p), p.max_connections_per_minute \in Int
        PROVE  KernelIInv'
    <2>1. /\ policies' = [policies EXCEPT ![p.server_id] = p]
          /\ UNCHANGED <<connection_counts, uptime, connects>>
      BY <1>1 DEF register_policy
    <2>2. /\ policies' = [s \in Hosts |-> policies'[s]]
          /\ \A s \in Hosts : policies'[s] = policies[s] \/ policies'[s] = p
      BY <1>0, <2>1
    <2>3. \A s \in Hosts : policies'[s] # NoPolicy
                             => policies'[s].max_connections_per_minute \in Int
      BY <1>0, <1>1, <2>2
    <2> QED BY <1>0, <2>1, <2>2, <2>3 DEF KernelIInv
  <1>2. ASSUME NEW e, process_unknown(e) PROVE KernelIInv'
    <2>1. UNCHANGED <<policies, connection_counts, uptime>>
      BY <1>2 DEF process_unknown
    <2>2. CASE UNCHANGED connects
      BY <1>0, <2>1, <2>2 DEF KernelIInv
    <2>3. CASE Connected(e, FALSE, 0, FALSE)
      <3> DEFINE x == [ts |-> uptime, counted |-> FALSE, limit |-> 0, alerted |-> FALSE]
      <3>1. x \in Connections
        BY <1>0 DEF Connections
      <3>2. \A s \in Hosts : connects'[s] = IF s = e.server THEN Append(connects[s], x) ELSE connects[s]
        BY <2>3, ConnectedEntered
      <3>3. connects' = [s \in Hosts |-> connects'[s]]
        BY <1>0, <2>3 DEF Connected
      <3>4. x.counted = FALSE /\ x.alerted = FALSE
        OBVIOUS
      <3> HIDE DEF x
      <3>5. ASSUME NEW s \in Hosts
            PROVE  /\ connects'[s] \in Seq(Connections)
                   /\ TalliesAgree(connection_counts[s], connects'[s], uptime)
                   /\ \A j \in 1 .. Len(connects'[s]) : RateOf(connects'[s], j)
        <4>1. connects[s] \in Seq(Connections)
          BY <1>0
        <4>2. CASE s = e.server
          <5> DEFINE r == connects[s]
                     p == Append(r, x)
          <5>1. connects'[s] = p
            BY <3>2, <4>2
          <5>2. r \in Seq(Connections)
            BY <4>1
          <5> HIDE DEF r
          <5>3. /\ p \in Seq(Connections) /\ Len(p) = Len(r) + 1 /\ p[Len(r) + 1] = x
            BY <3>1, <5>2, AppendProperties, LenProperties
          <5>4. \A c \in Int : Cardinality(CountedSince(p, c)) = Cardinality(CountedSince(r, c))
            BY <3>1, <3>4, <5>2, OneMoreConnection
          <5>5. TalliesAgree(connection_counts[s], r, uptime)
            BY <1>0 DEF r
          <5>6. RateOf(p, Len(r) + 1)
            <6> HIDE DEF p
            <6> QED BY <3>4, <5>3 DEF RateOf
          <5>7. \A j \in 1 .. Len(r) : RateOf(r, j)
            BY <1>0 DEF r
          <5>8. \A j \in 1 .. Len(p) : RateOf(p, j)
            BY <3>1, <5>2, <5>6, <5>7, RatesStay
          <5> HIDE DEF p
          <5>9. TalliesAgree(connection_counts[s], p, uptime)
            BY <5>4, <5>5 DEF TalliesAgree
          <5> QED BY <5>1, <5>3, <5>8, <5>9
        <4>3. CASE s # e.server
          BY <1>0, <3>2, <4>3
        <4> QED BY <4>2, <4>3
      <3>6. connects' \in [Hosts -> Seq(Connections)]
        BY <3>3, <3>5
      <3> QED BY <1>0, <2>1, <3>5, <3>6 DEF KernelIInv
    <2> QED BY <1>2, <2>2, <2>3 DEF process_unknown
  <1>3. ASSUME NEW e, process_connect(e) PROVE KernelIInv'
    <2> DEFINE h == e.server
               limit == policies[h].max_connections_per_minute
               times == Kept(Append(connection_counts[h], uptime))
               x == [ts |-> uptime, counted |-> TRUE, limit |-> limit, alerted |-> Len(times) > limit]
    <2>1. /\ policies[h] # NoPolicy
          /\ connection_counts' = [connection_counts EXCEPT ![h] = times]
          /\ Connected(e, TRUE, limit, Len(times) > limit)
          /\ UNCHANGED <<policies, uptime>>
      BY <1>3 DEF process_connect
    <2>2. /\ \A s \in Hosts : connects'[s] = IF s = h THEN Append(connects[s], x) ELSE connects[s]
          /\ \A s \in Hosts : connection_counts'[s] = IF s = h THEN times ELSE connection_counts[s]
          /\ connects' = [s \in Hosts |-> connects'[s]]
          /\ connection_counts' = [s \in Hosts |-> connection_counts'[s]]
      <3>1. \A s \in Hosts : connects'[s] = IF s = h THEN Append(connects[s], x) ELSE connects[s]
        BY <2>1, <1>0 DEF Connected
      <3>2. connects' = [s \in Hosts |-> connects'[s]]
        BY <1>0, <2>1 DEF Connected
      <3> HIDE DEF times
      <3> QED BY <1>0, <2>1, <3>1, <3>2
    <2>3. ASSUME h \in Hosts
          PROVE  /\ times \in Seq(Nat) /\ x \in Connections
                 /\ TalliesAgree(times, Append(connects[h], x), uptime)
                 /\ RateOf(Append(connects[h], x), Len(connects[h]) + 1)
      <3>1. connection_counts[h] \in Seq(Nat) /\ connects[h] \in Seq(Connections) /\ limit \in Int
        BY <1>0, <2>1, <2>3
      <3>2. TalliesAgree(connection_counts[h], connects[h], uptime)
        BY <1>0, <2>3
      <3> DEFINE q == connection_counts[h]
                 w == Append(q, uptime)
      <3>3. times = Filtered(w, {i \in DOMAIN w : uptime - w[i] <= minute})
        BY DEF Kept
      <3> HIDE DEF limit, times
      <3>4. Len(times) \in Nat
        <4>1. w \in Seq(Nat) /\ DOMAIN w = 1 .. Len(w)
          <5>1. q \in Seq(Nat) /\ uptime \in Nat
            BY <1>0, <3>1
          <5> HIDE DEF q
          <5> QED BY <5>1
        <4> DEFINE S == {i \in DOMAIN w : uptime - w[i] <= minute}
        <4>2. S \in SUBSET (1 .. Len(w)) /\ times = Filtered(w, S)
          BY <3>3, <4>1
        <4> HIDE DEF w, S
        <4>3. Filtered(w, S) \in Seq(Nat)
          BY <4>1, <4>2, FilterKeeps
        <4> QED BY <4>2, <4>3, LenProperties
      <3>5. x \in Connections
        <4>1. (Len(times) > limit) \in BOOLEAN
          OBVIOUS
        <4> QED BY <1>0, <3>1, <4>1 DEF Connections
      <3>6. x.ts = uptime /\ x.counted /\ (x.alerted <=> Len(times) > x.limit)
        OBVIOUS
      <3> HIDE DEF x, q
      <3>7. /\ times \in Seq(Nat) /\ TalliesAgree(times, Append(connects[h], x), x.ts)
            /\ RateOf(Append(connects[h], x), Len(connects[h]) + 1)
        <4>1. times = Filtered(Append(q, x.ts),
                 {i \in DOMAIN Append(q, x.ts) : x.ts - Append(q, x.ts)[i] <= minute})
          BY <3>3, <3>6
        <4>2. q \in Seq(Nat) /\ TalliesAgree(q, connects[h], x.ts)
          BY <3>1, <3>2, <3>6 DEF q
        <4> QED BY <3>1, <3>5, <3>6, <4>1, <4>2, ConnectionCounts
      <3> QED BY <3>5, <3>6, <3>7
    <2> HIDE DEF times, x, limit
    <2>4. ASSUME NEW s \in Hosts
          PROVE  /\ connects'[s] \in Seq(Connections) /\ connection_counts'[s] \in Seq(Nat)
                 /\ TalliesAgree(connection_counts'[s], connects'[s], uptime)
                 /\ \A j \in 1 .. Len(connects'[s]) : RateOf(connects'[s], j)
      <3>1. CASE s = h
        <4> DEFINE r == connects[h]
                   p == Append(r, x)
        <4>1. r \in Seq(Connections) /\ (\A j \in 1 .. Len(r) : RateOf(r, j))
          BY <1>0, <3>1
        <4>2. /\ times \in Seq(Nat) /\ x \in Connections
              /\ TalliesAgree(times, p, uptime) /\ RateOf(p, Len(r) + 1)
          BY <2>3, <3>1
        <4>3. connects'[s] = p /\ connection_counts'[s] = times
          BY <2>2, <3>1
        <4> HIDE DEF r
        <4>4. p \in Seq(Connections) /\ \A j \in 1 .. Len(p) : RateOf(p, j)
          BY <4>1, <4>2, RatesStay, AppendProperties
        <4> HIDE DEF p
        <4> QED BY <4>2, <4>3, <4>4
      <3>2. CASE s # h
        BY <1>0, <2>2, <3>2
      <3> QED BY <3>1, <3>2
    <2>5. connects' \in [Hosts -> Seq(Connections)] /\ connection_counts' \in [Hosts -> Seq(Nat)]
      BY <2>2, <2>4
    <2> QED BY <1>0, <2>1, <2>4, <2>5 DEF KernelIInv
  <1>4. ASSUME NEW e, process_other(e) PROVE KernelIInv'
    BY <1>0, <1>4 DEF process_other, KernelIInv
  <1>5. CASE Uptime
    <2>1. uptime' = uptime + 1 /\ UNCHANGED <<policies, connection_counts, connects>>
      BY <1>5 DEF Uptime
    <2>2. uptime' \in Nat
      BY <1>0, <2>1
    <2>3. ASSUME NEW s \in Hosts PROVE TalliesAgree(connection_counts[s], connects[s], uptime')
      <3>1. \A c \in Int : c >= uptime' - minute => c >= uptime - minute
        BY <1>0, <2>1, MinuteAssumption
      <3> QED BY <1>0, <3>1 DEF TalliesAgree
    <2> QED BY <1>0, <2>1, <2>2, <2>3 DEF KernelIInv
  <1>6. CASE UNCHANGED kernelVars
    BY <1>0, <1>6 DEF KernelIInv, kernelVars
  <1> QED BY <1>1, <1>2, <1>3, <1>4, <1>5, <1>6 DEF KernelStep

LEMMA KernelStarts == KernelInit => KernelIInv
  <1> SUFFICES ASSUME KernelInit PROVE KernelIInv
    OBVIOUS
  <1>1. /\ uptime = 0 /\ policies = [s \in Hosts |-> NoPolicy]
        /\ connection_counts = [s \in Hosts |-> << >>] /\ connects = [s \in Hosts |-> << >>]
    BY DEF KernelInit
  <1>2. \A c \in Int : Since(<< >>, c) = {} /\ CountedSince(<< >>, c) = {}
    BY DEF Since, CountedSince
  <1>3. \A s \in Hosts : TalliesAgree(connection_counts[s], connects[s], uptime)
    BY <1>1, <1>2 DEF TalliesAgree
  <1>4. \A s \in Hosts : \A j \in 1 .. Len(connects[s]) : RateOf(connects[s], j)
    BY <1>1
  <1>5. << >> \in Seq(Nat) /\ << >> \in Seq(Connections)
    OBVIOUS
  <1> QED BY <1>1, <1>3, <1>4, <1>5 DEF KernelIInv

LEMMA RatesAreExact == KernelIInv => RateAlertExact
  BY DEF KernelIInv, RateOf, RateAlertExact, Minute

\* The inductive invariant of the network monitor: its lists are what was said, and
\* what the last scan returned is what they say of the rows it read.
AlertsOf(rows) == {Alert(c) : c \in {x \in rows : Leaves(x) /\ Reason(x) # "none"}}
ListsAgree == /\ blocked_remotes = blocks /\ allowed_remotes = {a.addr : a \in allows}
              /\ allowed_ports = {a.port : a \in allows} \ {NoPort}
ScanAgrees == seen.alerts = AlertsOf(seen.rows)
NetworkIInv == ListsAgree /\ ScanAgrees

\* A scan that read nothing returned nothing.
LEMMA NothingSeenAgrees == ASSUME seen = NothingSeen PROVE ScanAgrees
  BY DEF NothingSeen, ScanAgrees, AlertsOf

LEMMA NetworkStarts == NetworkInit => NetworkIInv
  BY NothingSeenAgrees DEF NetworkInit, NetworkIInv, ListsAgree

LEMMA NetworkStepKeeps == NetworkIInv /\ [NetworkNext]_networkVars => NetworkIInv'
  <1> SUFFICES ASSUME NetworkIInv, [NetworkNext]_networkVars PROVE NetworkIInv'
    OBVIOUS
  <1>0. ListsAgree /\ ScanAgrees
    BY DEF NetworkIInv
  <1>1. ASSUME NEW addr, NEW port, allow_remote(addr, port) PROVE NetworkIInv'
    <2> DEFINE a == [addr |-> addr, port |-> port]
    <2>1. /\ allowed_remotes' = allowed_remotes \cup {addr}
          /\ allowed_ports' = allowed_ports \cup ({port} \ {NoPort})
          /\ allows' = allows \cup {a} /\ UNCHANGED <<blocked_remotes, blocks>>
          /\ seen' = NothingSeen
      BY <1>1 DEF allow_remote
    <2>2. a.addr = addr /\ a.port = port
      OBVIOUS
    <2> HIDE DEF a
    <2>3. /\ {b.addr : b \in allows'} = {b.addr : b \in allows} \cup {addr}
          /\ {b.port : b \in allows'} = {b.port : b \in allows} \cup {port}
      BY <2>1, <2>2
    <2>4. ListsAgree'
      BY <1>0, <2>1, <2>3 DEF ListsAgree
    <2>5. ScanAgrees'
      BY <2>1 DEF NothingSeen, ScanAgrees, AlertsOf
    <2> QED BY <2>4, <2>5 DEF NetworkIInv
  <1>2. ASSUME NEW addr, block_remote(addr) PROVE NetworkIInv'
    <2>1. ListsAgree'
      BY <1>0, <1>2 DEF block_remote, ListsAgree
    <2>2. ScanAgrees'
      BY <1>2 DEF block_remote, NothingSeen, ScanAgrees, AlertsOf
    <2> QED BY <2>1, <2>2 DEF NetworkIInv
  <1>3. ASSUME NEW conns, scan(conns) PROVE NetworkIInv'
    <2>1. /\ seen' = [rows |-> conns, alerts |-> AlertsOf(conns)]
          /\ UNCHANGED <<allowed_remotes, allowed_ports, blocked_remotes, allows, blocks>>
      BY <1>3 DEF scan, AlertsOf
    <2>2. ListsAgree'
      BY <1>0, <2>1 DEF ListsAgree
    <2>3. \A c : Reason(c)' = Reason(c)
      BY <2>1 DEF Reason, HiddenMail, Unapproved
    <2>4. \A rows : AlertsOf(rows)' = AlertsOf(rows)
      BY <2>3 DEF AlertsOf, Alert
    <2>5. seen'.alerts = AlertsOf(seen'.rows)
      BY <2>1
    <2>6. ScanAgrees'
      BY <2>4, <2>5 DEF ScanAgrees
    <2> QED BY <2>2, <2>6 DEF NetworkIInv
  <1>4. CASE UNCHANGED networkVars
    BY <1>0, <1>4 DEF networkVars, NetworkIInv, ListsAgree, ScanAgrees, AlertsOf, Alert, Reason,
                      HiddenMail, Unapproved
  <1> QED BY <1>1, <1>2, <1>3, <1>4 DEF NetworkNext

\* Two rows are told apart by what is reported of them, except where they go to the same
\* port of the same address: of these the reason is the same.
LEMMA SameReason ==
    ASSUME NEW c, NEW d, _parse_addr(c) = _parse_addr(d), c.port = d.port
    PROVE  Reason(c) = Reason(d)
  BY DEF Reason, HiddenMail, Unapproved

\* What was said of a row is its reason, or nothing.
LEMMA SaidIsReason ==
    ASSUME NetworkIInv, NEW c \in seen.rows, Leaves(c)
    PROVE  Said(c) = IF Reason(c) = "none" THEN {} ELSE {Reason(c)}
  <1>1. seen.alerts = AlertsOf(seen.rows)
    BY DEF NetworkIInv, ScanAgrees
  <1>2. \A r \in seen.alerts : \E d \in seen.rows : Leaves(d) /\ Reason(d) # "none" /\ r = Alert(d)
    BY <1>1 DEF AlertsOf
  <1>3. \A r \in seen.alerts : r.addr = _parse_addr(c) /\ r.port = c.port
                                => r.reason = Reason(c) /\ Reason(c) # "none"
    <2> SUFFICES ASSUME NEW r \in seen.alerts, r.addr = _parse_addr(c), r.port = c.port
                 PROVE  r.reason = Reason(c) /\ Reason(c) # "none"
      OBVIOUS
    <2>1. PICK d \in seen.rows : Leaves(d) /\ Reason(d) # "none" /\ r = Alert(d)
      BY <1>2
    <2>2. r.addr = _parse_addr(d) /\ r.port = d.port /\ r.reason = Reason(d)
      BY <2>1 DEF Alert
    <2>3. Reason(d) = Reason(c)
      BY <2>2, SameReason
    <2> QED BY <2>1, <2>2, <2>3
  <1>4. ASSUME Reason(c) # "none" PROVE Reason(c) \in Said(c)
    <2>1. Alert(c) \in seen.alerts
      BY <1>1, <1>4 DEF AlertsOf
    <2>2. /\ Alert(c).addr = _parse_addr(c) /\ Alert(c).port = c.port
          /\ Alert(c).reason = Reason(c)
      BY DEF Alert
    <2> QED BY <2>1, <2>2 DEF Said
  <1> QED BY <1>3, <1>4 DEF Said

LEMMA ScansTell == NetworkIInv => ScanIsTrue
  <1> SUFFICES ASSUME NetworkIInv PROVE ScanIsTrue
    OBVIOUS
  <1>0. ListsAgree /\ ScanAgrees
    BY DEF NetworkIInv
  <1>1. ASSUME NEW c \in seen.rows, Leaves(c)
        PROVE  LET addr == _parse_addr(c)
                   host_allowed == \E a \in allows : a.addr = addr
                   port_allowed == \E a \in allows : a.port = c.port
               IN  /\ addr \in blocks => Said(c) = {"blocked"}
                   /\ Said(c) = {} => /\ c.port \in MailPorts => port_allowed
                                      /\ allows = {} \/ host_allowed \/ c.family # "tcp"
                                         \/ c.host \in LocalRemotes
                   /\ addr \notin blocks /\ host_allowed /\ port_allowed => Said(c) = {}
    <2> DEFINE addr == _parse_addr(c)
               host_allowed == \E a \in allows : a.addr = addr
               port_allowed == \E a \in allows : a.port = c.port
    <2>1. Said(c) = IF Reason(c) = "none" THEN {} ELSE {Reason(c)}
      BY <1>1, SaidIsReason
    <2>2. c.port # NoPort /\ (c.family = "tcp" => c.host \notin Wildcards)
      BY <1>1 DEF Leaves
    <2>3. /\ addr \in blocked_remotes <=> addr \in blocks
          /\ addr \in allowed_remotes <=> host_allowed
          /\ allowed_remotes = {} <=> allows = {}
          /\ c.port \in allowed_ports <=> port_allowed
      BY <1>0, <2>2 DEF ListsAgree
    <2>4. addr.host = c.host /\ (addr.form = "ipv6" <=> c.family # "tcp")
      BY DEF _parse_addr
    <2>5. CASE addr \in blocked_remotes
      BY <2>1, <2>3, <2>5 DEF Reason
    <2>6. CASE addr \notin blocked_remotes
      <3>1. Reason(c) = "none" <=> ~HiddenMail(c) /\ ~Unapproved(c)
        BY <2>6 DEF Reason
      <3>2. HiddenMail(c) <=> c.port \in MailPorts /\ ~port_allowed
        BY <2>3 DEF HiddenMail
      <3>3. Unapproved(c) => ~host_allowed /\ allows # {}
        BY <2>3 DEF Unapproved
      <3>4. ASSUME allows # {}, ~host_allowed, c.family = "tcp", c.host \notin LocalRemotes
            PROVE  Unapproved(c)
        <4>1. addr.form # "ipv6" /\ addr.host \notin LocalRemotes \cup Wildcards
          BY <2>2, <2>4, <3>4
        <4>2. allowed_remotes # {} /\ addr \notin allowed_remotes
          BY <2>3, <3>4
        <4> QED BY <4>1, <4>2 DEF Unapproved, _is_local
      <3> QED BY <2>1, <2>3, <2>6, <3>1, <3>2, <3>3, <3>4
    <2> QED BY <2>5, <2>6
  <1>2. ASSUME NEW r \in seen.alerts
        PROVE  \E c \in seen.rows : Leaves(c) /\ r.addr = _parse_addr(c) /\ r.port = c.port
    BY <1>0 DEF ScanAgrees, AlertsOf, Alert
  <1> QED BY <1>1, <1>2 DEF ScanIsTrue

\* In a behaviour of the services only the kernel's part and the red team's move the
\* kernel monitor, and only by its own steps.
LEMMA MonitorsBehave ==
    ASSUME [ServicesNext]_Vars PROVE KernelStep /\ [NetworkNext]_networkVars
  <1>1. CASE UNCHANGED Vars
    BY <1>1 DEF Vars, KernelStep
  <1>2. CASE ServicesNext
    <2>1. part \in Parts /\ Still(Parts \ {part})
      BY <1>2 DEF ServicesNext, Parts
    <2>2. [NetworkNext]_networkVars
      <3>1. part # "network" => UNCHANGED networkVars
        BY <2>1 DEF Still, Parts
      <3>2. part = "network" => NetworkNext
        BY <1>2 DEF ServicesNext
      <3> QED BY <3>1, <3>2
    <2>3. CASE part \notin {"kernel", "redteam"}
      <3>1. UNCHANGED kernelVars
        BY <2>1, <2>3 DEF Still, Parts
      <3> QED BY <2>2, <3>1 DEF KernelStep
    <2>4. CASE part = "kernel"
      <3>1. KernelNext
        BY <1>2, <2>4 DEF ServicesNext
      <3> QED BY <2>2, <3>1, PoliciesAssumption DEF KernelNext, KernelStep
    <2>5. CASE part = "redteam"
      <3>1. SimulatorNext
        BY <1>2, <2>5 DEF ServicesNext
      <3>2. CASE register_policy(gateway_policy("postmark"))
        <4>1. gateway_policy("postmark").max_connections_per_minute \in Int
          BY DEF gateway_policy
        <4> QED BY <2>2, <3>2, <4>1 DEF KernelStep
      <3>3. CASE feed_event
        BY <2>2, <3>3 DEF feed_event, KernelStep
      <3>4. CASE UNCHANGED kernelVars
        BY <2>2, <3>4 DEF KernelStep
      <3>5. \/ register_policy(gateway_policy("postmark")) \/ feed_event \/ UNCHANGED kernelVars
        BY <3>1 DEF SimulatorNext, run_full_catalog, run_category, run_single, Replays,
                    evaluate_attack, attack_ends, run_ends
      <3> QED BY <3>2, <3>3, <3>4, <3>5
    <2> QED BY <2>3, <2>4, <2>5
  <1> QED BY <1>1, <1>2

\* A connection is reported as too many exactly when its minute holds more than the
\* limit in force (kernel.py:142-154).
THEOREM RatesAreTold == ServicesSpec => []RateAlertExact
  <1>1. ServicesInit => KernelIInv
    BY KernelStarts DEF ServicesInit
  <1>2. KernelIInv /\ [ServicesNext]_Vars => KernelIInv'
    BY MonitorsBehave, KernelStepKeeps
  <1>3. KernelIInv => RateAlertExact
    BY RatesAreExact
  <1> QED BY <1>1, <1>2, <1>3, PTL DEF ServicesSpec

\* Of every outbound row it read a scan returned what the calls of allow() and block()
\* before it make due of the address the row is read as: blocked ones are reported as
\* blocked, and silence needs an allowed mail port and, once any remote is allowed, an
\* allowed or local remote or a row of tcp6, whose host is not looked at
\* (network_monitor.py:114-154, 160-192).
THEOREM ScansAreTrue == ServicesSpec => []ScanIsTrue
  <1>1. ServicesInit => NetworkIInv
    BY NetworkStarts DEF ServicesInit
  <1>2. NetworkIInv /\ [ServicesNext]_Vars => NetworkIInv'
    BY MonitorsBehave, NetworkStepKeeps
  <1>3. NetworkIInv => ScanIsTrue
    BY ScansTell
  <1> QED BY <1>1, <1>2, <1>3, PTL DEF ServicesSpec
-----------------------------------------------------------------------------
(* Sums over finite sets. tlapm expands SumFunctionOnSet down to the       *)
(* CHOOSE of its fold, and a finite set has no infinite descent of         *)
(* subsets: that is an induction whose statement is a set.                 *)

\* Induction over a finite set, with a set for the statement: a collection that has
\* every subset of S whose smaller subsets it has, has them all.
LEMMA SmallerFirst ==
    ASSUME NEW S, IsFiniteSet(S), NEW T,
           \A s \in SUBSET S : (\A r \in SUBSET s : r # s => r \in T) => s \in T
    PROVE  \A s \in SUBSET S : s \in T
  <1> DEFINE rest == {s \in SUBSET S : s \notin T}
  <1> SUFFICES ASSUME rest # {} PROVE FALSE
    OBVIOUS
  <1>1. \A s \in SUBSET S : IsFiniteSet(s)
    BY FS_Subset
  <1>2. rest \subseteq FiniteSubsetsOf(S)
    BY <1>1 DEF FiniteSubsetsOf
  <1>3. \E s \in rest : \A t \in rest : ~(<<t, s>> \in StrictSubsetOrdering(S))
    <2> HIDE DEF rest
    <2> QED BY <1>2, FS_StrictSubsetOrderingWellFounded, WFMin
  <1>4. PICK s \in rest : \A t \in rest : ~(<<t, s>> \in StrictSubsetOrdering(S))
    BY <1>3
  <1>5. PICK r \in SUBSET s : r # s /\ r \notin T
    BY <1>4
  <1>6. r \in rest /\ <<r, s>> \in StrictSubsetOrdering(S)
    BY <1>5 DEF StrictSubsetOrdering
  <1> QED BY <1>4, <1>6

\* The same, one element after the other.
LEMMA OneByOne ==
    ASSUME NEW S, IsFiniteSet(S), NEW T, {} \in T,
           \A s \in SUBSET S : s \in T => \A x \in S \ s : s \cup {x} \in T
    PROVE  \A s \in SUBSET S : s \in T
  <1>1. ASSUME NEW s \in SUBSET S, \A r \in SUBSET s : r # s => r \in T PROVE s \in T
    <2>1. CASE s = {}
      BY <2>1
    <2>2. CASE s # {}
      <3>1. PICK x \in s : TRUE
        BY <2>2
      <3>2. s \ {x} \in T
        BY <1>1, <3>1
      <3>3. s = (s \ {x}) \cup {x} /\ x \in S \ (s \ {x}) /\ s \ {x} \in SUBSET S
        BY <3>1
      <3> QED BY <3>2, <3>3
    <2> QED BY <2>1, <2>2
  <1> QED BY <1>1, SmallerFirst

\* What the fold of SumFunctionOnSet is defined by.
Element(s) == CHOOSE x \in s : TRUE
Rest(s) == s \ {Element(s)}
SumsOf(f, S, g) == /\ g = [s \in SUBSET S |-> g[s]]
                   /\ \A s \in SUBSET S : g[s] = IF s = {} THEN 0 ELSE f[Element(s)] + g[Rest(s)]

\* The operator is that fold (Folds!MapThenFoldSet and FoldFunctionOnSet, expanded).
LEMMA SumIsFold ==
    ASSUME NEW f, NEW S PROVE SumFunctionOnSet(f, S) = (CHOOSE g : SumsOf(f, S, g))[S]
  <1> DEFINE Fold(g) == [s \in SUBSET S |->
                 IF s = {} THEN 0 ELSE f[Element(s)] + g[s \ {Element(s)}]]
  <1>1. SumFunctionOnSet(f, S) = (CHOOSE g : g = Fold(g))[S]
    BY DEF SumFunctionOnSet, FoldFunctionOnSet, MapThenFoldSet, Element
  <1>2. ASSUME NEW g PROVE g = Fold(g) <=> SumsOf(f, S, g)
    BY DEF SumsOf, Rest
  <1>3. (CHOOSE g : g = Fold(g)) = (CHOOSE g : SumsOf(f, S, g))
    <2> HIDE DEF Fold
    <2> QED BY <1>2
  <1> QED BY <1>1, <1>3

\* What is left of a set without its element is smaller.
LEMMA RestIsSmaller ==
    ASSUME NEW s, s # {} PROVE Element(s) \in s /\ Rest(s) \in SUBSET s /\ Rest(s) # s
  BY DEF Element, Rest

\* Two sums of the same function agree wherever both are defined.
LEMMA SumsAgree ==
    ASSUME NEW f, NEW S, IsFiniteSet(S), NEW R \in SUBSET S, NEW g, NEW h,
           SumsOf(f, S, g), SumsOf(f, R, h)
    PROVE  \A s \in SUBSET R : g[s] = h[s]
  <1> DEFINE T == {s \in SUBSET R : g[s] = h[s]}
  <1>1. ASSUME NEW s \in SUBSET R, \A r \in SUBSET s : r # s => r \in T PROVE g[s] = h[s]
    <2>1. s # {} => g[Rest(s)] = h[Rest(s)]
      BY <1>1, RestIsSmaller
    <2>2. s \in SUBSET S
      OBVIOUS
    <2> QED BY <2>1, <2>2 DEF SumsOf
  <1>2. IsFiniteSet(R)
    BY FS_Subset
  <1>3. \A s \in SUBSET R : s \in T
    <2>1. \A s \in SUBSET R : (\A r \in SUBSET s : r # s => r \in T) => s \in T
      BY <1>1
    <2> HIDE DEF T
    <2> QED BY <1>2, <2>1, SmallerFirst
  <1> QED BY <1>3

\* The sums exist, so that the fold is one.
LEMMA SumsExist ==
    ASSUME NEW f, NEW S, IsFiniteSet(S) PROVE \E g : SumsOf(f, S, g)
  <1> DEFINE T == {s \in SUBSET S : \E g : SumsOf(f, s, g)}
             Sums(r) == CHOOSE g : SumsOf(f, r, g)
  <1>1. ASSUME NEW s \in SUBSET S, \A r \in SUBSET s : r # s => r \in T PROVE s \in T
    <2> DEFINE Total(r) == IF r = {} THEN 0 ELSE f[Element(r)] + Sums(Rest(r))[Rest(r)]
               g == [r \in SUBSET s |-> Total(r)]
    <2>1. ASSUME NEW r \in SUBSET s, r # s PROVE SumsOf(f, r, Sums(r))
      BY <1>1, <2>1
    <2>2. ASSUME NEW r \in SUBSET s, r # s PROVE Sums(r)[r] = Total(r)
      <3>1. CASE r = {}
        <4>1. SumsOf(f, {}, Sums({}))
          BY <2>1, <2>2, <3>1
        <4> HIDE DEF Sums
        <4>2. Sums({})[{}] = 0
          BY <4>1 DEF SumsOf
        <4> QED BY <3>1, <4>2
      <3>2. CASE r # {}
        <4>1. Element(r) \in r /\ Rest(r) \in SUBSET r /\ Rest(r) # r /\ Rest(r) # s
          BY <3>2, RestIsSmaller
        <4>2. SumsOf(f, r, Sums(r)) /\ SumsOf(f, Rest(r), Sums(Rest(r)))
          BY <2>1, <2>2, <4>1
        <4> HIDE DEF Sums
        <4>3. IsFiniteSet(r)
          BY FS_Subset
        <4>4. Sums(r)[Rest(r)] = Sums(Rest(r))[Rest(r)]
          BY <4>1, <4>2, <4>3, SumsAgree
        <4>5. Sums(r)[r] = f[Element(r)] + Sums(r)[Rest(r)]
          BY <3>2, <4>2 DEF SumsOf
        <4> QED BY <3>2, <4>4, <4>5
      <3> QED BY <3>1, <3>2
    <2> HIDE DEF Sums
    <2>3. ASSUME NEW r \in SUBSET s PROVE g[r] = IF r = {} THEN 0 ELSE f[Element(r)] + g[Rest(r)]
      <3>1. r # {} => Rest(r) \in SUBSET s /\ Rest(r) # s
        BY RestIsSmaller
      <3>2. r # {} => g[Rest(r)] = Sums(Rest(r))[Rest(r)]
        BY <2>2, <3>1
      <3> QED BY <3>2
    <2> HIDE DEF Total
    <2>4. SumsOf(f, s, g)
      BY <2>3 DEF SumsOf
    <2> QED BY <2>4
  <1>2. \A s \in SUBSET S : s \in T
    <2>1. \A s \in SUBSET S : (\A r \in SUBSET s : r # s => r \in T) => s \in T
      BY <1>1
    <2> HIDE DEF T
    <2> QED BY <2>1, SmallerFirst
  <1> QED BY <1>2

\* A sum is one on any smaller set too.
LEMMA SumsRestrict ==
    ASSUME NEW f, NEW S, NEW R \in SUBSET S, NEW g, SumsOf(f, S, g)
    PROVE  SumsOf(f, R, [s \in SUBSET R |-> g[s]])
  <1> DEFINE h == [s \in SUBSET R |-> g[s]]
  <1>1. ASSUME NEW s \in SUBSET R PROVE h[s] = IF s = {} THEN 0 ELSE f[Element(s)] + h[Rest(s)]
    <2>1. s \in SUBSET S /\ (s # {} => Rest(s) \in SUBSET R)
      BY RestIsSmaller
    <2> QED BY <2>1 DEF SumsOf
  <1> QED BY <1>1 DEF SumsOf

\* What a sum is: nothing, or that of all but one and the one.
LEMMA SumStep ==
    ASSUME NEW f, NEW S, IsFiniteSet(S)
    PROVE  SumFunctionOnSet(f, S) = IF S = {} THEN 0
                                    ELSE f[Element(S)] + SumFunctionOnSet(f, Rest(S))
  <1> DEFINE g == CHOOSE g : SumsOf(f, S, g)
  <1>1. SumsOf(f, S, g)
    BY SumsExist
  <1>2. SumFunctionOnSet(f, S) = g[S]
    BY SumIsFold
  <1> HIDE DEF g
  <1>3. CASE S = {}
    BY <1>1, <1>2, <1>3 DEF SumsOf
  <1>4. CASE S # {}
    <2> DEFINE R == Rest(S)
               h == CHOOSE h : SumsOf(f, R, h)
    <2>1. R \in SUBSET S /\ IsFiniteSet(R)
      BY <1>4, RestIsSmaller, FS_Subset
    <2>2. SumsOf(f, R, h)
      BY <2>1, SumsExist
    <2>3. SumFunctionOnSet(f, R) = h[R]
      BY SumIsFold
    <2> HIDE DEF h
    <2>4. g[R] = h[R]
      <3> HIDE DEF R
      <3> QED BY <1>1, <2>1, <2>2, SumsAgree
    <2>5. g[S] = f[Element(S)] + g[R]
      BY <1>1, <1>4 DEF SumsOf
    <2> QED BY <1>2, <1>4, <2>3, <2>4, <2>5
  <1> QED BY <1>3, <1>4

\* A sum of integers is an integer.
LEMMA SumInt ==
    ASSUME NEW f, NEW S, IsFiniteSet(S), \A x \in S : f[x] \in Int
    PROVE  \A s \in SUBSET S : SumFunctionOnSet(f, s) \in Int
  <1> DEFINE T == {s \in SUBSET S : SumFunctionOnSet(f, s) \in Int}
  <1>1. ASSUME NEW s \in SUBSET S, \A r \in SUBSET s : r # s => r \in T
        PROVE  SumFunctionOnSet(f, s) \in Int
    <2>1. IsFiniteSet(s)
      BY FS_Subset
    <2>2. CASE s = {}
      BY <2>1, <2>2, SumStep
    <2>3. CASE s # {}
      <3>1. Element(s) \in S /\ SumFunctionOnSet(f, Rest(s)) \in Int
        BY <1>1, <2>3, RestIsSmaller
      <3>2. SumFunctionOnSet(f, s) = f[Element(s)] + SumFunctionOnSet(f, Rest(s))
        BY <2>1, <2>3, SumStep
      <3> QED BY <3>1, <3>2
    <2> QED BY <2>2, <2>3
  <1>2. \A s \in SUBSET S : (\A r \in SUBSET s : r # s => r \in T) => s \in T
    BY <1>1
  <1>3. \A s \in SUBSET S : s \in T
    <2> HIDE DEF T
    <2> QED BY <1>2, SmallerFirst
  <1> QED BY <1>3

\* The order does not matter: any element may be the one.
LEMMA SumWithout ==
    ASSUME NEW f, NEW S, IsFiniteSet(S), \A x \in S : f[x] \in Int, NEW y \in S
    PROVE  SumFunctionOnSet(f, S) = f[y] + SumFunctionOnSet(f, S \ {y})
  <1> DEFINE Sum(s) == SumFunctionOnSet(f, s)
             T == {s \in SUBSET S : \A x \in s : Sum(s) = f[x] + Sum(s \ {x})}
  <1>0. \A s \in SUBSET S : Sum(s) \in Int /\ IsFiniteSet(s)
    BY SumInt, FS_Subset
  <1>1. \A s \in SUBSET S : s # {} => Sum(s) = f[Element(s)] + Sum(Rest(s))
    BY <1>0, SumStep
  <1> HIDE DEF Sum
  <1>2. ASSUME NEW s \in SUBSET S, \A r \in SUBSET s : r # s => r \in T, NEW x \in s
        PROVE  Sum(s) = f[x] + Sum(s \ {x})
    <2> DEFINE e == Element(s)
    <2>1. e \in s /\ Sum(s) = f[e] + Sum(s \ {e}) /\ f[e] \in Int /\ f[x] \in Int
      BY <1>1, RestIsSmaller DEF Rest
    <2> HIDE DEF e
    <2>2. CASE x = e
      BY <2>1, <2>2
    <2>3. CASE x # e
      <3>1. Sum(s \ {e}) = f[x] + Sum((s \ {e}) \ {x})
        BY <1>2, <2>1, <2>3
      <3>2. Sum(s \ {x}) = f[e] + Sum((s \ {x}) \ {e})
        BY <1>2, <2>1, <2>3
      <3>3. (s \ {e}) \ {x} = (s \ {x}) \ {e} /\ (s \ {x}) \ {e} \in SUBSET S
        OBVIOUS
      <3>4. Sum((s \ {x}) \ {e}) \in Int
        BY <1>0
      <3> DEFINE a == Sum((s \ {x}) \ {e})
      <3>5. Sum(s \ {e}) = f[x] + a /\ Sum(s \ {x}) = f[e] + a /\ a \in Int
        BY <3>1, <3>2, <3>3, <3>4
      <3> HIDE DEF a
      <3> QED BY <2>1, <3>5
    <2> QED BY <2>2, <2>3
  <1>3. \A s \in SUBSET S : (\A r \in SUBSET s : r # s => r \in T) => s \in T
    BY <1>2
  <1>4. \A s \in SUBSET S : s \in T
    <2> HIDE DEF T
    <2> QED BY <1>3, SmallerFirst
  <1> QED BY <1>4 DEF Sum

\* A sum is what its function is on the set.
LEMMA SumSame ==
    ASSUME NEW f, NEW g, NEW S, IsFiniteSet(S), \A x \in S : f[x] = g[x]
    PROVE  SumFunctionOnSet(f, S) = SumFunctionOnSet(g, S)
  <1> DEFINE T == {s \in SUBSET S : SumFunctionOnSet(f, s) = SumFunctionOnSet(g, s)}
  <1>1. ASSUME NEW s \in SUBSET S, \A r \in SUBSET s : r # s => r \in T
        PROVE  SumFunctionOnSet(f, s) = SumFunctionOnSet(g, s)
    <2>1. IsFiniteSet(s)
      BY FS_Subset
    <2>2. s # {} => /\ f[Element(s)] = g[Element(s)]
                    /\ SumFunctionOnSet(f, Rest(s)) = SumFunctionOnSet(g, Rest(s))
      BY <1>1, RestIsSmaller
    <2> QED BY <2>1, <2>2, SumStep
  <1>2. \A s \in SUBSET S : (\A r \in SUBSET s : r # s => r \in T) => s \in T
    BY <1>1
  <1>3. \A s \in SUBSET S : s \in T
    <2> HIDE DEF T
    <2> QED BY <1>2, SmallerFirst
  <1> QED BY <1>3

\* One more at x.
LEMMA SumOneMore ==
    ASSUME NEW f, NEW g, NEW S, IsFiniteSet(S), NEW x, NEW d \in Int,
           \A y \in S : f[y] \in Int /\ g[y] = f[y] + IF y = x THEN d ELSE 0
    PROVE  SumFunctionOnSet(g, S) = SumFunctionOnSet(f, S) + IF x \in S THEN d ELSE 0
  <1>1. CASE x \notin S
    <2>1. \A y \in S : f[y] = g[y]
      BY <1>1
    <2>2. SumFunctionOnSet(g, S) = SumFunctionOnSet(f, S) /\ SumFunctionOnSet(f, S) \in Int
      BY <2>1, SumSame, SumInt
    <2> QED BY <1>1, <2>2
  <1>2. CASE x \in S
    <2>1. /\ SumFunctionOnSet(f, S) = f[x] + SumFunctionOnSet(f, S \ {x})
          /\ SumFunctionOnSet(g, S) = g[x] + SumFunctionOnSet(g, S \ {x})
      BY <1>2, SumWithout
    <2>2. SumFunctionOnSet(f, S \ {x}) \in Int
      BY SumInt
    <2>3. SumFunctionOnSet(f, S \ {x}) = SumFunctionOnSet(g, S \ {x})
      <3>1. \A y \in S \ {x} : f[y] = g[y]
        OBVIOUS
      <3>2. IsFiniteSet(S \ {x})
        BY FS_Subset
      <3> QED BY <3>1, <3>2, SumSame
    <2> QED BY <1>2, <2>1, <2>2, <2>3
  <1> QED BY <1>1, <1>2

\* The same, of one thing counted.
LEMMA SumPlusOne ==
    ASSUME NEW f, NEW g, NEW S, IsFiniteSet(S), NEW x,
           \A y \in S : f[y] \in Int /\ g[y] = f[y] + IF y = x THEN 1 ELSE 0
    PROVE  SumFunctionOnSet(g, S) = SumFunctionOnSet(f, S) + IF x \in S THEN 1 ELSE 0
  <1>1. 1 \in Int
    OBVIOUS
  <1> DEFINE d == 1
  <1>2. d \in Int /\ \A y \in S : f[y] \in Int /\ g[y] = f[y] + IF y = x THEN d ELSE 0
    BY <1>1
  <1>3. d = 1
    OBVIOUS
  <1> HIDE DEF d
  <1>4. SumFunctionOnSet(g, S) = SumFunctionOnSet(f, S) + IF x \in S THEN d ELSE 0
    BY <1>2, SumOneMore
  <1> QED BY <1>3, <1>4

\* Of nothing but zeros.
LEMMA SumOfZeros ==
    ASSUME NEW f, NEW S, IsFiniteSet(S), \A x \in S : f[x] = 0
    PROVE  SumFunctionOnSet(f, S) = 0
  <1> DEFINE T == {s \in SUBSET S : SumFunctionOnSet(f, s) = 0}
  <1>1. ASSUME NEW s \in SUBSET S, \A r \in SUBSET s : r # s => r \in T
        PROVE  SumFunctionOnSet(f, s) = 0
    <2>1. IsFiniteSet(s)
      BY FS_Subset
    <2>2. s # {} => f[Element(s)] = 0 /\ SumFunctionOnSet(f, Rest(s)) = 0
      BY <1>1, RestIsSmaller
    <2> QED BY <2>1, <2>2, SumStep
  <1>2. \A s \in SUBSET S : (\A r \in SUBSET s : r # s => r \in T) => s \in T
    BY <1>1
  <1>3. \A s \in SUBSET S : s \in T
    <2> HIDE DEF T
    <2> QED BY <1>2, SmallerFirst
  <1> QED BY <1>3

\* The members of a set that have one of some kinds, and a function that counts those of
\* each kind.
InKinds(I, kind, K) == {i \in I : kind[i] \in K}
CountsKinds(f, I, kind) == \A k \in DOMAIN f : f[k] = Cardinality({i \in I : kind[i] = k})

\* Things counted by kinds are as many as they are.
LEMMA SumOfKinds ==
    ASSUME NEW I, IsFiniteSet(I), NEW kind, NEW f, IsFiniteSet(DOMAIN f),
           CountsKinds(f, I, kind)
    PROVE  SumFunction(f) = Cardinality(InKinds(I, kind, DOMAIN f))
  <1>0. PICK K : K = DOMAIN f
    OBVIOUS
  <1>1. IsFiniteSet(K) /\ \A k \in K : f[k] = Cardinality({i \in I : kind[i] = k})
    BY <1>0 DEF CountsKinds
  <1> DEFINE Of(J) == {i \in I : kind[i] \in J}
             T == {J \in SUBSET K : SumFunctionOnSet(f, J) = Cardinality(Of(J))}
  <1>2. {} \in T
    <2>1. Of({}) = {} /\ IsFiniteSet({})
      BY FS_EmptySet
    <2> QED BY <2>1, SumStep, FS_EmptySet
  <1>3. \A J : IsFiniteSet(Of(J)) /\ Cardinality(Of(J)) \in Nat
    BY FS_Subset, FS_CardinalityType
  <1>4. ASSUME NEW J \in SUBSET K, J \in T, NEW k \in K \ J PROVE J \cup {k} \in T
    <2> DEFINE L == J \cup {k}
    <2>1. IsFiniteSet(L) /\ \A x \in L : f[x] \in Int
      <3>1. ASSUME NEW x \in K PROVE f[x] \in Int
        <4>1. {i \in I : kind[i] = x} \in SUBSET I
          OBVIOUS
        <4>2. Cardinality({i \in I : kind[i] = x}) \in Nat
          BY <4>1, FS_Subset, FS_CardinalityType
        <4> QED BY <1>1, <4>2
      <3> QED BY <1>1, <3>1, FS_Subset
    <2>2. SumFunctionOnSet(f, L) = f[k] + SumFunctionOnSet(f, L \ {k})
      BY <2>1, SumWithout
    <2>3. L \ {k} = J
      BY <1>4
    <2>4. Cardinality(Of(L)) = Cardinality(Of(J)) + Cardinality(Of({k}))
      <3>1. Of(L) = Of(J) \cup Of({k}) /\ Of(J) \cap Of({k}) = {}
        BY <1>4
      <3> HIDE DEF Of
      <3>2. Cardinality(Of(J) \cup Of({k}))
              = Cardinality(Of(J)) + Cardinality(Of({k})) - Cardinality(Of(J) \cap Of({k}))
        BY <1>3, FS_Union
      <3>3. Cardinality(Of(J) \cap Of({k})) = 0
        BY <3>1, FS_EmptySet
      <3>4. Cardinality(Of(J)) \in Nat /\ Cardinality(Of({k})) \in Nat
        BY <1>3
      <3>5. Cardinality(Of(L)) = Cardinality(Of(J) \cup Of({k}))
        BY <3>1
      <3> QED BY <3>2, <3>3, <3>4, <3>5
    <2>5. Of({k}) = {i \in I : kind[i] = k}
      OBVIOUS
    <2>6. f[k] = Cardinality(Of({k}))
      BY <1>1, <2>5
    <2>7. SumFunctionOnSet(f, J) = Cardinality(Of(J))
      BY <1>4
    <2>8. SumFunctionOnSet(f, L) = f[k] + SumFunctionOnSet(f, J)
      BY <2>2, <2>3
    <2>9. L \in SUBSET K
      OBVIOUS
    <2> HIDE DEF Of, T, L
    <2>10. SumFunctionOnSet(f, L) = Cardinality(Of(L))
      BY <1>3, <2>4, <2>6, <2>7, <2>8
    <2> QED BY <2>9, <2>10 DEF T, L
  <1>5. \A J \in SUBSET K : J \in T
    <2>1. \A J \in SUBSET K : J \in T => \A k \in K \ J : J \cup {k} \in T
      BY <1>4
    <2> HIDE DEF T
    <2> QED BY <1>1, <1>2, <2>1, OneByOne
  <1> QED BY <1>0, <1>5 DEF SumFunction, InKinds

\* The places a filter takes, in their order.
RankIn(S, j) == Cardinality({i \in S : i <= j})
TakenAt(q, S, p) ==
    /\ p \in [1 .. Cardinality(S) -> S]
    /\ Filtered(q, S) = [k \in 1 .. Cardinality(S) |-> q[p[k]]]
    /\ \A j \in S : \E k \in 1 .. Cardinality(S) : p[k] = j
    /\ \A k, l \in 1 .. Cardinality(S) : k < l => p[k] < p[l]
    /\ \A k \in 1 .. Cardinality(S) : RankIn(S, p[k]) = k

\* The places taken are counted through in order.
LEMMA FilterPlaces ==
    ASSUME NEW n \in Nat, NEW S \in SUBSET (1 .. n), NEW q
    PROVE  \E p : TakenAt(q, S, p)
  <1> DEFINE m == Cardinality(S)
             PlaceOf(k) == CHOOSE j \in S : RankIn(S, j) = k
             p == [k \in 1 .. m |-> PlaceOf(k)]
  <1>0. IsFiniteSet(1 .. n) /\ S \subseteq Int
    BY FS_Interval
  <1>1. /\ m \in 0 .. n
        /\ \A j \in S : RankIn(S, j) \in 1 .. m
        /\ \A k \in 1 .. m : \E j \in S : RankIn(S, j) = k
        /\ \A j, l \in S : RankIn(S, j) = RankIn(S, l) => j = l
    BY RanksFill DEF RankIn
  <1>2. ASSUME NEW j \in S, NEW l \in S, j <= l PROVE RankIn(S, j) <= RankIn(S, l)
    <2> DEFINE low == {i \in S : i <= j}
               high == {i \in S : i <= l}
    <2>1. low \in SUBSET high
      <3>1. S \in SUBSET Nat
        OBVIOUS
      <3>2. \A i \in S : i <= j => i <= l
        BY <1>2, <3>1
      <3> QED BY <3>2
    <2>2. high \in SUBSET (1 .. n)
      OBVIOUS
    <2> HIDE DEF low, high
    <2>3. IsFiniteSet(high)
      BY <1>0, <2>2, FS_Subset
    <2>4. Cardinality(low) <= Cardinality(high)
      BY <2>1, <2>3, FS_Subset
    <2> QED BY <2>4 DEF low, high, RankIn
  <1>3. Filtered(q, S) = [k \in 1 .. m |-> q[PlaceOf(k)]]
    BY DEF Filtered, RankIn
  <1> HIDE DEF m
  <1>4. \A k \in 1 .. m : PlaceOf(k) \in S /\ RankIn(S, PlaceOf(k)) = k
    BY <1>1
  <1> HIDE DEF PlaceOf
  <1>5. p \in [1 .. m -> S] /\ Filtered(q, S) = [k \in 1 .. m |-> q[p[k]]]
    BY <1>3, <1>4
  <1>6. \A j \in S : \E k \in 1 .. m : p[k] = j
    BY <1>1, <1>4
  <1>7. ASSUME NEW k \in 1 .. m, NEW l \in 1 .. m, k < l PROVE p[k] < p[l]
    <2>1. p[k] \in S /\ p[l] \in S /\ RankIn(S, p[k]) = k /\ RankIn(S, p[l]) = l
      BY <1>4
    <2> HIDE DEF p
    <2>2. p[k] \in Int /\ p[l] \in Int
      BY <1>0, <2>1
    <2>3. p[l] <= p[k] => l <= k
      BY <1>2, <2>1
    <2> QED BY <1>7, <2>2, <2>3
  <1>8. \A k \in 1 .. m : RankIn(S, p[k]) = k
    BY <1>4
  <1> HIDE DEF p
  <1> QED BY <1>5, <1>6, <1>7, <1>8 DEF m, TakenAt

\* One place more, behind the others.
LEMMA FilterAppends ==
    ASSUME NEW n \in Nat, NEW S \in SUBSET (1 .. n), NEW q
    PROVE  /\ Cardinality(S) \in Nat
           /\ Cardinality(S \cup {n + 1}) = Cardinality(S) + 1
           /\ \A k \in 1 .. Cardinality(S) + 1 : Filtered(q, S \cup {n + 1})[k] =
                 IF k <= Cardinality(S) THEN Filtered(q, S)[k] ELSE q[n + 1]
  <1> DEFINE T == S \cup {n + 1}
             m == Cardinality(S)
  <1>0. IsFiniteSet(1 .. n)
    BY FS_Interval
  <1>1. IsFiniteSet(S)
    BY <1>0, FS_Subset
  <1>2. m \in Nat
    BY <1>1, FS_CardinalityType
  <1>3. n + 1 \notin S /\ T \in SUBSET (1 .. n + 1) /\ n + 1 \in Nat
    OBVIOUS
  <1>4. Cardinality(T) = m + 1
    BY <1>1, <1>3, FS_AddElement
  <1>5. PICK p : TakenAt(q, S, p)
    BY FilterPlaces
  <1>6. PICK r : TakenAt(q, T, r)
    <2> HIDE DEF T
    <2> QED BY <1>3, FilterPlaces
  <1>7. ASSUME NEW j \in S PROVE RankIn(T, j) = RankIn(S, j)
    <2>1. j \in 1 .. n /\ ~(n + 1 <= j)
      OBVIOUS
    <2>2. {i \in T : i <= j} = {i \in S : i <= j}
      BY <2>1
    <2> QED BY <2>2 DEF RankIn
  <1>8. RankIn(T, n + 1) = m + 1
    <2>1. \A i \in T : i <= n + 1
      BY <1>3
    <2>2. {i \in T : i <= n + 1} = T
      BY <2>1
    <2> QED BY <1>4, <2>2 DEF RankIn
  <1>9. \A j, l \in T : RankIn(T, j) = RankIn(T, l) => j = l
    <2> HIDE DEF T
    <2> QED BY <1>3, RanksFill DEF RankIn
  <1> HIDE DEF T, m
  <1>10. /\ r \in [1 .. m + 1 -> T] /\ Filtered(q, T) = [k \in 1 .. m + 1 |-> q[r[k]]]
         /\ \A k \in 1 .. m + 1 : RankIn(T, r[k]) = k
    BY <1>4, <1>6 DEF TakenAt
  <1>11. /\ p \in [1 .. m -> S] /\ Filtered(q, S) = [k \in 1 .. m |-> q[p[k]]]
         /\ \A k \in 1 .. m : RankIn(S, p[k]) = k
    BY <1>5 DEF TakenAt, m
  <1>12. S \subseteq T /\ n + 1 \in T
    BY DEF T
  <1>13. ASSUME NEW k \in 1 .. m PROVE Filtered(q, T)[k] = Filtered(q, S)[k]
    <2>1. k \in 1 .. m + 1
      BY <1>2
    <2>2. r[k] = p[k]
      BY <1>7, <1>9, <1>10, <1>11, <1>12, <2>1
    <2> QED BY <1>10, <1>11, <2>1, <2>2
  <1>14. Filtered(q, T)[m + 1] = q[n + 1]
    <2>1. m + 1 \in 1 .. m + 1
      BY <1>2
    <2>2. r[m + 1] = n + 1
      BY <1>8, <1>9, <1>10, <1>12, <2>1
    <2> QED BY <1>10, <2>1, <2>2
  <1>15. \A k \in 1 .. m + 1 : Filtered(q, T)[k] = IF k <= m THEN Filtered(q, S)[k] ELSE q[n + 1]
    <2>1. \A k \in 1 .. m + 1 : k \in 1 .. m \/ (k = m + 1 /\ ~(k <= m))
      BY <1>2
    <2> QED BY <1>13, <1>14, <2>1
  <1> QED BY <1>2, <1>4, <1>15 DEF T, m

-----------------------------------------------------------------------------
(* What the server reports of itself: the alerts, the histogram, the spans *)
(* and the batches.                                                        *)

\* The inductive invariant of the alerts: the time kept of a kind of finding is that of
\* the alert marked last, which is the latest of its kind.
Reports == [stage : {"timed", "fires", "withholds"}, key : FindingKeys, now : Nat]
Marks == [key : FindingKeys, at : Nat]
AlertTyped ==
    /\ alert_now \in Nat /\ last_alert_times \in [FindingKeys -> Int]
    /\ reporting \in [Reporters -> {Elsewhere} \cup Reports] /\ fired \in Seq(Marks)
LastMarked ==
    /\ \A i \in 1 .. Len(fired) : fired[i].at <= last_alert_times[fired[i].key]
    /\ \A k \in FindingKeys :
         \/ last_alert_times[k] = -cooldown_seconds
         \/ \E i \in 1 .. Len(fired) : fired[i].key = k /\ fired[i].at = last_alert_times[k]
AlertIInv == AlertTyped /\ LastMarked /\ OnePerCooldown

LEMMA AlertsStart == AlertInit => AlertIInv
  BY CooldownAssumption
     DEF AlertInit, AlertIInv, AlertTyped, LastMarked, OnePerCooldown, Elsewhere

\* A reporter that is not elsewhere holds the key and the time it read.
LEMMA ReportShape ==
    ASSUME AlertTyped, NEW r \in Reporters, reporting[r].stage # "elsewhere"
    PROVE  reporting[r] \in Reports /\ reporting[r].key \in FindingKeys /\ reporting[r].now \in Nat
  BY DEF AlertTyped, Elsewhere, Reports

\* A reporter that goes on to another stage keeps its key and its time.
LEMMA ToldShape ==
    ASSUME AlertTyped, NEW r \in Reporters, reporting[r].stage # "elsewhere",
           NEW stage \in {"fires", "withholds"}, Told(r, stage)
    PROVE  /\ reporting' \in [Reporters -> {Elsewhere} \cup Reports]
           /\ reporting'[r].stage = stage /\ reporting'[r].key = reporting[r].key
           /\ reporting'[r].now = reporting[r].now
           /\ \A q \in Reporters \ {r} : reporting'[q] = reporting[q]
  <1> DEFINE new == [reporting[r] EXCEPT !.stage = stage]
  <1>1. reporting[r] \in Reports
    BY ReportShape
  <1>2. new \in Reports /\ new.stage = stage /\ new.key = reporting[r].key
        /\ new.now = reporting[r].now
    BY <1>1 DEF Reports
  <1>3. reporting' = [reporting EXCEPT ![r] = new]
    BY DEF Told
  <1> HIDE DEF new
  <1> QED BY <1>2, <1>3 DEF AlertTyped

\* A report that is withheld is covered by the alert marked last of its kind.
LEMMA WithheldKeeps ==
    ASSUME AlertIInv, NEW r \in Reporters, reporting[r].stage = "timed",
           reporting[r].now - last_alert_times[reporting[r].key] < cooldown_seconds,
           Told(r, "withholds"), UNCHANGED <<last_alert_times, alert_now, fired>>
    PROVE  AlertIInv'
  <1> DEFINE k == reporting[r].key
             t == reporting[r].now
             c == cooldown_seconds
  <1>1. AlertTyped /\ LastMarked /\ OnePerCooldown
    BY DEF AlertIInv
  <1>2. k \in FindingKeys /\ t \in Nat /\ c \in Nat /\ c > 0 /\ last_alert_times[k] \in Int
    BY <1>1, ReportShape, CooldownAssumption DEF AlertTyped
  <1>3. /\ reporting' \in [Reporters -> {Elsewhere} \cup Reports]
        /\ reporting'[r].key = k /\ reporting'[r].now = t
        /\ \A q \in Reporters \ {r} : reporting'[q] = reporting[q]
    BY <1>1, ToldShape
  <1>4. t - last_alert_times[k] < c
    OBVIOUS
  <1> HIDE DEF k, t, c
  <1>5. last_alert_times[k] # -c
    BY <1>2, <1>4
  <1>6. PICK i \in 1 .. Len(fired) : fired[i].key = k /\ fired[i].at = last_alert_times[k]
    BY <1>1, <1>2, <1>5 DEF LastMarked, c
  <1>7. ASSUME NEW q \in Reporters, reporting'[q].stage = "withholds"
        PROVE  \E j \in 1 .. Len(fired) : /\ fired[j].key = reporting'[q].key
                                         /\ reporting'[q].now - fired[j].at < cooldown_seconds
    <2>1. CASE q = r
      BY <1>3, <1>4, <1>6, <2>1 DEF c
    <2>2. CASE q # r
      <3>1. reporting'[q] = reporting[q]
        BY <1>3, <2>2
      <3> QED BY <1>1, <1>7, <3>1 DEF OnePerCooldown, AlertTyped
    <2> QED BY <2>1, <2>2
  <1>8. fired \in Seq(Marks) /\ fired' = fired /\ DOMAIN fired = 1 .. Len(fired)
    BY <1>1 DEF AlertTyped
  <1>9. OnePerCooldown'
    BY <1>1, <1>7, <1>8 DEF OnePerCooldown
  <1>10. AlertTyped' /\ LastMarked'
    BY <1>1, <1>3 DEF AlertTyped, LastMarked
  <1> QED BY <1>9, <1>10 DEF AlertIInv

\* An alert that fires is a cooldown later than every other of its kind.
LEMMA FiredKeeps ==
    ASSUME AlertIInv, NEW r \in Reporters, reporting[r].stage = "timed",
           ~(reporting[r].now - last_alert_times[reporting[r].key] < cooldown_seconds),
           fire(r), UNCHANGED alert_now
    PROVE  AlertIInv'
  <1> DEFINE k == reporting[r].key
             t == reporting[r].now
             m == [key |-> k, at |-> t]
             n == Len(fired)
  <1>1. AlertTyped /\ LastMarked /\ OnePerCooldown
    BY DEF AlertIInv
  <1>2. /\ k \in FindingKeys /\ t \in Nat /\ last_alert_times[k] \in Int
        /\ cooldown_seconds \in Nat /\ cooldown_seconds > 0
    BY <1>1, ReportShape, CooldownAssumption DEF AlertTyped
  <1>3. /\ reporting' \in [Reporters -> {Elsewhere} \cup Reports]
        /\ reporting'[r].stage = "fires"
        /\ \A q \in Reporters \ {r} : reporting'[q] = reporting[q]
    BY <1>1, ToldShape DEF fire
  <1>4. fired' = Append(fired, m) /\ last_alert_times' = [last_alert_times EXCEPT ![k] = t]
    BY DEF fire
  <1>5. t - last_alert_times[k] >= cooldown_seconds
    BY <1>2
  <1>6. m \in Marks /\ m.key = k /\ m.at = t
    BY <1>2 DEF Marks
  <1> HIDE DEF k, t, m, n
  <1>7. fired \in Seq(Marks) /\ last_alert_times \in [FindingKeys -> Int] /\ alert_now \in Nat
    BY <1>1 DEF AlertTyped
  <1>8. /\ fired' \in Seq(Marks) /\ n \in Nat /\ Len(fired') = n + 1 /\ fired'[n + 1] = m
        /\ DOMAIN fired' = 1 .. n + 1 /\ DOMAIN fired = 1 .. n
        /\ \A i \in 1 .. n : fired'[i] = fired[i] /\ fired[i] \in Marks
    BY <1>4, <1>6, <1>7 DEF n
  <1>9. \A i \in 1 .. n : /\ fired[i].key \in FindingKeys /\ fired[i].at \in Nat
                          /\ fired[i].at <= last_alert_times[fired[i].key]
    <2>1. \A i \in 1 .. n : fired[i].at <= last_alert_times[fired[i].key]
      BY <1>1 DEF LastMarked, n
    <2> QED BY <1>8, <2>1 DEF Marks
  <1>10. AlertTyped'
    <2>1. last_alert_times' \in [FindingKeys -> Int]
      BY <1>2, <1>4, <1>7
    <2> QED BY <1>3, <1>7, <1>8, <2>1 DEF AlertTyped
  <1>11. LastMarked'
    <2>1. ASSUME NEW i \in 1 .. n + 1 PROVE fired'[i].at <= last_alert_times'[fired'[i].key]
      <3>1. CASE i = n + 1
        BY <1>2, <1>4, <1>6, <1>7, <1>8, <3>1
      <3>2. CASE i # n + 1
        <4>1. i \in 1 .. n /\ fired'[i] = fired[i]
          BY <1>8, <3>2
        <4>2. CASE fired[i].key = k
          BY <1>2, <1>4, <1>5, <1>7, <1>9, <4>1, <4>2
        <4>3. CASE fired[i].key # k
          BY <1>4, <1>7, <1>9, <4>1, <4>3
        <4> QED BY <4>2, <4>3
      <3> QED BY <3>1, <3>2
    <2>2. ASSUME NEW l \in FindingKeys
          PROVE  \/ last_alert_times'[l] = -cooldown_seconds
                 \/ \E i \in 1 .. n + 1 :
                      fired'[i].key = l /\ fired'[i].at = last_alert_times'[l]
      <3>1. CASE l = k
        BY <1>2, <1>4, <1>6, <1>7, <1>8, <3>1
      <3>2. CASE l # k
        <4>1. last_alert_times'[l] = last_alert_times[l]
          BY <1>4, <1>7, <3>2
        <4>2. \/ last_alert_times[l] = -cooldown_seconds
              \/ \E i \in 1 .. n : fired[i].key = l /\ fired[i].at = last_alert_times[l]
          BY <1>1 DEF LastMarked, n
        <4> QED BY <1>8, <4>1, <4>2
      <3> QED BY <3>1, <3>2
    <2> QED BY <1>8, <2>1, <2>2 DEF LastMarked
  <1>12. OnePerCooldown'
    <2>1. ASSUME NEW i \in 1 .. n + 1, NEW j \in 1 .. n + 1, i < j,
                 fired'[i].key = fired'[j].key
          PROVE  fired'[j].at - fired'[i].at >= cooldown_seconds
      <3>1. i \in 1 .. n /\ fired'[i] = fired[i]
        BY <1>8, <2>1
      <3>2. CASE j = n + 1
        <4>1. fired'[j].at = t /\ fired[i].key = k
          BY <1>6, <1>8, <2>1, <3>1, <3>2
        <4> QED BY <1>2, <1>5, <1>9, <3>1, <4>1
      <3>3. CASE j # n + 1
        <4>1. j \in 1 .. n /\ fired'[j] = fired[j]
          BY <1>8, <3>3
        <4> QED BY <1>1, <1>8, <2>1, <3>1, <4>1 DEF OnePerCooldown
      <3> QED BY <3>2, <3>3
    <2>2. ASSUME NEW q \in Reporters, reporting'[q].stage = "withholds"
          PROVE  \E i \in 1 .. n + 1 : /\ fired'[i].key = reporting'[q].key
                                       /\ reporting'[q].now - fired'[i].at < cooldown_seconds
      <3>1. reporting'[q] = reporting[q]
        BY <1>3, <2>2
      <3>2. PICK i \in 1 .. n : /\ fired[i].key = reporting[q].key
                               /\ reporting[q].now - fired[i].at < cooldown_seconds
        BY <1>1, <1>8, <2>2, <3>1 DEF OnePerCooldown
      <3> QED BY <1>8, <3>1, <3>2
    <2> QED BY <1>8, <2>1, <2>2 DEF OnePerCooldown
  <1> QED BY <1>10, <1>11, <1>12 DEF AlertIInv

\* Every report, fired or withheld, every end of one and every tick keeps it.
LEMMA AlertStepKeeps == AlertIInv /\ [AlertNext]_alertVars => AlertIInv'
  <1> SUFFICES ASSUME AlertIInv, [AlertNext]_alertVars PROVE AlertIInv'
    OBVIOUS
  <1>0. AlertTyped /\ LastMarked /\ OnePerCooldown
    BY DEF AlertIInv
  <1>1. ASSUME NEW r \in Reporters, NEW k \in FindingKeys, check_and_alert(r, k) PROVE AlertIInv'
    <2> DEFINE new == [stage |-> "timed", key |-> k, now |-> alert_now]
    <2>1. /\ reporting' = [reporting EXCEPT ![r] = new]
          /\ UNCHANGED <<last_alert_times, alert_now, fired>>
      BY <1>1 DEF check_and_alert
    <2>2. new \in Reports /\ new.stage = "timed"
      BY <1>0 DEF Reports, AlertTyped
    <2> HIDE DEF new
    <2>3. /\ reporting' \in [Reporters -> {Elsewhere} \cup Reports] /\ reporting'[r].stage = "timed"
          /\ \A q \in Reporters \ {r} : reporting'[q] = reporting[q]
      BY <1>0, <2>1, <2>2 DEF AlertTyped
    <2>4. OnePerCooldown'
      BY <1>0, <2>1, <2>3 DEF OnePerCooldown
    <2> QED BY <1>0, <2>1, <2>3, <2>4 DEF AlertIInv, AlertTyped, LastMarked
  <1>2. ASSUME NEW r \in Reporters, look_and_mark(r) PROVE AlertIInv'
    <2>1. reporting[r].stage = "timed" /\ UNCHANGED alert_now
      BY <1>2 DEF look_and_mark
    <2>2. CASE reporting[r].now - last_alert_times[reporting[r].key] < cooldown_seconds
      <3>1. Told(r, "withholds") /\ UNCHANGED <<last_alert_times, fired>>
        BY <1>2, <2>2 DEF look_and_mark
      <3> QED BY <2>1, <2>2, <3>1, WithheldKeeps
    <2>3. CASE ~(reporting[r].now - last_alert_times[reporting[r].key] < cooldown_seconds)
      <3>1. fire(r)
        BY <1>2, <2>3 DEF look_and_mark
      <3> QED BY <2>1, <2>3, <3>1, FiredKeeps
    <2> QED BY <2>2, <2>3
  <1>3. ASSUME NEW r \in Reporters, returns(r) PROVE AlertIInv'
    <2>1. /\ reporting' = [reporting EXCEPT ![r] = Elsewhere]
          /\ UNCHANGED <<last_alert_times, alert_now, fired>>
      BY <1>3 DEF returns
    <2>2. Elsewhere.stage # "withholds"
      BY DEF Elsewhere
    <2>3. /\ reporting' \in [Reporters -> {Elsewhere} \cup Reports] /\ reporting'[r] = Elsewhere
          /\ \A q \in Reporters \ {r} : reporting'[q] = reporting[q]
      BY <1>0, <2>1 DEF AlertTyped
    <2>4. OnePerCooldown'
      BY <1>0, <2>1, <2>2, <2>3 DEF OnePerCooldown
    <2> QED BY <1>0, <2>1, <2>3, <2>4 DEF AlertIInv, AlertTyped, LastMarked
  <1>4. ASSUME NEW t, _send_webhook(t) PROVE AlertIInv'
    BY <1>4 DEF _send_webhook, AlertIInv, AlertTyped, LastMarked, OnePerCooldown
  <1>5. CASE AlertTick
    BY <1>5 DEF AlertTick, AlertIInv, AlertTyped, LastMarked, OnePerCooldown
  <1>6. CASE UNCHANGED alertVars
    BY <1>6 DEF alertVars, AlertIInv, AlertTyped, LastMarked, OnePerCooldown
  <1> QED BY <1>1, <1>2, <1>3, <1>4, <1>5, <1>6 DEF AlertNext

\* The inductive invariant of the histogram: the count is the sum of all observations.
UpTo(i) == {d \in Buckets : d <= i}
HistogramIInv ==
    /\ duration_count \in Nat /\ duration_buckets \in [Buckets -> Nat]
    /\ observed \in [Buckets -> Nat]
    /\ \A i \in Buckets : duration_buckets[i] = SumFunctionOnSet(observed, UpTo(i))
    /\ duration_count = SumFunctionOnSet(observed, Buckets)

\* The largest bucket is reached by every observation.
LEMMA BucketsFinite ==
    /\ IsFiniteSet(Buckets) /\ Buckets \subseteq Nat
    /\ Max(Buckets) \in Buckets /\ UpTo(Max(Buckets)) = Buckets
    /\ \A i \in Buckets : IsFiniteSet(UpTo(i))
  <1> DEFINE n == Cardinality(Buckets)
  <1>1. IsFiniteSet(Buckets) /\ Buckets # {} /\ Buckets = 1 .. n
    BY BucketsAssumption
  <1>2. n \in Nat
    BY <1>1, FS_CardinalityType
  <1> HIDE DEF n
  <1>3. n \in Buckets /\ \A i \in Buckets : n >= i
    BY <1>1, <1>2
  <1>4. Max(Buckets) \in Buckets /\ \A i \in Buckets : Max(Buckets) >= i
    BY <1>3 DEF Max
  <1>5. Buckets \subseteq Nat
    BY <1>1, <1>2
  <1>6. UpTo(Max(Buckets)) = Buckets
    BY <1>4, <1>5 DEF UpTo
  <1>7. \A i \in Buckets : UpTo(i) \in SUBSET Buckets
    BY DEF UpTo
  <1> QED BY <1>1, <1>4, <1>5, <1>6, <1>7, FS_Subset

LEMMA HistogramStarts == HistogramInit => HistogramIInv
  <1> SUFFICES ASSUME HistogramInit PROVE HistogramIInv
    OBVIOUS
  <1>1. /\ duration_buckets = [i \in Buckets |-> 0] /\ duration_count = 0
        /\ observed = [d \in Buckets |-> 0]
    BY DEF HistogramInit
  <1>2. SumFunctionOnSet(observed, Buckets) = 0
    BY <1>1, BucketsFinite, SumOfZeros
  <1>3. ASSUME NEW i \in Buckets PROVE SumFunctionOnSet(observed, UpTo(i)) = 0
    <2>1. \A d \in UpTo(i) : observed[d] = 0
      BY <1>1 DEF UpTo
    <2> QED BY <2>1, BucketsFinite, SumOfZeros
  <1> QED BY <1>1, <1>2, <1>3 DEF HistogramIInv

\* An observation adds one to the count and to each bucket it reaches.
LEMMA HistogramStepKeeps == HistogramIInv /\ [HistogramNext]_histogramVars => HistogramIInv'
  <1> SUFFICES ASSUME HistogramIInv, [HistogramNext]_histogramVars PROVE HistogramIInv'
    OBVIOUS
  <1>0. /\ duration_count \in Nat /\ duration_buckets \in [Buckets -> Nat]
        /\ observed \in [Buckets -> Nat]
        /\ \A i \in Buckets : duration_buckets[i] = SumFunctionOnSet(observed, UpTo(i))
        /\ duration_count = SumFunctionOnSet(observed, Buckets)
    BY DEF HistogramIInv
  <1>1. ASSUME NEW d \in Buckets, observe_duration(d) PROVE HistogramIInv'
    <2>1. /\ duration_count' = duration_count + 1
          /\ duration_buckets' = [i \in Buckets |->
                duration_buckets[i] + (IF i \in Reached(d) THEN 1 ELSE 0)]
          /\ observed' = [observed EXCEPT ![d] = @ + 1]
      BY <1>1 DEF observe_duration
    <2>2. /\ observed' \in [Buckets -> Nat]
          /\ \A x \in Buckets :
               observed[x] \in Int /\ observed'[x] = observed[x] + IF x = d THEN 1 ELSE 0
      BY <1>0, <2>1
    <2>3. SumFunctionOnSet(observed', Buckets) = SumFunctionOnSet(observed, Buckets) + 1
      BY <2>2, BucketsFinite, SumPlusOne
    <2>4. ASSUME NEW i \in Buckets
          PROVE  duration_buckets'[i] = SumFunctionOnSet(observed', UpTo(i))
      <3>1. \A x \in UpTo(i) : x \in Buckets
        BY DEF UpTo
      <3>2. SumFunctionOnSet(observed', UpTo(i))
              = SumFunctionOnSet(observed, UpTo(i)) + IF d \in UpTo(i) THEN 1 ELSE 0
        <4>1. \A x \in UpTo(i) :
                observed[x] \in Int /\ observed'[x] = observed[x] + IF x = d THEN 1 ELSE 0
          BY <2>2, <3>1
        <4> QED BY <4>1, BucketsFinite, SumPlusOne
      <3>3. d \in UpTo(i) <=> i \in Reached(d)
        BY DEF UpTo, Reached
      <3> QED BY <1>0, <2>1, <3>2, <3>3
    <2>5. duration_buckets' \in [Buckets -> Nat] /\ duration_count' \in Nat
      BY <1>0, <2>1
    <2> QED BY <1>0, <2>1, <2>2, <2>3, <2>4, <2>5 DEF HistogramIInv
  <1>2. CASE UNCHANGED histogramVars
    BY <1>0, <1>2 DEF histogramVars, HistogramIInv
  <1> QED BY <1>1, <1>2 DEF HistogramNext

\* What /metrics prints follows from it.
LEMMA BucketsAddUp == HistogramIInv => BucketsCumulative
  BY BucketsFinite DEF HistogramIInv, BucketsCumulative, UpTo

\* The inductive invariant of the spans: those retained are the newest in a row.
TraceIds == Nat \cup {h.trace : h \in Traceparents}
ParentIds == Nat \cup {NoParent} \cup {h.parent : h \in Traceparents}
SpanRecords == [trace : TraceIds, parent : ParentIds, status : {"OK", "ERROR"}, ended : BOOLEAN]
KeptSpans == IF Len(spans) - cleared <= max_spans THEN Len(spans) - cleared ELSE max_spans
TracingIInv ==
    /\ spans \in Seq(SpanRecords) /\ retained \in Seq(Nat) /\ cleared \in 0 .. Len(spans)
    /\ Len(retained) = KeptSpans
    /\ \A k \in 1 .. KeptSpans : retained[k] = Len(spans) - KeptSpans + k

\* Some of the spans are kept, and at most all.
LEMMA KeptRange ==
    ASSUME TracingIInv
    PROVE  /\ Len(spans) \in Nat /\ max_spans \in Nat \ {0}
           /\ KeptSpans \in Nat /\ KeptSpans <= Len(spans)
  <1>1. cleared \in 0 .. Len(spans) /\ Len(spans) \in Nat /\ max_spans \in Nat \ {0}
    BY SpanBoundsAssumption DEF TracingIInv
  <1> QED BY <1>1 DEF KeptSpans

LEMMA TracingStarts == TracingInit => TracingIInv
  BY SpanBoundsAssumption DEF TracingInit, TracingIInv, KeptSpans

\* Starting, ending and clearing spans keep it.
LEMMA TracingStepKeeps == TracingIInv /\ [TracingNext]_tracingVars => TracingIInv'
  <1> SUFFICES ASSUME TracingIInv, [TracingNext]_tracingVars PROVE TracingIInv'
    OBVIOUS
  <1> DEFINE n == Len(spans) + 1
  <1>0. /\ spans \in Seq(SpanRecords) /\ retained \in Seq(Nat) /\ cleared \in 0 .. Len(spans)
        /\ Len(spans) \in Nat /\ max_spans \in Nat \ {0}
        /\ KeptSpans \in Nat /\ KeptSpans <= Len(spans) /\ Len(retained) = KeptSpans
        /\ \A k \in 1 .. KeptSpans : retained[k] = Len(spans) - KeptSpans + k
    BY KeptRange DEF TracingIInv
  <1>1. ASSUME NEW h \in Traceparents \cup {create_traceparent(m) : m \in DOMAIN spans},
               start_span(h)
        PROVE  TracingIInv'
    <2> DEFINE s == Joined(h, n)
    <2>1. spans' = Append(spans, s) /\ cleared' = cleared
      BY <1>1 DEF start_span
    <2>4. s \in SpanRecords
      <3>1. CASE h \in Traceparents
        BY <1>0, <3>1 DEF Joined, Span, SpanRecords, TraceIds, ParentIds
      <3>2. CASE h \notin Traceparents
        <4>1. PICK m \in 1 .. Len(spans) : h = create_traceparent(m)
          BY <1>0, <1>1, <3>2
        <4>2. s = Span(spans[m].trace, m)
          BY <4>1 DEF create_traceparent, Joined
        <4>3. s = [trace |-> spans[m].trace, parent |-> m, status |-> "OK", ended |-> FALSE]
          BY <4>2 DEF Span
        <4> HIDE DEF s
        <4>4. spans[m].trace \in TraceIds
          <5>1. spans[m] \in SpanRecords
            BY <1>0
          <5> QED BY <5>1 DEF SpanRecords
        <4>5. m \in ParentIds
          BY <1>0 DEF ParentIds
        <4> QED BY <4>3, <4>4, <4>5 DEF SpanRecords
      <3> QED BY <3>1, <3>2
    <2> HIDE DEF s
    <2>5. /\ spans' \in Seq(SpanRecords) /\ Len(spans') = Len(spans) + 1
          /\ \A i \in 1 .. Len(spans) : spans'[i] = spans[i]
          /\ spans'[Len(spans) + 1] = s
      BY <1>0, <2>1, <2>4
    <2>7. /\ retained' \in Seq(Nat) /\ Len(retained') = KeptSpans' /\ cleared' \in 0 .. Len(spans')
          /\ \A k \in 1 .. KeptSpans' : retained'[k] = Len(spans') - KeptSpans' + k
      <3> DEFINE q == Append(retained, n)
      <3>1. /\ q \in Seq(Nat) /\ Len(q) = KeptSpans + 1
            /\ \A k \in 1 .. KeptSpans : q[k] = Len(spans) - KeptSpans + k
            /\ q[KeptSpans + 1] = Len(spans) + 1
        BY <1>0
      <3>2. retained' = IF Len(q) <= max_spans THEN q ELSE Tail(q)
        BY <1>1 DEF start_span, Retained
      <3> HIDE DEF q
      <3>3. cleared' \in 0 .. Len(spans')
        BY <1>0, <2>1, <2>5
      <3>4. CASE KeptSpans + 1 <= max_spans
        <4>1. KeptSpans' = KeptSpans + 1 /\ retained' = q
          BY <1>0, <2>1, <2>5, <3>1, <3>2, <3>4 DEF KeptSpans
        <4>2. ASSUME NEW k \in 1 .. KeptSpans' PROVE retained'[k] = Len(spans') - KeptSpans' + k
          <5>1. k \in 1 .. KeptSpans \/ k = KeptSpans + 1
            BY <1>0, <4>1
          <5> QED BY <1>0, <2>5, <3>1, <4>1, <5>1
        <4> QED BY <3>1, <3>3, <4>1, <4>2
      <3>5. CASE ~(KeptSpans + 1 <= max_spans)
        <4>1. KeptSpans = max_spans /\ KeptSpans' = KeptSpans /\ KeptSpans > 0
          <5> DEFINE l == Len(spans)
                     k == Len(spans')
          <5>1. l \in Nat /\ cleared \in 0 .. l /\ cleared' = cleared /\ k = l + 1
                /\ max_spans \in Nat \ {0}
            BY <1>0, <2>1, <2>5
          <5>2. KeptSpans = IF l - cleared <= max_spans THEN l - cleared ELSE max_spans
            BY DEF KeptSpans
          <5>3. KeptSpans' = IF k - cleared' <= max_spans THEN k - cleared' ELSE max_spans
            BY DEF KeptSpans
          <5> HIDE DEF l, k
          <5> QED BY <3>5, <5>1, <5>2, <5>3
        <4>2. retained' = Tail(q)
          BY <3>1, <3>2, <3>5
        <4>3. /\ retained' \in Seq(Nat) /\ Len(retained') = KeptSpans
              /\ \A k \in 1 .. KeptSpans : retained'[k] = q[k + 1]
          BY <1>0, <3>1, <4>1, <4>2
        <4>4. ASSUME NEW k \in 1 .. KeptSpans PROVE q[k + 1] = Len(spans) + 1 - KeptSpans + k
          <5>1. CASE k + 1 \in 1 .. KeptSpans
            <6>1. q[k + 1] = Len(spans) - KeptSpans + (k + 1)
              BY <3>1, <5>1
            <6> QED BY <1>0, <6>1
          <5>2. CASE k = KeptSpans
            BY <1>0, <3>1, <5>2
          <5> QED BY <1>0, <5>1, <5>2
        <4>5. /\ retained' \in Seq(Nat) /\ Len(retained') = KeptSpans'
              /\ cleared' \in 0 .. Len(spans')
          BY <2>5, <3>3, <4>1, <4>3
        <4>6. \A k \in 1 .. KeptSpans : retained'[k] = Len(spans) + 1 - KeptSpans + k
          BY <4>3, <4>4
        <4>7. KeptSpans' = KeptSpans /\ Len(spans') = Len(spans) + 1
          BY <2>5, <3>3, <4>1
        <4> QED BY <4>5, <4>6, <4>7
      <3> QED BY <3>4, <3>5
    <2> QED BY <2>5, <2>7 DEF TracingIInv
  <1>2. ASSUME NEW m \in DOMAIN spans, NEW status \in {"OK", "ERROR"}, end_span(m, status)
        PROVE  TracingIInv'
    <2>1. /\ spans' = [spans EXCEPT ![m].ended = TRUE, ![m].status = status]
          /\ retained' = retained /\ cleared' = cleared
      BY <1>2 DEF end_span
    <2>2. /\ spans' \in Seq(SpanRecords) /\ Len(spans') = Len(spans)
      <3> DEFINE s == [[spans[m] EXCEPT !.ended = TRUE] EXCEPT !.status = status]
      <3>1. m \in 1 .. Len(spans) /\ spans[m] \in SpanRecords
        BY <1>0
      <3>2. s \in SpanRecords
        BY <3>1 DEF SpanRecords
      <3>3. spans' = [spans EXCEPT ![m] = s]
        BY <1>0, <2>1
      <3> HIDE DEF s
      <3> QED BY <1>0, <3>1, <3>2, <3>3
    <2>4. KeptSpans' = KeptSpans
      BY <2>1, <2>2 DEF KeptSpans
    <2> QED BY <1>0, <2>1, <2>2, <2>4 DEF TracingIInv
  <1>3. CASE clear
    <2>1. retained' = << >> /\ cleared' = Len(spans) /\ spans' = spans
      BY <1>3 DEF clear
    <2>2. KeptSpans' = 0
      BY <1>0, <2>1 DEF KeptSpans
    <2> QED BY <1>0, <2>1, <2>2 DEF TracingIInv
  <1>4. CASE UNCHANGED tracingVars
    BY <1>4 DEF tracingVars, TracingIInv, KeptSpans
  <1> QED BY <1>1, <1>2, <1>3, <1>4 DEF TracingNext

\* What get_completed_spans() returns follows from it.
LEMMA SpansHold == TracingIInv => SpansExact
  <1> SUFFICES ASSUME TracingIInv PROVE SpansExact
    OBVIOUS
  <1>0. /\ spans \in Seq(SpanRecords) /\ retained \in Seq(Nat) /\ cleared \in 0 .. Len(spans)
        /\ Len(spans) \in Nat /\ max_spans \in Nat \ {0}
        /\ KeptSpans \in Nat /\ Len(retained) = KeptSpans /\ KeptSpans <= Len(spans)
        /\ \A k \in 1 .. KeptSpans : retained[k] = Len(spans) - KeptSpans + k
    BY KeptRange DEF TracingIInv
  <1> DEFINE newest == {n \in DOMAIN spans : n > cleared /\ n > Len(spans) - max_spans}
             ends == {i \in DOMAIN retained : spans[retained[i]].ended}
             q == get_completed_spans
             c == Cardinality(ends)
  <1>1. ends \in SUBSET (1 .. KeptSpans)
    BY <1>0
  <1>2. PICK p : TakenAt(retained, ends, p)
    <2> HIDE DEF ends
    <2> QED BY <1>0, <1>1, FilterPlaces
  <1>3. /\ p \in [1 .. c -> ends] /\ q = [k \in 1 .. c |-> retained[p[k]]]
        /\ \A j \in ends : \E k \in 1 .. c : p[k] = j
        /\ \A k, l \in 1 .. c : k < l => p[k] < p[l]
    BY <1>2 DEF TakenAt, get_completed_spans
  <1>4. \A m : m \in newest <=> m \in 1 .. Len(spans) /\ m > Len(spans) - KeptSpans
    BY <1>0 DEF KeptSpans
  <1>5. \A i \in ends : i \in 1 .. KeptSpans /\ retained[i] = Len(spans) - KeptSpans + i
                        /\ spans[retained[i]].ended
    BY <1>0
  <1>6. \A m \in newest : spans[m].ended => \E i \in ends : retained[i] = m
    <2> SUFFICES ASSUME NEW m \in newest, spans[m].ended PROVE \E i \in ends : retained[i] = m
      OBVIOUS
    <2> DEFINE i == m - (Len(spans) - KeptSpans)
    <2>1. i \in 1 .. KeptSpans /\ retained[i] = m
      BY <1>0, <1>4
    <2> QED BY <1>0, <2>1
  <1>7. ASSUME NEW i \in ends PROVE retained[i] \in newest
    <2>1. i \in 1 .. KeptSpans /\ retained[i] = Len(spans) - KeptSpans + i
      BY <1>5
    <2>2. retained[i] \in 1 .. Len(spans) /\ retained[i] > Len(spans) - KeptSpans
      BY <1>0, <2>1
    <2> QED BY <1>4, <2>2
  <1> HIDE DEF newest, ends, q, c
  <1>8. DOMAIN q = 1 .. c /\ \A k \in 1 .. c : p[k] \in ends /\ q[k] = retained[p[k]]
    BY <1>3
  <1>9. ToSet(q) = {m \in newest : spans[m].ended}
    <2>1. \A m \in newest : spans[m].ended => \E k \in DOMAIN q : q[k] = m
      BY <1>3, <1>6, <1>8
    <2>2. \A k \in DOMAIN q : q[k] \in newest /\ spans[q[k]].ended
      BY <1>5, <1>7, <1>8
    <2> QED BY <2>1, <2>2 DEF ToSet
  <1>10. \A i, j \in DOMAIN q : i < j => q[i] < q[j]
    <2> SUFFICES ASSUME NEW i \in 1 .. c, NEW j \in 1 .. c, i < j PROVE q[i] < q[j]
      BY <1>8
    <2>1. p[i] < p[j] /\ p[i] \in 1 .. KeptSpans /\ p[j] \in 1 .. KeptSpans
      BY <1>3, <1>5, <1>8
    <2>2. q[i] = Len(spans) - KeptSpans + p[i] /\ q[j] = Len(spans) - KeptSpans + p[j]
      BY <1>5, <1>8
    <2> QED BY <1>0, <2>1, <2>2
  <1> QED BY <1>9, <1>10 DEF SpansExact, newest, q

\* The inductive invariant of the batches: of what came, the first so many have been
\* walked, and what they yield is parsed.
Walked(q, r) == Len(q) - Len(r)
Objects(q) == {i \in DOMAIN q : q[i] # NotAnObject}
Wanted(q, k) == {i \in 1 .. k : q[i] # NotAnObject /\ Yields(q[i])}
WellTo(q, k) == \A i \in 1 .. k : q[i] # NotAnObject => WellFormed(q[i])
ParsedFrom(p, q, k) ==
    /\ WellTo(q, k) /\ Len(p) = Cardinality(Wanted(q, k))
    /\ \A i \in 1 .. Len(p) : p[i] = Result(Filtered(q, Wanted(q, k))[i])
RpcIInv ==
    /\ received \in Seq(Messages \cup {NotAnObject}) /\ raw \in Seq(Messages \cup {NotAnObject})
    /\ Walked(received, raw) \in Nat
    /\ \A i \in 1 .. Len(raw) : raw[i] = received[Walked(received, raw) + i]
    /\ parsed \in Seq({Result(m) : m \in Messages})
    /\ outcome = "idle" => received = << >> /\ raw = << >> /\ parsed = << >>
    /\ outcome = "returned" => raw = << >>
    /\ outcome \in {"parsing", "returned"} =>
         ParsedFrom(parsed, received, Walked(received, raw))
    /\ outcome \in {InvalidRequest, InvalidParams} /\ received # << >> =>
         \E i \in Objects(received) : ~WellFormed(received[i])

\* The places up to n + 1.
LEMMA OneMorePlace ==
    ASSUME NEW n \in Nat
    PROVE  /\ \A i \in 1 .. n + 1 : i \in 1 .. n \/ i = n + 1
           /\ 1 .. n \subseteq 1 .. n + 1 /\ n + 1 \in 1 .. n + 1 /\ n + 1 \notin 1 .. n
  OBVIOUS

\* A message is well formed exactly when nothing raises for it.
LEMMA ErrorsFound == \A m : WellFormed(m) <=> ErrorOf(m) = "none"
  BY DEF WellFormed, ErrorOf, InvalidRequest, InvalidParams

\* Of no message, none is wanted.
LEMMA WantedNone ==
    \A q : Wanted(q, 0) = {} /\ Cardinality(Wanted(q, 0)) = 0 /\ WellTo(q, 0)
  BY FS_EmptySet DEF Wanted, WellTo

LEMMA RpcStarts == RpcInit => RpcIInv
  BY DEF RpcInit, RpcIInv, Walked, InvalidRequest, InvalidParams

\* Each message parsed, each one that raises, and each result keeps it.
LEMMA RpcStepKeeps == RpcIInv /\ [RpcNext]_rpcVars => RpcIInv'
  <1> SUFFICES ASSUME RpcIInv, [RpcNext]_rpcVars PROVE RpcIInv'
    OBVIOUS
  <1> DEFINE Entries == Messages \cup {NotAnObject}
             n == Walked(received, raw)
  <1>0. /\ received \in Seq(Entries) /\ raw \in Seq(Entries)
        /\ Len(received) \in Nat /\ Len(raw) \in Nat /\ n = Len(received) - Len(raw)
        /\ n \in Nat /\ \A i \in 1 .. Len(raw) : raw[i] = received[n + i]
        /\ parsed \in Seq({Result(m) : m \in Messages})
    BY DEF RpcIInv, Walked
  <1>1. ASSUME NEW l \in 0 .. MaxBatch, NEW batch \in [1 .. l -> Entries], parse_message(batch)
        PROVE  RpcIInv'
    <2>1. /\ received' = batch /\ raw' = batch /\ outcome' = "parsing" /\ parsed' = << >>
      BY <1>1 DEF parse_message, RpcIInv
    <2>2. batch \in Seq(Entries) /\ Len(batch) \in Nat
      OBVIOUS
    <2>3. Walked(received', raw') = 0
      BY <2>1, <2>2 DEF Walked
    <2>4. ParsedFrom(parsed', batch, 0)
      BY <2>1, WantedNone DEF ParsedFrom
    <2>5. << >> \in Seq({Result(m) : m \in Messages})
      OBVIOUS
    <2>6. \A i \in 1 .. Len(batch) : i = 0 + i
      BY <2>2
    <2>7. \A i \in 1 .. Len(raw') : raw'[i] = received'[Walked(received', raw') + i]
      BY <2>1, <2>3, <2>6
    <2>8. Walked(received', raw') \in Nat
      BY <2>3
    <2>9. ParsedFrom(parsed', received', Walked(received', raw'))
      BY <2>1, <2>3, <2>4
    <2> QED BY <2>1, <2>2, <2>5, <2>7, <2>8, <2>9 DEF RpcIInv, InvalidRequest, InvalidParams
  <1>2. CASE parse_nothing
    BY <1>0, <1>2
       DEF parse_nothing, RpcIInv, Walked, InvalidRequest, InvalidParams, ParseError
  <1>3. CASE parse_empty
    BY <1>0, <1>3
       DEF parse_empty, RpcIInv, Walked, InvalidRequest, InvalidParams, ParseError
  <1>4. CASE _parse_single
    <2> DEFINE m == Head(raw)
    <2>1. /\ outcome = "parsing" /\ raw # << >> /\ raw' = Tail(raw) /\ received' = received
      BY <1>4 DEF _parse_single
    <2>2. /\ m \in Entries /\ m = received[n + 1] /\ n + 1 \in 1 .. Len(received)
          /\ raw' \in Seq(Entries) /\ Len(raw') = Len(raw) - 1
          /\ \A i \in 1 .. Len(raw') : raw'[i] = raw[i + 1] /\ i + 1 \in 1 .. Len(raw)
      BY <1>0, <2>1
    <2>3. Walked(received', raw') = n + 1
      BY <1>0, <2>1, <2>2 DEF Walked
    <2>4. \A i \in 1 .. Len(raw') : raw'[i] = received[n + 1 + i]
      <3> SUFFICES ASSUME NEW i \in 1 .. Len(raw') PROVE raw'[i] = received[n + 1 + i]
        OBVIOUS
      <3>1. raw'[i] = received[n + (i + 1)]
        BY <1>0, <2>2
      <3>2. n + (i + 1) = n + 1 + i
        BY <1>0
      <3> QED BY <3>1, <3>2
    <2>5. ParsedFrom(parsed, received, n)
      BY <2>1 DEF RpcIInv
    <2>6. /\ \A i \in 1 .. n + 1 : i \in 1 .. n \/ i = n + 1
          /\ 1 .. n \subseteq 1 .. n + 1 /\ n + 1 \in 1 .. n + 1 /\ n + 1 \notin 1 .. n
      BY <1>0, OneMorePlace
    <2> HIDE DEF n, m
    <2>8. ASSUME m = NotAnObject \/ ErrorOf(m) = "none" PROVE WellTo(received, n + 1)
      BY <2>2, <2>5, <2>6, <2>8, ErrorsFound DEF WellTo, ParsedFrom
    <2>9. Wanted(received, n + 1) = IF m # NotAnObject /\ Yields(m)
                                    THEN Wanted(received, n) \cup {n + 1} ELSE Wanted(received, n)
      BY <2>2, <2>6 DEF Wanted
    <2>10. ASSUME ParsedFrom(parsed', received, n + 1), outcome' = "parsing",
                  parsed' \in Seq({Result(x) : x \in Messages})
           PROVE  RpcIInv'
      <3>1. Walked(received', raw') \in Nat
        BY <1>0, <2>3
      <3>2. ParsedFrom(parsed', received', Walked(received', raw'))
        BY <2>1, <2>3, <2>10
      <3> QED BY <1>0, <2>1, <2>2, <2>3, <2>4, <2>10, <3>1, <3>2
              DEF RpcIInv, InvalidRequest, InvalidParams
    <2>11. CASE /\ m = NotAnObject \/ (ErrorOf(m) = "none" /\ ~Yields(m))
                /\ parsed' = parsed /\ outcome' = outcome
      <3>1. ParsedFrom(parsed', received, n + 1)
        BY <2>1, <2>5, <2>8, <2>9, <2>11 DEF ParsedFrom
      <3> QED BY <1>0, <2>1, <2>10, <2>11, <3>1
    <2>12. CASE m # NotAnObject /\ ErrorOf(m) # "none" /\ outcome' = ErrorOf(m) /\ parsed' = parsed
      <3>1. outcome' \in {InvalidRequest, InvalidParams}
        BY <2>12 DEF ErrorOf
      <3>2. ~WellFormed(received[n + 1]) /\ n + 1 \in Objects(received)
        BY <1>0, <2>2, <2>12, ErrorsFound DEF Objects
      <3>3. Walked(received', raw') \in Nat
        BY <1>0, <2>3
      <3> QED BY <1>0, <2>1, <2>2, <2>3, <2>4, <2>12, <3>1, <3>2, <3>3
              DEF RpcIInv, InvalidRequest, InvalidParams
    <2>13. CASE /\ m # NotAnObject /\ ErrorOf(m) = "none" /\ outcome' = outcome
                /\ Yields(m) /\ parsed' = Append(parsed, Result(m))
      <3> DEFINE S == Wanted(received, n)
      <3>0. S \in SUBSET (1 .. n)
        BY DEF Wanted
      <3>1. /\ Cardinality(S) \in Nat /\ Cardinality(S \cup {n + 1}) = Cardinality(S) + 1
            /\ \A k \in 1 .. Cardinality(S) + 1 : Filtered(received, S \cup {n + 1})[k] =
                  IF k <= Cardinality(S) THEN Filtered(received, S)[k] ELSE received[n + 1]
        <4>1. n \in Nat
          BY <1>0
        <4> HIDE DEF S, n, Entries
        <4> QED BY <3>0, <4>1, FilterAppends
      <3>2. Wanted(received, n + 1) = S \cup {n + 1} /\ WellTo(received, n + 1)
        BY <2>8, <2>9, <2>13
      <3>3. m \in Messages /\ Len(parsed) \in Nat
        BY <1>0, <2>2, <2>13
      <3>4. /\ parsed' \in Seq({Result(x) : x \in Messages}) /\ Len(parsed') = Len(parsed) + 1
            /\ \A k \in 1 .. Len(parsed) : parsed'[k] = parsed[k]
            /\ parsed'[Len(parsed) + 1] = Result(m)
        BY <1>0, <2>13, <3>3
      <3>5. /\ Len(parsed) = Cardinality(S)
            /\ \A k \in 1 .. Len(parsed) : parsed[k] = Result(Filtered(received, S)[k])
        BY <2>5 DEF ParsedFrom
      <3> DEFINE T == S \cup {n + 1}
                 l == Len(parsed)
      <3>6. ASSUME NEW k \in 1 .. Len(parsed') PROVE parsed'[k] = Result(Filtered(received, T)[k])
        <4> HIDE DEF S, l
        <4>1. k \in 1 .. l + 1 /\ l \in Nat
          BY <3>3, <3>4 DEF l
        <4>0. l = Cardinality(S)
          BY <3>5 DEF l
        <4>2. CASE k \in 1 .. l
          <5>0. k \in 1 .. Cardinality(S) + 1 /\ k <= Cardinality(S)
            BY <4>0, <4>1, <4>2
          <5>1. Filtered(received, T)[k] = Filtered(received, S)[k]
            BY <3>1, <5>0
          <5>2. parsed'[k] = parsed[k] /\ parsed[k] = Result(Filtered(received, S)[k])
            BY <3>4, <3>5, <4>2 DEF l
          <5> QED BY <5>1, <5>2
        <4>3. CASE k = l + 1
          <5>0. k \in 1 .. Cardinality(S) + 1 /\ ~(k <= Cardinality(S))
            BY <4>0, <4>1, <4>3
          <5>1. Filtered(received, T)[k] = m
            BY <2>2, <3>1, <5>0
          <5> QED BY <3>4, <4>3, <5>1 DEF l
        <4> QED BY <4>1, <4>2, <4>3
      <3> HIDE DEF S
      <3>7. ParsedFrom(parsed', received, n + 1)
        BY <2>1, <3>1, <3>2, <3>4, <3>5, <3>6 DEF ParsedFrom
      <3> QED BY <2>1, <2>10, <2>13, <3>4, <3>7
    <2> QED BY <1>4, <2>11, <2>12, <2>13 DEF _parse_single, m
  <1>5. CASE parse_returns
    <2>1. /\ UNCHANGED <<raw, parsed, received>> /\ outcome = "parsing" /\ outcome' = "returned"
          /\ raw = << >>
      BY <1>5 DEF parse_returns
    <2>2. ParsedFrom(parsed', received', Walked(received', raw')) /\ Walked(received', raw') \in Nat
      BY <1>0, <2>1 DEF RpcIInv, ParsedFrom, Walked
    <2> QED BY <1>0, <2>1, <2>2 DEF RpcIInv, Walked, InvalidRequest, InvalidParams
  <1>6. CASE NextMessage
    <2>1. raw' = << >> /\ parsed' = << >> /\ received' = << >> /\ outcome' = "idle"
      BY <1>6 DEF NextMessage
    <2>2. Walked(received', raw') = 0
      BY <2>1 DEF Walked
    <2>3. /\ << >> \in Seq({Result(m) : m \in Messages}) /\ << >> \in Seq(Entries)
          /\ Len(<< >>) = 0
      OBVIOUS
    <2>4. \A i \in 1 .. Len(raw') : FALSE
      BY <2>1, <2>3
    <2>5. /\ received' \in Seq(Messages \cup {NotAnObject})
          /\ raw' \in Seq(Messages \cup {NotAnObject})
          /\ parsed' \in Seq({Result(m) : m \in Messages}) /\ Walked(received', raw') \in Nat
      BY <2>1, <2>2, <2>3
    <2>6. outcome' = "idle" /\ received' = << >> /\ raw' = << >> /\ parsed' = << >>
      BY <2>1
    <2>7. /\ ~(outcome' \in {"parsing", "returned"})
          /\ ~(outcome' \in {InvalidRequest, InvalidParams} /\ received' # << >>)
          /\ outcome' # "returned"
      BY <2>6
    <2> QED BY <2>4, <2>5, <2>6, <2>7, Zenon DEF RpcIInv
  <1>7. CASE UNCHANGED rpcVars
    BY <1>0, <1>7 DEF rpcVars, RpcIInv, Walked, ParsedFrom
  <1> QED BY <1>1, <1>2, <1>3, <1>4, <1>5, <1>6, <1>7 DEF RpcNext

\* What a batch returns or raises follows from it.
LEMMA BatchHolds == RpcIInv => BatchIsItsParts
  <1> SUFFICES ASSUME RpcIInv PROVE BatchIsItsParts
    OBVIOUS
  <1> DEFINE n == Len(received)
             objects == {i \in DOMAIN received : received[i] # NotAnObject}
             S == {i \in objects : ~received[i].response /\ received[i].method \in ToolMethods}
             wanted == Filtered(received, S)
  <1>0. n \in Nat /\ DOMAIN received = 1 .. n
    BY DEF RpcIInv
  <1>1. S = Wanted(received, n) /\ objects = Objects(received)
    BY <1>0 DEF Wanted, Objects, Yields
  <1>2. outcome = "returned" => /\ \A i \in objects : WellFormed(received[i])
                                /\ parsed = [k \in 1 .. Len(wanted) |-> Result(wanted[k])]
    <2> SUFFICES ASSUME outcome = "returned"
                 PROVE  /\ \A i \in objects : WellFormed(received[i])
                        /\ parsed = [k \in 1 .. Len(wanted) |-> Result(wanted[k])]
      OBVIOUS
    <2>0. Walked(received, raw) = n
      BY <1>0 DEF RpcIInv, Walked
    <2>1. ParsedFrom(parsed, received, n) /\ parsed \in Seq({Result(m) : m \in Messages})
      BY <2>0 DEF RpcIInv
    <2>2. /\ WellTo(received, n) /\ Len(parsed) = Cardinality(S)
          /\ \A k \in 1 .. Len(parsed) : parsed[k] = Result(wanted[k])
      BY <1>1, <2>1 DEF ParsedFrom
    <2>3. \A i \in objects : WellFormed(received[i])
      BY <1>0, <2>2 DEF WellTo
    <2>4. Len(wanted) = Cardinality(S)
      <3>1. Cardinality(S) \in Nat
        BY <2>1, <2>2
      <3> HIDE DEF S
      <3> QED BY <3>1 DEF Filtered
    <2> HIDE DEF wanted, S
    <2>5. parsed = [k \in 1 .. Len(wanted) |-> Result(wanted[k])]
      BY <2>1, <2>2, <2>4
    <2> QED BY <2>3, <2>5
  <1>3. outcome \in {InvalidRequest, InvalidParams} /\ received # << >> =>
             \E i \in objects : ~WellFormed(received[i])
    BY <1>1 DEF RpcIInv
  <1> QED BY <1>2, <1>3 DEF BatchIsItsParts

\* The inductive invariant of what the server reports: theirs together.
ReportsIInv == AlertIInv /\ HistogramIInv /\ TracingIInv /\ RpcIInv

\* In a behaviour of the services each of them moves by its own steps only.
LEMMA ReportsBehave ==
    ASSUME [ServicesNext]_Vars
    PROVE  /\ [AlertNext]_alertVars /\ [HistogramNext]_histogramVars
           /\ [TracingNext]_tracingVars /\ [RpcNext]_rpcVars
  <1>1. CASE UNCHANGED Vars
    BY <1>1 DEF Vars
  <1>2. CASE ServicesNext
    <2>1. part \in Parts /\ Still(Parts \ {part})
      BY <1>2 DEF ServicesNext, Parts
    <2>2. /\ part # "alerting" => UNCHANGED alertVars
          /\ part # "histogram" => UNCHANGED histogramVars
          /\ part # "tracing" => UNCHANGED tracingVars
          /\ part # "rpc" => UNCHANGED rpcVars
      BY <2>1 DEF Still, Parts
    <2>3. /\ part = "alerting" => AlertNext
          /\ part = "histogram" => HistogramNext
          /\ part = "tracing" => TracingNext
          /\ part = "rpc" => RpcNext
      BY <1>2 DEF ServicesNext
    <2> QED BY <2>2, <2>3
  <1> QED BY <1>1, <1>2

\* What the server says of itself is true: the alerts of a kind are marked a cooldown
\* apart, whichever reporter read the clock or took the lock first, and a critical
\* result is withheld only where a marked alert covers it; the count kept of a bucket is
\* that of all it reaches; the spans completed are the newest in the order of their
\* start, whatever traces clients put them in; and a batch yields all of its parts or
\* fails for one (alerting.py:66-83, metrics.py:90-94, tracing.py:102-212,
\* jsonrpc.py:173-264).
THEOREM ReportsAreTrue == ServicesSpec => []ReportsInv
  <1>1. ServicesInit => ReportsIInv
    <2> SUFFICES ASSUME ServicesInit PROVE ReportsIInv
      OBVIOUS
    <2>1. AlertInit /\ HistogramInit /\ TracingInit /\ RpcInit
      BY DEF ServicesInit
    <2> QED BY <2>1, AlertsStart, HistogramStarts, TracingStarts, RpcStarts DEF ReportsIInv
  <1>2. ReportsIInv /\ [ServicesNext]_Vars => ReportsIInv'
    BY ReportsBehave, AlertStepKeeps, HistogramStepKeeps, TracingStepKeeps, RpcStepKeeps
       DEF ReportsIInv
  <1>3. ReportsIInv => ReportsInv
    <2>1. AlertIInv => OnePerCooldown
      BY DEF AlertIInv
    <2> QED BY <2>1, BucketsAddUp, SpansHold, BatchHolds DEF ReportsIInv, ReportsInv
  <1> QED BY <1>1, <1>2, <1>3, PTL DEF ServicesSpec

-----------------------------------------------------------------------------
(* The deployed gateway: what it says of its scans, and that no tool behind *)
(* a client is run without one.                                            *)

\* The layers that refuse are some of five, and the first of them blocks.
LEMMA FirstRefuses ==
    ASSUME NEW c
    PROVE  /\ BlockedBy(c) \in 0 .. 5 /\ (BlockedBy(c) = 0 <=> Refusing(c) = {})
           /\ Refusing(c) # {} => BlockedBy(c) \in Refusing(c)
                                  /\ \A l \in Refusing(c) : BlockedBy(c) <= l
  <1> DEFINE R == Refusing(c)
  <1>1. R \subseteq 1 .. 5
    BY DEF Refusing
  <1> HIDE DEF R
  <1>2. CASE R = {}
    BY <1>2 DEF BlockedBy, R
  <1>3. CASE R # {}
    <2>1. \E l \in R : \A k \in R : l <= k
      <3>1. \A l \in R : l \in {1, 2, 3, 4, 5}
        BY <1>1
      <3> DEFINE l == IF 1 \in R THEN 1 ELSE IF 2 \in R THEN 2 ELSE IF 3 \in R THEN 3
                      ELSE IF 4 \in R THEN 4 ELSE 5
      <3>2. l \in R /\ \A k \in R : l <= k
        BY <1>3, <3>1
      <3> QED BY <3>2
    <2>2. Min(R) \in R /\ \A k \in R : Min(R) <= k
      BY <2>1 DEF Min
    <2>3. BlockedBy(c) = Min(R)
      BY <1>3 DEF BlockedBy, R
    <2> QED BY <1>1, <1>3, <2>2, <2>3 DEF R
  <1> QED BY <1>2, <1>3

\* A rule that looks for one of the marks of a call, or the registry that does not know
\* its server, refuses it.
LEMMA RuleRefuses ==
    ASSUME NEW c, NEW r \in gateway_rules, c.tool \in r.tools, r.mark \in c.marks
    PROVE  BlockedBy(c) # 0
  <1>1. r \in Matched(c)
    BY DEF Matched
  <1>2. 2 \in Refusing(c)
    BY <1>1 DEF Refusing
  <1> QED BY <1>2, FirstRefuses

\* At most so many of the last.
Limited(n, k) == IF n <= k THEN n ELSE k

\* Written with Min and Max, as the model does.
LEMMA LimitedIsLeast ==
    ASSUME NEW n \in Nat, NEW k \in Nat
    PROVE  /\ Min({n, k}) = Limited(n, k) /\ Limited(n, k) \in Nat
           /\ Limited(n, k) <= n /\ Limited(n, k) <= k
           /\ Max({n - k, 0}) = n - Limited(n, k)
  <1>1. Min({n, k}) = Limited(n, k)
    BY LeastOfTwo DEF Limited
  <1>2. Max({n - k, 0}) = IF n - k >= 0 THEN n - k ELSE 0
    BY DEF Max
  <1> QED BY <1>1, <1>2 DEF Limited

\* One more at the end, and the first d given up for it.
ShiftedBy(r, q, x, d) ==
    \A i \in 1 .. Len(r) : r[i] = IF i + d <= Len(q) THEN q[i + d] ELSE x

\* What a full deque gives up for one item more.
LEMMA NewestShifts ==
    ASSUME NEW S, NEW q \in Seq(S), NEW x \in S, NEW k \in Nat, k > 0, Len(q) <= k,
           NEW d, Len(q) = k => d = 1, Len(q) # k => d = 0, NEW r, r = Newest(Append(q, x), k)
    PROVE  /\ r \in Seq(S) /\ Len(r) = Len(q) + 1 - d /\ Len(r) > 0
           /\ ShiftedBy(r, q, x, d) /\ Last(r) = x
  <1> DEFINE p == Append(q, x)
             n == Len(q)
  <1>1. /\ p \in Seq(S) /\ Len(p) = n + 1 /\ p[n + 1] = x /\ n \in Nat
        /\ \A i \in 1 .. n + 1 : p[i] = IF i <= n THEN q[i] ELSE x
    OBVIOUS
  <1>2. r = IF Len(p) <= k THEN p ELSE SubSeq(p, Len(p) - k + 1, Len(p))
    BY DEF Newest
  <1> HIDE DEF p, n
  <1>3. CASE n # k
    <2>1. r = p /\ d = 0
      BY <1>1, <1>2, <1>3 DEF n
    <2>2. \A i \in 1 .. Len(r) : i + 0 = i
      BY <1>1, <2>1
    <2>3. r \in Seq(S) /\ Len(r) = n + 1 - d /\ Last(r) = x
      BY <1>1, <2>1 DEF Last
    <2>4. \A i \in 1 .. n + 1 : r[i] = IF i + d <= n THEN q[i + d] ELSE x
      BY <1>1, <2>1
    <2> QED BY <1>1, <2>1, <2>3, <2>4 DEF n, ShiftedBy
  <1>4. CASE n = k
    <2>0. d = 1
      BY <1>4 DEF n
    <2>1. r = SubSeq(p, 2, k + 1)
      <3>1. ~(Len(p) <= k) /\ Len(p) - k + 1 = 2 /\ Len(p) = k + 1
        BY <1>1, <1>4
      <3> QED BY <1>2, <3>1
    <2>2. r \in Seq(S) /\ Len(r) = k /\ \A i \in 1 .. k : r[i] = p[i + 1]
      <3>1. Len(SubSeq(p, 2, k + 1)) = k
        BY <1>1, <1>4
      <3>2. SubSeq(p, 2, k + 1) \in Seq(S)
        BY <1>1, <1>4
      <3>3. \A i \in 1 .. k : SubSeq(p, 2, k + 1)[i] = p[i + 1]
        BY <1>1, <1>4
      <3> QED BY <2>1, <3>1, <3>2, <3>3
    <2>3. Last(r) = x
      BY <1>1, <1>4, <2>2 DEF Last
    <2>4. \A i \in 1 .. k : r[i] = IF i + d <= n THEN q[i + d] ELSE x
      BY <1>1, <1>4, <2>0, <2>2
    <2> QED BY <1>4, <2>0, <2>2, <2>3, <2>4 DEF n, ShiftedBy
  <1> QED BY <1>3, <1>4

\* One more at the front, and the last given up for it.
LEMMA RecentShifts ==
    ASSUME NEW S, NEW q \in Seq(S), NEW x \in S, NEW k \in Nat \ {0}, Len(q) <= k
    PROVE  LET p == << x >> \o q
               r == IF Len(p) > k THEN Front(p) ELSE p
               m == IF Len(q) = k THEN k ELSE Len(q) + 1
           IN  /\ r \in Seq(S) /\ Len(r) = m /\ r[1] = x /\ m > 0
               /\ \A i \in 1 .. m : i > 1 => r[i] = q[i - 1]
  <1> DEFINE p == << x >> \o q
             r == IF Len(p) > k THEN Front(p) ELSE p
             n == Len(q)
  <1>1. /\ p \in Seq(S) /\ Len(p) = n + 1 /\ n \in Nat /\ p[1] = x
        /\ \A i \in 2 .. n + 1 : p[i] = q[i - 1]
    OBVIOUS
  <1> HIDE DEF p, n
  <1>2. CASE n # k
    <2>1. r = p
      BY <1>1, <1>2 DEF n
    <2>2. \A i \in 1 .. n + 1 : i > 1 => i \in 2 .. n + 1
      BY <1>1
    <2> HIDE DEF r
    <2> QED BY <1>1, <1>2, <2>1, <2>2 DEF p, r, n
  <1>3. CASE n = k
    <2>1. r = SubSeq(p, 1, k)
      BY <1>1, <1>3 DEF Front
    <2>2. r \in Seq(S) /\ Len(r) = k /\ \A i \in 1 .. k : r[i] = p[i]
      <3> HIDE DEF r
      <3>1. Len(SubSeq(p, 1, k)) = k
        BY <1>1, <1>3
      <3>2. SubSeq(p, 1, k) \in Seq(S)
        BY <1>1, <1>3
      <3>3. \A i \in 1 .. k : SubSeq(p, 1, k)[i] = p[i]
        BY <1>1, <1>3
      <3> QED BY <2>1, <3>1, <3>2, <3>3
    <2>3. \A i \in 1 .. k : i > 1 => i \in 2 .. n + 1
      BY <1>1, <1>3
    <2> HIDE DEF r
    <2>4. r[1] = x
      BY <1>1, <2>2
    <2>5. \A i \in 1 .. k : i > 1 => r[i] = q[i - 1]
      BY <1>1, <2>2, <2>3
    <2>6. (IF n = k THEN k ELSE n + 1) = k /\ k > 0
      BY <1>3
    <2> QED BY <2>2, <2>4, <2>5, <2>6 DEF p, r, n
  <1> QED BY <1>2, <1>3

\* The window counts what the history does, from any time that still matters.
Within(q, t, e) == {i \in DOMAIN q : t - q[i] <= e}
SameSince(q, r, a) ==
    \A c \in Int : c >= a => Cardinality(Since(q, c)) = Cardinality(Since(r, c))

\* Dropping what is too old to matter leaves every later count as it was.
LEMMA WindowCounts ==
    ASSUME NEW q \in Seq(Nat), NEW r \in Seq(Nat), NEW t \in Nat, NEW e \in Nat,
           SameSince(q, r, t - e),
           NEW times, times = Filtered(Append(q, t), Within(Append(q, t), t, e))
    PROVE  /\ times \in Seq(Nat) /\ Append(r, t) \in Seq(Nat)
           /\ SameSince(times, Append(r, t), t - e)
           /\ Len(times) = Cardinality(Since(Append(r, t), t - e))
  <1> DEFINE w == Append(q, t)
             S == {i \in DOMAIN w : t - w[i] <= e}
  <1>1. w \in Seq(Nat) /\ DOMAIN w = 1 .. Len(w) /\ \A i \in DOMAIN w : w[i] \in Nat
    <2>1. w \in Seq(Nat)
      OBVIOUS
    <2> HIDE DEF w
    <2> QED BY <2>1
  <1>2. times = Filtered(w, S)
    BY DEF Within
  <1>0. Append(r, t) \in Seq(Nat)
    OBVIOUS
  <1> HIDE DEF w
  <1>3. S \in SUBSET (1 .. Len(w)) /\ S = Since(w, t - e)
    BY <1>1 DEF Since
  <1>4. \A c \in Int : c >= t - e => \A i \in 1 .. Len(w) : w[i] >= c => i \in S
    BY <1>1
  <1> HIDE DEF S
  <1>5. /\ times \in Seq(Nat) /\ Len(times) = Cardinality(S)
        /\ \A c \in Int : c >= t - e => Cardinality(Since(times, c)) = Cardinality(Since(w, c))
    <2>1. /\ Filtered(w, S) \in Seq(Nat) /\ Len(Filtered(w, S)) = Cardinality(S)
          /\ \A c \in Int : (\A i \in 1 .. Len(w) : w[i] >= c => i \in S)
                => Cardinality(Since(Filtered(w, S), c)) = Cardinality(Since(w, c))
      BY <1>1, <1>3, FilterKeeps
    <2> QED BY <1>2, <1>4, <2>1
  <1>8. \A c \in Int : c >= t - e => Cardinality(Since(q, c)) = Cardinality(Since(r, c))
    BY DEF SameSince
  <1>6. ASSUME NEW c \in Int, c >= t - e
        PROVE  Cardinality(Since(w, c)) = Cardinality(Since(Append(r, t), c))
    <2>1. Cardinality(Since(w, c)) =
             IF t >= c THEN Cardinality(Since(q, c)) + 1 ELSE Cardinality(Since(q, c))
      BY OneMoreTime DEF w
    <2>2. Cardinality(Since(Append(r, t), c)) =
             IF t >= c THEN Cardinality(Since(r, c)) + 1 ELSE Cardinality(Since(r, c))
      BY OneMoreTime
    <2> QED BY <1>6, <1>8, <2>1, <2>2
  <1>7. t - e \in Int /\ t - e >= t - e
    OBVIOUS
  <1> QED BY <1>0, <1>3, <1>5, <1>6, <1>7 DEF SameSince

\* How many of the first n have each value, and one more of them.
TallyTo(v, n) == [x \in {v[i] : i \in 1 .. n} |-> Cardinality({i \in 1 .. n : v[i] = x})]

\* A place more is one more counted.
LEMMA OneMoreCounted ==
    ASSUME NEW n \in Nat, NEW A \in SUBSET (1 .. n)
    PROVE  /\ IsFiniteSet(A) /\ Cardinality(A) \in Nat
           /\ Cardinality(A \cup {n + 1}) = Cardinality(A) + 1
  <1>1. IsFiniteSet(1 .. n) /\ n + 1 \notin A
    BY FS_Interval
  <1>2. IsFiniteSet(A)
    BY <1>1, FS_Subset
  <1> QED BY <1>1, <1>2, FS_CardinalityType, FS_AddElement

\* Counter[x] += 1 is the tally of one item more.
LEMMA TallyGrows ==
    ASSUME NEW n \in Nat, NEW v, NEW w, NEW x,
           \A i \in 1 .. n : w[i] = v[i], w[n + 1] = x
    PROVE  TallyTo(w, n + 1) = Tallied(TallyTo(v, n), x)
  <1> DEFINE A(y) == {i \in 1 .. n : v[i] = y}
             B(y) == {i \in 1 .. n + 1 : w[i] = y}
             V == {v[i] : i \in 1 .. n}
             W == {w[i] : i \in 1 .. n + 1}
  <1>0. /\ \A i \in 1 .. n + 1 : i \in 1 .. n \/ i = n + 1
        /\ 1 .. n \subseteq 1 .. n + 1 /\ n + 1 \in 1 .. n + 1 /\ n + 1 \notin 1 .. n
    BY OneMorePlace
  <1>1. W = V \cup {x}
    <2>1. W \subseteq V \cup {x}
      BY <1>0
    <2>2. V \cup {x} \subseteq W
      BY <1>0
    <2> QED BY <2>1, <2>2
  <1>2. ASSUME NEW y \in W
        PROVE  Cardinality(B(y))
                 = (IF y \in V THEN Cardinality(A(y)) ELSE 0) + IF y = x THEN 1 ELSE 0
    <2>1. B(y) = IF y = x THEN A(y) \cup {n + 1} ELSE A(y)
      BY <1>0
    <2>2. A(y) \in SUBSET (1 .. n)
      OBVIOUS
    <2>3. y \notin V => A(y) = {}
      OBVIOUS
    <2> HIDE DEF A, B, V, W
    <2>4. Cardinality(A(y)) \in Nat /\ Cardinality(A(y) \cup {n + 1}) = Cardinality(A(y)) + 1
      BY <2>2, OneMoreCounted
    <2>5. y \notin V => Cardinality(A(y)) = 0
      BY <2>3, FS_EmptySet
    <2> QED BY <2>1, <2>4, <2>5
  <1>3. TallyTo(v, n) = [y \in V |-> Cardinality(A(y))]
    BY DEF TallyTo
  <1>4. TallyTo(w, n + 1) = [y \in W |-> Cardinality(B(y))]
    BY DEF TallyTo
  <1> HIDE DEF A, B, V, W
  <1> DEFINE g == [y \in V \cup {x} |-> IF y \in V THEN TallyTo(v, n)[y] ELSE 0]
  <1>5. Tallied(TallyTo(v, n), x) = [y \in DOMAIN g |-> g[y] + IF y = x THEN 1 ELSE 0]
    <2>1. DOMAIN TallyTo(v, n) = V
      BY <1>3
    <2> QED BY <2>1 DEF Tallied, Bumped
  <1>6. Tallied(TallyTo(v, n), x) =
           [y \in W |-> (IF y \in V THEN Cardinality(A(y)) ELSE 0) + IF y = x THEN 1 ELSE 0]
    <2>1. DOMAIN g = W /\ \A y \in W : g[y] = IF y \in V THEN Cardinality(A(y)) ELSE 0
      BY <1>1, <1>3
    <2> HIDE DEF g
    <2> QED BY <1>5, <2>1
  <1> QED BY <1>2, <1>4, <1>6

\* Sets of a few given elements.
LEMMA FewAreFinite ==
    ASSUME NEW a, NEW b, NEW c, NEW d
    PROVE  IsFiniteSet({a, b}) /\ IsFiniteSet({a, b, c, d})
  <1>1. IsFiniteSet({}) /\ \A S, x : IsFiniteSet(S) => IsFiniteSet(S \cup {x})
    BY FS_EmptySet, FS_AddElement
  <1>2. IsFiniteSet({} \cup {a})
    BY <1>1
  <1>3. IsFiniteSet(({} \cup {a}) \cup {b})
    BY <1>1, <1>2
  <1>4. IsFiniteSet((({} \cup {a}) \cup {b}) \cup {c})
    BY <1>1, <1>3
  <1>5. IsFiniteSet(((({} \cup {a}) \cup {b}) \cup {c}) \cup {d})
    BY <1>1, <1>4
  <1>6. /\ {a, b} = ({} \cup {a}) \cup {b}
        /\ {a, b, c, d} = ((({} \cup {a}) \cup {b}) \cup {c}) \cup {d}
    OBVIOUS
  <1> QED BY <1>3, <1>5, <1>6

\* A deque with one item more.
LEMMA LimitedGrows ==
    ASSUME NEW n \in Nat, NEW k \in Nat \ {0}
    PROVE  /\ Limited(n + 1, k) = Limited(n, k) + 1 - IF Limited(n, k) = k THEN 1 ELSE 0
           /\ Limited(n + 1, k) = IF Limited(n, k) = k THEN k ELSE Limited(n, k) + 1
  BY DEF Limited

\* What Append is, item by item.
LEMMA AppendIs ==
    ASSUME NEW S, NEW q \in Seq(S), NEW x
    PROVE  /\ Len(q) \in Nat /\ Len(Append(q, x)) = Len(q) + 1
           /\ Append(q, x) = [i \in 1 .. Len(q) + 1 |-> IF i \in 1 .. Len(q) THEN q[i] ELSE x]
           /\ Append(q, x)[Len(q) + 1] = x /\ \A i \in 1 .. Len(q) : Append(q, x)[i] = q[i]
           /\ DOMAIN q = 1 .. Len(q) /\ DOMAIN Append(q, x) = 1 .. Len(q) + 1
  <1> DEFINE T == S \cup {x}
             p == Append(q, x)
  <1>1. q \in Seq(T) /\ x \in T
    OBVIOUS
  <1> HIDE DEF T
  <1>2. /\ p \in Seq(T) /\ Len(q) \in Nat /\ Len(p) = Len(q) + 1 /\ p[Len(q) + 1] = x
        /\ \A i \in 1 .. Len(q) : p[i] = q[i]
    BY <1>1
  <1>3. DOMAIN q = 1 .. Len(q)
    OBVIOUS
  <1> HIDE DEF p
  <1>4. p = [i \in 1 .. Len(p) |-> p[i]]
    BY <1>2
  <1>5. \A i \in 1 .. Len(q) + 1 : p[i] = IF i \in 1 .. Len(q) THEN q[i] ELSE x
    BY <1>2
  <1> QED BY <1>2, <1>3, <1>4, <1>5 DEF p

\* A sequence whose last items are the numbers up to n.
UpToNow(q, n, k) == /\ q \in Seq(Nat) /\ Len(q) = Limited(n, k)
                    /\ \A i \in 1 .. Len(q) : q[i] = n - Len(q) + i

\* The latencies kept, one scan later.
LEMMA NumbersShift ==
    ASSUME NEW n \in Nat, NEW k \in Nat, k > 0, NEW q, UpToNow(q, n, k),
           NEW x, x = n + 1, NEW r, r = Newest(Append(q, x), k)
    PROVE  UpToNow(r, n + 1, k)
  <1> DEFINE m == Limited(n, k)
             o == Limited(n + 1, k)
             d == IF Len(q) = k THEN 1 ELSE 0
             S == Nat
  <1>1. m \in Nat /\ m <= k /\ m <= n /\ o \in Nat
    BY DEF Limited
  <1>2. o = m + 1 - IF m = k THEN 1 ELSE 0
    BY LimitedGrows
  <1> HIDE DEF m, o
  <1>3. q \in Seq(S) /\ Len(q) = m /\ (\A i \in 1 .. m : q[i] = n - m + i) /\ x \in S
    BY DEF UpToNow, m
  <1>4. Len(q) <= k /\ o = m + 1 - d /\ d \in {0, 1}
    BY <1>1, <1>2, <1>3
  <1>5. (Len(q) = k => d = 1) /\ (Len(q) # k => d = 0)
    OBVIOUS
  <1> HIDE DEF S, d
  <1>6. r \in Seq(S) /\ Len(r) = Len(q) + 1 - d /\ ShiftedBy(r, q, x, d)
    BY <1>3, <1>4, <1>5, NewestShifts
  <1>7. Len(r) = o
    BY <1>3, <1>4, <1>6
  <1>8. ASSUME NEW i \in 1 .. o PROVE r[i] = n + 1 - o + i
    <2>1. i + d \in 1 .. m + 1 /\ n - m + (i + d) = n + 1 - o + i
      BY <1>1, <1>4
    <2>4. r[i] = IF i + d <= Len(q) THEN q[i + d] ELSE x
      BY <1>6, <1>7 DEF ShiftedBy
    <2> DEFINE j == i + d
    <2> HIDE DEF j
    <2>5. j \in 1 .. m + 1 /\ n - m + j = n + 1 - o + i /\ r[i] = IF j <= m THEN q[j] ELSE x
      BY <1>3, <2>1, <2>4 DEF j
    <2>2. CASE j <= m
      <3>1. j \in 1 .. m
        BY <1>1, <2>2, <2>5
      <3> QED BY <1>3, <2>2, <2>5, <3>1
    <2>3. CASE ~(j <= m)
      <3>1. j = m + 1
        BY <1>1, <2>3, <2>5
      <3>2. n + 1 = n - m + j
        BY <1>1, <3>1
      <3> QED BY <2>3, <2>5, <3>2
    <2> QED BY <2>2, <2>3
  <1> QED BY <1>6, <1>7, <1>8 DEF UpToNow, S, o

\* The last events, the newest first, once there is one more.
Backwards(q, v, n, k) ==
    /\ \E S : q \in Seq(S)
    /\ Len(q) = Limited(n, k) /\ \A i \in 1 .. Len(q) : q[i] = v[n + 1 - i]

\* appendleft() to a deque that is perhaps full.
LEMMA RecentAreLast ==
    ASSUME NEW n \in Nat, NEW k \in Nat \ {0}, NEW v, NEW w, NEW q, NEW e,
           Backwards(q, v, n, k), \A i \in 1 .. n : w[i] = v[i], w[n + 1] = e
    PROVE  LET p == << e >> \o q
           IN  Backwards(IF Len(p) > k THEN Front(p) ELSE p, w, n + 1, k)
  <1> DEFINE m == Limited(n, k)
             o == Limited(n + 1, k)
             p == << e >> \o q
             r == IF Len(p) > k THEN Front(p) ELSE p
  <1>1. m \in Nat /\ m <= k /\ m <= n /\ o \in Nat
    BY DEF Limited
  <1>2. o = IF m = k THEN k ELSE m + 1
    BY LimitedGrows
  <1> HIDE DEF m, o
  <1>3. Len(q) = m /\ \A i \in 1 .. m : q[i] = v[n + 1 - i]
    BY DEF Backwards, m
  <1>4. PICK T : q \in Seq(T)
    BY DEF Backwards
  <1> DEFINE S == T \cup {e}
  <1>5. q \in Seq(S) /\ e \in S
    BY <1>4
  <1> HIDE DEF S
  <1>6. /\ r \in Seq(S) /\ Len(r) = o /\ r[1] = e
        /\ \A i \in 1 .. o : i > 1 => r[i] = q[i - 1]
    <2>1. Len(q) <= k
      BY <1>1, <1>3
    <2>2. /\ r \in Seq(S) /\ Len(r) = (IF Len(q) = k THEN k ELSE Len(q) + 1) /\ r[1] = e
          /\ \A i \in 1 .. (IF Len(q) = k THEN k ELSE Len(q) + 1) : i > 1 => r[i] = q[i - 1]
      BY <1>5, <2>1, RecentShifts
    <2> HIDE DEF r
    <2> QED BY <1>2, <1>3, <2>2
  <1> HIDE DEF p, r
  <1>7. ASSUME NEW i \in 1 .. o PROVE r[i] = w[n + 1 + 1 - i]
    <2>1. CASE i = 1
      <3>1. n + 1 + 1 - i = n + 1
        BY <2>1
      <3> QED BY <1>6, <2>1, <3>1
    <2>2. CASE i > 1
      <3>1. i - 1 \in 1 .. m /\ n + 1 - (i - 1) = n + 1 + 1 - i /\ n + 1 + 1 - i \in 1 .. n
        BY <1>1, <1>2, <2>2
      <3>2. r[i] = v[n + 1 + 1 - i]
        BY <1>3, <1>6, <2>2, <3>1
      <3> QED BY <3>1, <3>2
    <2> QED BY <1>1, <2>1, <2>2
  <1> QED BY <1>6, <1>7 DEF Backwards, r, p, o

\* The inductive invariant of the gateway.
TimesOf(q) == [i \in 1 .. Len(q) |-> q[i].at]
FieldOf(q, field) == [i \in 1 .. Len(q) |-> q[i].event[field]]
EventsOf(q) == [i \in 1 .. Len(q) |-> q[i].event]

\* A history of scans; the counters, and what they add up to; the tallies by field; the
\* window and the rates.
ScansTyped(q) ==
    /\ \E S : q \in Seq(S)
    /\ \A i \in 1 .. Len(q) : q[i].at \in Nat /\ q[i].event.blocked_by_layer = BlockedBy(q[i].call)
CountersTyped(t) ==
    /\ t.blocked \in Nat /\ t.allowed \in Nat
    /\ t.by_layer \in [1 .. 5 -> Nat] /\ t.by_severity \in [Severities -> Nat]
    /\ t.source_counts \in [{"external", "demo"} -> Nat]
CountersAgree(t, n) ==
    /\ t.total_events = n /\ t.blocked + t.allowed = n
    /\ SumFunction(t.by_layer) = t.blocked
    /\ SumFunction(t.by_severity) = n /\ SumFunction(t.source_counts) = n
FieldsTallied(t, q) ==
    /\ t.by_category = TallyTo(FieldOf(q, "category"), Len(q))
    /\ t.by_server = TallyTo(FieldOf(q, "server_id"), Len(q))
    /\ t.by_tool = TallyTo(FieldOf(q, "tool_name"), Len(q))
WindowAgrees(w, q, t) ==
    /\ w \in Seq(Nat)
    /\ SameSince(w, TimesOf(q), t - eps_window)
InLastWindow(q) == {i \in 1 .. Len(q) : q[Len(q)].at - q[i].at <= eps_window}
RatesAgree(r, q) ==
    /\ r \in Seq(Nat) /\ Len(r) = Limited(Len(q), eps_limit)
    /\ Len(q) > 0 => Last(r) = Cardinality(InLastWindow(q))

GatewayIInv ==
    /\ scan_time \in Nat /\ ScansTyped(scans) /\ CountersTyped(totals)
    /\ CountersAgree(totals, Len(scans)) /\ FieldsTallied(totals, scans)
    /\ WindowAgrees(event_window, scans, scan_time)
    /\ RatesAgree(recent_eps, scans)
    /\ UpToNow(latencies, Len(scans), latency_limit)
    /\ Backwards(recent_threats, EventsOf(scans), Len(scans), recent_limit)

\* A step of the gateway, whoever asks.
GatewayStep == \/ \E c : \E source \in {"external", "demo"} : api_scan(c, source)
               \/ ScanTick
               \/ UNCHANGED gatewayVars

\* One scan more.
OneMore(p, q, s) ==
    /\ Len(q) \in Nat /\ Len(p) = Len(q) + 1 /\ p[Len(q) + 1] = s
    /\ \A i \in 1 .. Len(q) : p[i] = q[i]

\* A scan more in the history.
LEMMA ScansGrow ==
    ASSUME NEW q, ScansTyped(q), NEW s, s.at \in Nat,
           s.event.blocked_by_layer = BlockedBy(s.call), NEW p, p = Append(q, s)
    PROVE  ScansTyped(p) /\ OneMore(p, q, s)
  <1>1. PICK S : q \in Seq(S)
    BY DEF ScansTyped
  <1>2. p \in Seq(S \cup {s}) /\ Len(q) \in Nat
    BY <1>1
  <1>3. OneMore(p, q, s)
    BY <1>1, AppendIs DEF OneMore
  <1>4. \A i \in 1 .. Len(p) : i \in 1 .. Len(q) \/ i = Len(q) + 1
    BY <1>2, <1>3 DEF OneMore
  <1>5. \A i \in 1 .. Len(p) : p[i].at \in Nat
                               /\ p[i].event.blocked_by_layer = BlockedBy(p[i].call)
    BY <1>3, <1>4 DEF ScansTyped, OneMore
  <1> QED BY <1>2, <1>3, <1>5 DEF ScansTyped

\* One more at x, and the sum over a finite domain.
LEMMA BumpAdds ==
    ASSUME NEW D, IsFiniteSet(D), NEW f \in [D -> Nat], NEW x, NEW g, g = Bumped(f, x)
    PROVE  /\ g \in [D -> Nat]
           /\ SumFunction(g) = SumFunction(f) + IF x \in D THEN 1 ELSE 0
  <1>1. g \in [D -> Nat] /\ \A y \in D : f[y] \in Int /\ g[y] = f[y] + IF y = x THEN 1 ELSE 0
    BY DEF Bumped
  <1>2. SumFunctionOnSet(g, D) = SumFunctionOnSet(f, D) + IF x \in D THEN 1 ELSE 0
    BY <1>1, SumPlusOne
  <1>3. DOMAIN f = D /\ DOMAIN g = D
    BY <1>1
  <1> QED BY <1>1, <1>2, <1>3 DEF SumFunction

\* The counters once an event is recorded.
LEMMA CountersGrow ==
    ASSUME CountersTyped(totals), NEW n \in Nat, CountersAgree(totals, n),
           NEW e, e.blocked_by_layer \in 0 .. 5,
           e.severity \in Severities, e.source \in {"external", "demo"}, NEW t, t = Counted(e)
    PROVE  CountersTyped(t) /\ CountersAgree(t, n + 1)
  <1> DEFINE l == e.blocked_by_layer
             b == IF l # 0 THEN 1 ELSE 0
             a == IF l = 0 THEN 1 ELSE 0
             L == 1 .. 5
             S == {"external", "demo"}
  <1>1. /\ t.total_events = totals.total_events + 1
        /\ t.blocked = totals.blocked + b /\ t.allowed = totals.allowed + a
        /\ t.by_layer = Bumped(totals.by_layer, l)
        /\ t.by_severity = Bumped(totals.by_severity, e.severity)
        /\ t.source_counts = Bumped(totals.source_counts, e.source)
    BY DEF Counted
  <1>2. IsFiniteSet(L) /\ IsFiniteSet(Severities) /\ IsFiniteSet(S)
    <2>1. IsFiniteSet({"external", "demo"})
      BY FewAreFinite, Zenon
    <2>2. IsFiniteSet({"CRITICAL", "HIGH", "MEDIUM", "LOW"})
      BY FewAreFinite, Zenon
    <2>3. IsFiniteSet(1 .. 5)
      <3>1. \A k \in Nat : IsFiniteSet(1 .. k)
        BY FS_Interval
      <3> QED BY <3>1
    <2> QED BY <2>1, <2>2, <2>3 DEF Severities
  <1>3. /\ b \in Nat /\ a \in Nat /\ a + b = 1 /\ (l \in L <=> l # 0)
        /\ e.source \in S
    OBVIOUS
  <1>4. /\ totals.by_layer \in [L -> Nat] /\ totals.by_severity \in [Severities -> Nat]
        /\ totals.source_counts \in [S -> Nat] /\ totals.blocked \in Nat /\ totals.allowed \in Nat
    BY DEF CountersTyped
  <1>9. b = IF l \in L THEN 1 ELSE 0
    BY <1>3
  <1> HIDE DEF L, S, l, a, b
  <1>5. t.by_layer \in [L -> Nat] /\ SumFunction(t.by_layer) = SumFunction(totals.by_layer) + b
    <2>1. /\ t.by_layer \in [L -> Nat]
          /\ SumFunction(t.by_layer) = SumFunction(totals.by_layer) + IF l \in L THEN 1 ELSE 0
      BY <1>1, <1>2, <1>4, BumpAdds
    <2> QED BY <1>9, <2>1
  <1>6. /\ t.by_severity \in [Severities -> Nat]
        /\ SumFunction(t.by_severity) = SumFunction(totals.by_severity) + 1
    <2> DEFINE D == Severities
               y == e.severity
    <2>1. /\ IsFiniteSet(D) /\ totals.by_severity \in [D -> Nat] /\ y \in D
          /\ t.by_severity = Bumped(totals.by_severity, y)
      BY <1>1, <1>2, <1>4
    <2> HIDE DEF D, y
    <2>2. /\ t.by_severity \in [D -> Nat]
          /\ SumFunction(t.by_severity)
               = SumFunction(totals.by_severity) + IF y \in D THEN 1 ELSE 0
      BY <2>1, BumpAdds
    <2> QED BY <2>1, <2>2 DEF D
  <1>7. /\ t.source_counts \in [S -> Nat]
        /\ SumFunction(t.source_counts) = SumFunction(totals.source_counts) + 1
    BY <1>1, <1>2, <1>3, <1>4, BumpAdds
  <1>8. CountersTyped(t)
    BY <1>1, <1>3, <1>4, <1>5, <1>6, <1>7 DEF CountersTyped, L, S
  <1>10. /\ t.total_events = n + 1 /\ t.blocked + t.allowed = n + 1
         /\ SumFunction(t.by_layer) = t.blocked
         /\ SumFunction(t.by_severity) = n + 1 /\ SumFunction(t.source_counts) = n + 1
    BY <1>1, <1>3, <1>4, <1>5, <1>6, <1>7 DEF CountersAgree
  <1> QED BY <1>8, <1>10 DEF CountersAgree

\* The tallies once an event is recorded.
LEMMA TalliesGrow ==
    ASSUME NEW q, NEW s, NEW p, OneMore(p, q, s), FieldsTallied(totals, q),
           NEW t, t = Counted(s.event)
    PROVE  FieldsTallied(t, p)
  <1>1. ASSUME NEW field
        PROVE  TallyTo(FieldOf(p, field), Len(p))
                 = Tallied(TallyTo(FieldOf(q, field), Len(q)), s.event[field])
    <2> DEFINE v == FieldOf(q, field)
               w == FieldOf(p, field)
               n == Len(q)
               x == s.event[field]
    <2>1. n \in Nat /\ Len(p) = n + 1
      BY DEF OneMore
    <2>2. (\A i \in 1 .. n : w[i] = v[i]) /\ w[n + 1] = x
      BY <2>1, OneMorePlace DEF FieldOf, OneMore
    <2> HIDE DEF v, w, n, x
    <2>3. TallyTo(w, n + 1) = Tallied(TallyTo(v, n), x)
      BY <2>1, <2>2, TallyGrows
    <2> QED BY <2>1, <2>3 DEF v, w, n, x
  <1>2. /\ t.by_category = Tallied(totals.by_category, s.event["category"])
        /\ t.by_server = Tallied(totals.by_server, s.event["server_id"])
        /\ t.by_tool = Tallied(totals.by_tool, s.event["tool_name"])
    BY DEF Counted
  <1> QED BY <1>1, <1>2 DEF FieldsTallied

\* The window and the rate once there is one more scan.
LEMMA WindowGrows ==
    ASSUME NEW q, ScansTyped(q), NEW s, s.at \in Nat, NEW p, OneMore(p, q, s), ScansTyped(p),
           NEW w, NEW t, t = s.at, WindowAgrees(w, q, t),
           NEW u, u = Filtered(Append(w, t), Within(Append(w, t), t, eps_window))
    PROVE  WindowAgrees(u, p, t) /\ Len(u) = Cardinality(InLastWindow(p))
  <1> DEFINE r == TimesOf(q)
             z == TimesOf(p)
             n == Len(q)
             S == Nat
             e == eps_window
  <1>1. n \in Nat /\ DOMAIN r = 1 .. n /\ \A i \in 1 .. n : r[i] = q[i].at /\ q[i].at \in Nat
    BY DEF OneMore, ScansTyped, TimesOf
  <1>2. /\ Len(p) = n + 1 /\ \A i \in 1 .. n + 1 : z[i] = p[i].at /\ p[i].at \in Nat
        /\ z = [i \in 1 .. n + 1 |-> z[i]]
    BY <1>1 DEF OneMore, ScansTyped, TimesOf
  <1>3. r \in Seq(S) /\ Len(r) = n
    BY <1>1 DEF TimesOf
  <1>4. z = [i \in 1 .. n + 1 |-> IF i \in 1 .. n THEN r[i] ELSE t]
    <2>1. (\A i \in 1 .. n : p[i].at = q[i].at) /\ p[n + 1].at = t
      BY DEF OneMore
    <2> HIDE DEF z, r, n
    <2>2. \A i \in 1 .. n + 1 : z[i] = IF i \in 1 .. n THEN r[i] ELSE t
      <3>1. /\ \A i \in 1 .. n : z[i] = r[i]
            /\ z[n + 1] = t /\ n + 1 \notin 1 .. n
        BY <1>1, <1>2, <2>1
      <3>2. \A i \in 1 .. n + 1 : i \in 1 .. n \/ i = n + 1
        BY <1>1
      <3> QED BY <3>1, <3>2
    <2> QED BY <1>2, <2>2
  <1> HIDE DEF r, z, n
  <1>5. z = Append(r, t)
    <2> HIDE DEF S
    <2>1. Append(r, t) = [i \in 1 .. Len(r) + 1 |-> IF i \in 1 .. Len(r) THEN r[i] ELSE t]
      BY <1>3, AppendIs
    <2> QED BY <1>3, <1>4, <2>1
  <1>6. e \in Nat
    BY GatewayLimitsAssumption
  <1>7. w \in Seq(Nat) /\ SameSince(w, r, t - e)
    BY DEF WindowAgrees, r
  <1>8. u = Filtered(Append(w, t), Within(Append(w, t), t, e)) /\ t \in Nat
    OBVIOUS
  <1> HIDE DEF e
  <1>9. /\ u \in Seq(Nat) /\ SameSince(u, z, t - e)
        /\ Len(u) = Cardinality(Since(z, t - e))
    BY <1>3, <1>5, <1>6, <1>7, <1>8, WindowCounts DEF S
  <1>10. Since(z, t - e) = InLastWindow(p)
    <2>1. Len(z) = n + 1 /\ p[n + 1].at = t
      BY <1>1, <1>3, <1>5 DEF OneMore, n, S
    <2>2. \A i \in 1 .. n + 1 : z[i] >= t - e <=> t - p[i].at <= e
      BY <1>2, <1>6
    <2> QED BY <1>2, <2>1, <2>2 DEF Since, InLastWindow, e
  <1> QED BY <1>9, <1>10 DEF WindowAgrees, e, z

\* The rate recorded with a scan is that of its window.
LEMMA RatesGrow ==
    ASSUME NEW q, NEW s, NEW p, OneMore(p, q, s), NEW v, RatesAgree(v, q),
           NEW x \in Nat, x = Cardinality(InLastWindow(p)),
           NEW r, r = Newest(Append(v, x), eps_limit)
    PROVE  RatesAgree(r, p)
  <1> DEFINE n == Len(q)
             k == eps_limit
             S == Nat
             d == IF Len(v) = k THEN 1 ELSE 0
  <1>1. n \in Nat /\ Len(p) = n + 1 /\ k \in Nat /\ k > 0
    BY GatewayLimitsAssumption DEF OneMore
  <1>2. v \in Seq(S) /\ x \in S /\ Len(v) = Limited(n, k)
    BY DEF RatesAgree
  <1>3. /\ Len(v) <= k /\ Limited(n + 1, k) = Len(v) + 1 - d
        /\ (Len(v) = k => d = 1) /\ (Len(v) # k => d = 0)
    <2> HIDE DEF n, k, S
    <2>1. Limited(n, k) <= k
      BY <1>1 DEF Limited
    <2>2. Limited(n + 1, k) = Limited(n, k) + 1 - IF Limited(n, k) = k THEN 1 ELSE 0
      BY <1>1, LimitedGrows
    <2> QED BY <1>2, <2>1, <2>2
  <1>4. r = Newest(Append(v, x), k)
    OBVIOUS
  <1> HIDE DEF n, k, S, d
  <1>5. r \in Seq(S) /\ Len(r) = Len(v) + 1 - d /\ Last(r) = x
    BY <1>1, <1>2, <1>3, <1>4, NewestShifts
  <1> QED BY <1>1, <1>3, <1>5 DEF RatesAgree, S, k

\* The recent events once there is one more scan.
LEMMA EventsGrow ==
    ASSUME NEW q, NEW s, NEW p, OneMore(p, q, s), NEW v,
           Backwards(v, EventsOf(q), Len(q), recent_limit), NEW e, e = s.event, NEW r,
           r = IF Len(<< e >> \o v) > recent_limit THEN Front(<< e >> \o v) ELSE << e >> \o v
    PROVE  Backwards(r, EventsOf(p), Len(p), recent_limit)
  <1> DEFINE n == Len(q)
             k == recent_limit
             x == EventsOf(q)
             y == EventsOf(p)
  <1>1. n \in Nat /\ Len(p) = n + 1 /\ k \in Nat \ {0}
    BY GatewayLimitsAssumption DEF OneMore
  <1>2. (\A i \in 1 .. n : y[i] = x[i]) /\ y[n + 1] = e
    BY <1>1, OneMorePlace DEF OneMore, EventsOf
  <1>3. Backwards(v, x, n, k)
    OBVIOUS
  <1>4. r = IF Len(<< e >> \o v) > k THEN Front(<< e >> \o v) ELSE << e >> \o v
    OBVIOUS
  <1> HIDE DEF n, k, x, y
  <1>5. Backwards(r, y, n + 1, k)
    BY <1>1, <1>2, <1>3, <1>4, RecentAreLast
  <1> QED BY <1>1, <1>5 DEF y, k

\* A scan, whoever asks for it, keeps every part of it.
LEMMA ScanKeeps ==
    ASSUME GatewayIInv, NEW c, NEW source \in {"external", "demo"}, api_scan(c, source)
    PROVE  GatewayIInv'
  <1> DEFINE n == Len(scans)
             e == SecurityEvent(c, source, n + 1)
             s == [call |-> c, event |-> e, at |-> scan_time]
  <1>1. /\ scan_time \in Nat /\ ScansTyped(scans) /\ CountersTyped(totals)
        /\ CountersAgree(totals, n) /\ FieldsTallied(totals, scans)
        /\ WindowAgrees(event_window, scans, scan_time) /\ RatesAgree(recent_eps, scans)
        /\ UpToNow(latencies, n, latency_limit)
        /\ Backwards(recent_threats, EventsOf(scans), n, recent_limit)
    BY DEF GatewayIInv
  <1>2. /\ e.blocked_by_layer = BlockedBy(c) /\ e.severity \in Severities /\ e.source = source
        /\ e.latency = n + 1 /\ e.blocked_by_layer \in 0 .. 5
    BY FirstRefuses DEF SecurityEvent, Severities, _severity_from_risk
  <1>3. /\ scan_time' = scan_time /\ _record_event(e) /\ scans' = Append(scans, s)
    BY DEF api_scan
  <1>4. s.call = c /\ s.event = e /\ s.at = scan_time
    OBVIOUS
  <1> HIDE DEF e, s, n
  <1>5. ScansTyped(scans') /\ OneMore(scans', scans, s)
    BY <1>1, <1>2, <1>3, <1>4, ScansGrow
  <1>6. n \in Nat /\ Len(scans') = n + 1
    BY <1>5 DEF OneMore, n
  <1>7. /\ totals' = Counted(e)
        /\ latencies' = Newest(Append(latencies, n + 1), latency_limit)
        /\ event_window' = Filtered(Append(event_window, scan_time),
                                    Within(Append(event_window, scan_time), scan_time, eps_window))
        /\ recent_eps' = Newest(Append(recent_eps, Len(event_window')), eps_limit)
        /\ recent_threats' = IF Len(<< e >> \o recent_threats) > recent_limit
                             THEN Front(<< e >> \o recent_threats) ELSE << e >> \o recent_threats
    BY <1>2, <1>3 DEF _record_event, Windowed, WithRecent, Within
  <1>8. CountersTyped(totals') /\ CountersAgree(totals', n + 1)
    BY <1>1, <1>2, <1>6, <1>7, CountersGrow
  <1>9. FieldsTallied(totals', scans')
    BY <1>1, <1>4, <1>5, <1>7, TalliesGrow
  <1>10. /\ WindowAgrees(event_window', scans', scan_time)
         /\ Len(event_window') = Cardinality(InLastWindow(scans'))
    <2> DEFINE t == scan_time
               w == event_window
               u == event_window'
               p == scans'
    <2>1. /\ ScansTyped(scans) /\ s.at \in Nat /\ OneMore(p, scans, s) /\ ScansTyped(p)
          /\ t = s.at /\ WindowAgrees(w, scans, t)
          /\ u = Filtered(Append(w, t), Within(Append(w, t), t, eps_window))
      BY <1>1, <1>4, <1>5, <1>7
    <2> HIDE DEF t, w, u, p
    <2>2. WindowAgrees(u, p, t) /\ Len(u) = Cardinality(InLastWindow(p))
      BY <2>1, WindowGrows
    <2> QED BY <2>2 DEF t, w, u, p
  <1>11. Len(event_window') \in Nat
    BY <1>10 DEF WindowAgrees
  <1>12. RatesAgree(recent_eps', scans')
    BY <1>1, <1>5, <1>7, <1>10, <1>11, RatesGrow
  <1>13. UpToNow(latencies', n + 1, latency_limit)
    BY <1>1, <1>6, <1>7, NumbersShift, GatewayLimitsAssumption
  <1>14. Backwards(recent_threats', EventsOf(scans'), Len(scans'), recent_limit)
    BY <1>1, <1>4, <1>5, <1>7, EventsGrow DEF n
  <1> QED BY <1>1, <1>3, <1>5, <1>6, <1>8, <1>9, <1>10, <1>12, <1>13, <1>14 DEF GatewayIInv

\* So does everything else that can happen.
LEMMA GatewayStepKeeps ==
    ASSUME GatewayIInv, GatewayStep
    PROVE  GatewayIInv'
  <1>1. CASE \E c : \E source \in {"external", "demo"} : api_scan(c, source)
    BY <1>1, ScanKeeps
  <1>2. CASE ScanTick
    <2>1. /\ scan_time' = scan_time + 1
          /\ UNCHANGED <<totals, latencies, recent_eps, event_window, recent_threats, scans>>
      BY <1>2 DEF ScanTick
    <2>2. /\ scan_time \in Nat /\ ScansTyped(scans) /\ CountersTyped(totals)
          /\ CountersAgree(totals, Len(scans)) /\ FieldsTallied(totals, scans)
          /\ WindowAgrees(event_window, scans, scan_time) /\ RatesAgree(recent_eps, scans)
          /\ UpToNow(latencies, Len(scans), latency_limit)
          /\ Backwards(recent_threats, EventsOf(scans), Len(scans), recent_limit)
      BY DEF GatewayIInv
    <2>3. WindowAgrees(event_window, scans, scan_time + 1)
      BY <2>2, GatewayLimitsAssumption DEF WindowAgrees, SameSince
    <2>4. scan_time + 1 \in Nat
      BY <2>2
    <2> QED BY <2>1, <2>2, <2>3, <2>4 DEF GatewayIInv
  <1>3. CASE UNCHANGED gatewayVars
    BY <1>3 DEF GatewayIInv, gatewayVars
  <1> QED BY <1>1, <1>2, <1>3 DEF GatewayStep

\* A tally of nothing sums to nothing.
LEMMA NothingTallied ==
    ASSUME NEW D, IsFiniteSet(D)
    PROVE  Zero(D) \in [D -> Nat] /\ SumFunction(Zero(D)) = 0
  <1> DEFINE f == Zero(D)
  <1>1. f \in [D -> Nat] /\ DOMAIN f = D /\ \A x \in D : f[x] = 0
    BY DEF Zero
  <1> HIDE DEF f
  <1>2. SumFunctionOnSet(f, D) = 0
    BY <1>1, SumOfZeros
  <1> QED BY <1>1, <1>2 DEF SumFunction, f

LEMMA GatewayStarts == GatewayInit => GatewayIInv
  <1> SUFFICES ASSUME GatewayInit PROVE GatewayIInv
    OBVIOUS
  <1> DEFINE none == << >>
  <1>1. /\ latencies = none /\ recent_eps = none /\ event_window = none
        /\ recent_threats = none /\ scan_time = 0 /\ scans = none
    BY DEF GatewayInit
  <1>2. Len(none) = 0 /\ none \in Seq(Nat) /\ \A i \in 1 .. Len(none) : FALSE
    OBVIOUS
  <1>3. /\ totals.total_events = 0 /\ totals.blocked = 0 /\ totals.allowed = 0
        /\ totals.by_layer = Zero(1 .. 5) /\ totals.by_severity = Zero(Severities)
        /\ totals.source_counts = Zero({"external", "demo"}) /\ totals.by_category = Zero({})
        /\ totals.by_server = Zero({}) /\ totals.by_tool = Zero({})
    BY DEF GatewayInit
  <1> HIDE DEF none
  <1>4. CountersTyped(totals) /\ CountersAgree(totals, 0)
    <2>1. IsFiniteSet({"external", "demo"})
      BY FewAreFinite, Zenon
    <2>2. IsFiniteSet({"CRITICAL", "HIGH", "MEDIUM", "LOW"})
      BY FewAreFinite, Zenon
    <2>3. IsFiniteSet(1 .. 5)
      <3>1. \A k \in Nat : IsFiniteSet(1 .. k)
        BY FS_Interval
      <3> QED BY <3>1
    <2>4. totals.by_layer \in [1 .. 5 -> Nat] /\ SumFunction(totals.by_layer) = 0
      BY <1>3, <2>3, NothingTallied
    <2>5. totals.by_severity \in [Severities -> Nat] /\ SumFunction(totals.by_severity) = 0
      BY <1>3, <2>2, NothingTallied DEF Severities
    <2>6. /\ totals.source_counts \in [{"external", "demo"} -> Nat]
          /\ SumFunction(totals.source_counts) = 0
      BY <1>3, <2>1, NothingTallied
    <2> QED BY <1>3, <2>4, <2>5, <2>6 DEF CountersTyped, CountersAgree
  <1>5. FieldsTallied(totals, scans)
    <2>1. \A v : TallyTo(v, 0) = Zero({})
      BY DEF TallyTo, Zero
    <2> QED BY <1>1, <1>2, <1>3, <2>1 DEF FieldsTallied
  <1>6. /\ recent_limit \in Nat /\ latency_limit \in Nat /\ eps_limit \in Nat
        /\ recent_limit > 0 /\ latency_limit > 0 /\ eps_limit > 0
    BY GatewayLimitsAssumption
  <1>7. /\ Limited(0, recent_limit) = 0 /\ Limited(0, latency_limit) = 0
        /\ Limited(0, eps_limit) = 0
    BY <1>6 DEF Limited
  <1>8. WindowAgrees(event_window, scans, scan_time)
    <2>1. TimesOf(scans) = none
      BY <1>1, <1>2 DEF TimesOf, none
    <2> QED BY <1>1, <1>2, <2>1 DEF WindowAgrees, SameSince
  <1>9. RatesAgree(recent_eps, scans)
    BY <1>1, <1>2, <1>7 DEF RatesAgree
  <1>10. UpToNow(latencies, 0, latency_limit)
    BY <1>1, <1>2, <1>7 DEF UpToNow
  <1>11. Backwards(recent_threats, EventsOf(scans), 0, recent_limit)
    BY <1>1, <1>2, <1>7 DEF Backwards
  <1>12. ScansTyped(scans)
    BY <1>1, <1>2 DEF ScansTyped
  <1>13. scan_time \in Nat /\ Len(scans) = 0
    BY <1>1, <1>2
  <1> QED BY <1>4, <1>5, <1>8, <1>9, <1>10, <1>11, <1>12, <1>13 DEF GatewayIInv

\* What /api/gateway/stats says follows from it.
LEMMA GatewayTells == GatewayIInv => StatsExact
  <1> SUFFICES ASSUME GatewayIInv PROVE StatsExact
    OBVIOUS
  <1> DEFINE n == Len(scans)
  <1>1. /\ scan_time \in Nat /\ ScansTyped(scans) /\ CountersTyped(totals)
        /\ CountersAgree(totals, n) /\ FieldsTallied(totals, scans)
        /\ WindowAgrees(event_window, scans, scan_time) /\ RatesAgree(recent_eps, scans)
        /\ UpToNow(latencies, n, latency_limit)
        /\ Backwards(recent_threats, EventsOf(scans), n, recent_limit)
    BY DEF GatewayIInv
  <1>2. n \in Nat /\ DOMAIN scans = 1 .. n
    BY <1>1 DEF ScansTyped
  <1> HIDE DEF n
  <1>3. /\ recent_limit \in Nat /\ latency_limit \in Nat /\ eps_limit \in Nat
    BY GatewayLimitsAssumption
  <1>4. ASSUME NEW k \in Nat
        PROVE  /\ Min({n, k}) = Limited(n, k) /\ Limited(n, k) \in Nat /\ Limited(n, k) <= n
               /\ Max({n - k, 0}) = n - Limited(n, k)
    BY <1>2, LimitedIsLeast
  <1>5. /\ totals.by_category = Tally("category") /\ totals.by_server = Tally("server_id")
        /\ totals.by_tool = Tally("tool_name")
    <2>1. ASSUME NEW field PROVE TallyTo(FieldOf(scans, field), n) = Tally(field)
      <3> DEFINE v == FieldOf(scans, field)
      <3>1. \A i \in 1 .. n : v[i] = EventOf(i)[field]
        BY DEF FieldOf, EventOf, n
      <3> HIDE DEF v
      <3> QED BY <1>2, <3>1 DEF Tally, TallyTo, v
    <2> QED BY <1>1, <2>1 DEF FieldsTallied, n
  <1>6. recent_threats = [i \in 1 .. Min({n, recent_limit}) |-> EventOf(n + 1 - i)]
    <2> DEFINE m == Limited(n, recent_limit)
               v == EventsOf(scans)
    <2>1. m \in Nat /\ m <= n /\ Min({n, recent_limit}) = m
      BY <1>3, <1>4
    <2>2. Len(recent_threats) = m /\ \A i \in 1 .. m : recent_threats[i] = v[n + 1 - i]
      BY <1>1 DEF Backwards
    <2>3. PICK S : recent_threats \in Seq(S)
      BY <1>1 DEF Backwards
    <2>4. \A i \in 1 .. n : v[i] = EventOf(i)
      BY DEF EventsOf, EventOf, n
    <2> HIDE DEF m, v
    <2>5. recent_threats = [i \in 1 .. m |-> recent_threats[i]]
      BY <2>2, <2>3
    <2>6. \A i \in 1 .. m : n + 1 - i \in 1 .. n
      BY <1>2, <2>1
    <2>7. \A i \in 1 .. m : recent_threats[i] = EventOf(n + 1 - i)
      BY <2>2, <2>4, <2>6
    <2> QED BY <2>1, <2>5, <2>7
  <1>7. latencies = [i \in 1 .. Min({n, latency_limit}) |-> Max({n - latency_limit, 0}) + i]
    <2> DEFINE m == Limited(n, latency_limit)
    <2>1. /\ m \in Nat /\ Min({n, latency_limit}) = m
          /\ Max({n - latency_limit, 0}) = n - m
      BY <1>3, <1>4
    <2>2. /\ latencies \in Seq(Nat) /\ Len(latencies) = m
          /\ \A i \in 1 .. m : latencies[i] = n - m + i
      BY <1>1 DEF UpToNow
    <2> HIDE DEF m
    <2>3. latencies = [i \in 1 .. m |-> latencies[i]]
      BY <2>2
    <2> QED BY <2>1, <2>2, <2>3
  <1>8. /\ Len(recent_eps) = Min({n, eps_limit})
        /\ n > 0 => Last(recent_eps) =
              Cardinality({i \in 1 .. n : scans[n].at - scans[i].at <= eps_window})
    BY <1>1, <1>3, <1>4 DEF RatesAgree, InLastWindow, n
  <1> QED BY <1>1, <1>5, <1>6, <1>7, <1>8 DEF StatsExact, CountersAgree, n

\* How often a call was run, how many agents hold an answer that lets it run, and how
\* many scans of it allowed it.
Ran(q, c) == Cardinality({i \in 1 .. Len(q) : q[i] = c})
Owes(y, c) == y.pc = "answered" /\ y.call = c /\ BlockedBy(c) = 0
OneOwed(y, c) == IF Owes(y, c) THEN 1 ELSE 0
Owed(w, c) == Cardinality({a \in Agents : Owes(w[a], c)})
LetThrough(q, c) ==
    Cardinality({i \in 1 .. Len(q) : q[i].call = c /\ q[i].event.blocked_by_layer = 0})

Answered(c) == [pc |-> "answered", call |-> c, allowed |-> BlockedBy(c) = 0]
Waits(y) == \/ y = Idle
            \/ \E c \in Guarded : y = [pc |-> "sent", call |-> c] \/ y = Answered(c)

Same(x, y) == IF x = y THEN 1 ELSE 0
IsSequence(q) == \E S : q \in Seq(S)

\* The inductive invariant of the clients: a scan that allowed a call pays for one run
\* of it, or for an answer that nobody has read yet.
ClientIInv ==
    /\ waiting = [a \in Agents |-> waiting[a]] /\ \A a \in Agents : Waits(waiting[a])
    /\ IsSequence(runs)
    /\ \A c \in Guarded : Ran(runs, c) + Owed(waiting, c) <= LetThrough(scans, c)

\* One scan more allows its own call once more, or not.
LEMMA LetThroughGrows ==
    ASSUME NEW p, NEW q, NEW s, OneMore(p, q, s), NEW c
    PROVE  /\ LetThrough(q, c) \in Nat
           /\ LetThrough(p, c) = LetThrough(q, c)
                + IF s.call = c /\ s.event.blocked_by_layer = 0 THEN 1 ELSE 0
  <1> DEFINE n == Len(q)
             P(x) == x.call = c /\ x.event.blocked_by_layer = 0
             A == {i \in 1 .. n : P(q[i])}
             B == {i \in 1 .. n + 1 : P(p[i])}
  <1>1. n \in Nat /\ Len(p) = n + 1 /\ p[n + 1] = s /\ \A i \in 1 .. n : p[i] = q[i]
    BY DEF OneMore
  <1> HIDE DEF P, n
  <1>2. \A i : i \in 1 .. n + 1 <=> i \in 1 .. n \/ i = n + 1
    BY <1>1
  <1>3. A \in SUBSET (1 .. n) /\ B = IF P(s) THEN A \cup {n + 1} ELSE A
    BY <1>1, <1>2
  <1> HIDE DEF A, B
  <1>4. Cardinality(A) \in Nat /\ Cardinality(B) = Cardinality(A) + IF P(s) THEN 1 ELSE 0
    <2>1. Cardinality(A) \in Nat /\ Cardinality(A \cup {n + 1}) = Cardinality(A) + 1
      BY <1>1, <1>3, OneMoreCounted
    <2> QED BY <1>3, <2>1
  <1> QED BY <1>1, <1>4 DEF LetThrough, A, B, P, n

\* One run more.
LEMMA RanGrows ==
    ASSUME NEW q, IsSequence(q), NEW x, NEW c, NEW p, p = Append(q, x)
    PROVE  /\ Ran(q, c) \in Nat /\ IsSequence(p)
           /\ Ran(p, c) = Ran(q, c) + Same(x, c)
  <1> DEFINE n == Len(q)
             A == {i \in 1 .. n : q[i] = c}
             B == {i \in 1 .. n + 1 : p[i] = c}
  <1>9. PICK S : q \in Seq(S)
    BY DEF IsSequence
  <1>1. n \in Nat /\ Len(p) = n + 1 /\ p[n + 1] = x /\ \A i \in 1 .. n : p[i] = q[i]
    BY <1>9, AppendIs
  <1>0. p \in Seq(S \cup {x})
    BY <1>9
  <1> HIDE DEF n
  <1>2. \A i : i \in 1 .. n + 1 <=> i \in 1 .. n \/ i = n + 1
    BY <1>1
  <1>3. A \in SUBSET (1 .. n) /\ B = IF x = c THEN A \cup {n + 1} ELSE A
    BY <1>1, <1>2
  <1> HIDE DEF A, B
  <1>4. Cardinality(A) \in Nat /\ Cardinality(B) = Cardinality(A) + IF x = c THEN 1 ELSE 0
    <2>1. Cardinality(A) \in Nat /\ Cardinality(A \cup {n + 1}) = Cardinality(A) + 1
      BY <1>1, <1>3, OneMoreCounted
    <2> QED BY <1>3, <2>1
  <1>5. Ran(q, c) = Cardinality(A) /\ Ran(p, c) = Cardinality(B)
    BY <1>1 DEF Ran, A, B, n
  <1> QED BY <1>0, <1>4, <1>5 DEF IsSequence, Same

\* One agent's state alone changes what is owed.
LEMMA OwedChanges ==
    ASSUME NEW w, w = [a \in Agents |-> w[a]], NEW a \in Agents, NEW x,
           NEW v, v = [w EXCEPT ![a] = x], NEW c
    PROVE  /\ v = [b \in Agents |-> v[b]] /\ v[a] = x
           /\ \A b \in Agents : b # a => v[b] = w[b]
           /\ Owed(w, c) \in Nat /\ Owed(v, c) \in Nat
           /\ Owed(v, c) + OneOwed(w[a], c)
                = Owed(w, c) + OneOwed(x, c)
  <1> DEFINE A == {b \in Agents : Owes(w[b], c)}
             B == {b \in Agents : Owes(v[b], c)}
             R == {b \in Agents \ {a} : Owes(w[b], c)}
  <1>1. v = [b \in Agents |-> v[b]] /\ v[a] = x /\ \A b \in Agents : b # a => v[b] = w[b]
    OBVIOUS
  <1>2. /\ A = IF Owes(w[a], c) THEN R \cup {a} ELSE R
        /\ B = IF Owes(x, c) THEN R \cup {a} ELSE R
        /\ R \subseteq Agents /\ a \notin R
    BY <1>1
  <1> HIDE DEF A, B, R
  <1>3. IsFiniteSet(R)
    BY <1>2, FS_Subset, AgentsAssumption
  <1>4. Cardinality(R) \in Nat /\ Cardinality(R \cup {a}) = Cardinality(R) + 1
    BY <1>2, <1>3, FS_CardinalityType, FS_AddElement
  <1>5. /\ Cardinality(A) = Cardinality(R) + OneOwed(w[a], c)
        /\ Cardinality(B) = Cardinality(R) + OneOwed(x, c)
    BY <1>2, <1>4 DEF OneOwed
  <1>6. Owed(w, c) = Cardinality(A) /\ Owed(v, c) = Cardinality(B)
    BY DEF Owed, A, B
  <1> QED BY <1>1, <1>4, <1>5, <1>6 DEF OneOwed

\* Of finitely many agents, so many hold an answer.
LEMMA OwedIsNat == \A w, c : Owed(w, c) \in Nat
  <1> SUFFICES ASSUME NEW w, NEW c PROVE Owed(w, c) \in Nat
    OBVIOUS
  <1>1. {a \in Agents : Owes(w[a], c)} \subseteq Agents
    OBVIOUS
  <1> QED BY <1>1, FS_Subset, FS_CardinalityType, AgentsAssumption DEF Owed

\* A scan that is asked for is one more scan, with the verdict of its call.
LEMMA ScanRecorded ==
    ASSUME GatewayIInv, NEW c, NEW source, api_scan(c, source), NEW d
    PROVE  /\ LetThrough(scans, d) \in Nat
           /\ LetThrough(scans', d) = LetThrough(scans, d)
                + IF c = d /\ BlockedBy(c) = 0 THEN 1 ELSE 0
  <1> DEFINE e == SecurityEvent(c, source, Len(scans) + 1)
             s == [call |-> c, event |-> e, at |-> scan_time]
  <1>1. e.blocked_by_layer = BlockedBy(c)
    BY DEF SecurityEvent
  <1>2. scans' = Append(scans, s)
    BY DEF api_scan
  <1>3. s.call = c /\ s.event = e /\ s.at = scan_time
    OBVIOUS
  <1> HIDE DEF e, s
  <1>4. OneMore(scans', scans, s)
    BY <1>1, <1>2, <1>3, ScansGrow DEF GatewayIInv
  <1> QED BY <1>1, <1>3, <1>4, LetThroughGrows

\* Scans that allowed a call are counted.
LEMMA LetThroughNat == \A d : GatewayIInv => LetThrough(scans, d) \in Nat
  <1> SUFFICES ASSUME NEW d, GatewayIInv PROVE LetThrough(scans, d) \in Nat
    OBVIOUS
  <1>1. Len(scans) \in Nat
    BY DEF GatewayIInv, ScansTyped
  <1>2. {i \in 1 .. Len(scans) : scans[i].call = d /\ scans[i].event.blocked_by_layer = 0}
          \in SUBSET (1 .. Len(scans))
    OBVIOUS
  <1> QED BY <1>1, <1>2, OneMoreCounted DEF LetThrough

\* No step of the gateway takes a scan back.
LEMMA ScansOnlyGrow ==
    ASSUME GatewayIInv, GatewayStep, NEW d
    PROVE  /\ LetThrough(scans, d) \in Nat /\ LetThrough(scans', d) \in Nat
           /\ LetThrough(scans', d) >= LetThrough(scans, d)
  <1>1. CASE \E c : \E source \in {"external", "demo"} : api_scan(c, source)
    BY <1>1, ScanRecorded
  <1>2. CASE UNCHANGED scans
    BY <1>2, LetThroughNat
  <1> QED BY <1>1, <1>2 DEF GatewayStep, ScanTick, gatewayVars

\* A request, a scan for it, a lost answer, a denial and a run keep it, and so do the
\* gateway's own steps.
LEMMA ClientStepKeeps ==
    ASSUME GatewayIInv, ClientIInv, ClientNext \/ (UNCHANGED clientVars /\ GatewayStep)
    PROVE  ClientIInv' /\ GatewayStep
  <1>0. /\ waiting = [a \in Agents |-> waiting[a]] /\ \A a \in Agents : Waits(waiting[a])
        /\ \A c \in Guarded : Ran(runs, c) + Owed(waiting, c) <= LetThrough(scans, c)
    BY DEF ClientIInv
  <1>1. IsSequence(runs)
    BY DEF ClientIInv
  <1>2. \A c : Ran(runs, c) \in Nat
    BY <1>1, RanGrows
  <1>3. \A c : \A d : Owes(Idle, c) = FALSE /\ Owes([pc |-> "sent", call |-> d], c) = FALSE
                     /\ (Owes(Answered(d), c) <=> d = c /\ BlockedBy(c) = 0)
    BY DEF Owes, Idle, Answered
  <1>11. \A c, d, y : /\ ~Owes(y, c) => OneOwed(y, c) = 0
                     /\ OneOwed(Idle, c) = 0 /\ OneOwed([pc |-> "sent", call |-> d], c) = 0
                     /\ OneOwed(Answered(d), c) = IF d = c /\ BlockedBy(d) = 0 THEN 1 ELSE 0
    BY <1>3 DEF OneOwed
  <1>4. ASSUME NEW a \in Agents, NEW x, Waits(x), waiting' = [waiting EXCEPT ![a] = x]
        PROVE  /\ waiting' = [b \in Agents |-> waiting'[b]]
               /\ \A b \in Agents : Waits(waiting'[b])
               /\ \A c : /\ Owed(waiting, c) \in Nat /\ Owed(waiting', c) \in Nat
                        /\ Owed(waiting', c) + OneOwed(waiting[a], c)
                             = Owed(waiting, c) + OneOwed(x, c)
    <2>1. /\ waiting' = [b \in Agents |-> waiting'[b]] /\ waiting'[a] = x
          /\ \A b \in Agents : b # a => waiting'[b] = waiting[b]
      BY <1>0, <1>4, OwedChanges
    <2>2. \A b \in Agents : Waits(waiting'[b])
      BY <1>0, <1>4, <2>1
    <2>3. ASSUME NEW c
          PROVE  /\ Owed(waiting, c) \in Nat /\ Owed(waiting', c) \in Nat
                 /\ Owed(waiting', c) + OneOwed(waiting[a], c)
                      = Owed(waiting, c) + OneOwed(x, c)
      BY <1>0, <1>4, OwedChanges
    <2> QED BY <2>1, <2>2, <2>3
  <1>5. CASE UNCHANGED clientVars /\ GatewayStep
    <2>1. waiting' = waiting /\ runs' = runs
      BY <1>5 DEF clientVars
    <2>2. ASSUME NEW c \in Guarded
          PROVE  Ran(runs, c) + Owed(waiting, c) <= LetThrough(scans', c)
      <3>1. /\ LetThrough(scans, c) \in Nat /\ LetThrough(scans', c) \in Nat
            /\ LetThrough(scans', c) >= LetThrough(scans, c)
        BY <1>5, ScansOnlyGrow
      <3>2. Owed(waiting, c) \in Nat
        BY OwedIsNat
      <3>3. Ran(runs, c) \in Nat
        BY <1>2
      <3>4. Ran(runs, c) + Owed(waiting, c) <= LetThrough(scans, c)
        BY <1>0
      <3> QED BY <3>1, <3>2, <3>3, <3>4
    <2> QED BY <1>0, <1>1, <1>5, <2>1, <2>2 DEF ClientIInv
  <1>6. CASE \E a \in Agents : \E c \in Guarded : guard(a, c)
    <2>1. PICK a \in Agents, c \in Guarded : guard(a, c)
      BY <1>6
    <2> DEFINE x == [pc |-> "sent", call |-> c]
    <2>2. /\ waiting[a] = Idle /\ waiting' = [waiting EXCEPT ![a] = x] /\ runs' = runs
          /\ UNCHANGED gatewayVars /\ scans' = scans
      BY <2>1 DEF guard, gatewayVars
    <2>3. Waits(x) /\ \A d : OneOwed(x, d) = 0 /\ OneOwed(waiting[a], d) = 0
      BY <1>11, <2>2 DEF Waits
    <2> HIDE DEF x
    <2>4. /\ waiting' = [b \in Agents |-> waiting'[b]] /\ \A b \in Agents : Waits(waiting'[b])
          /\ \A d : Owed(waiting', d) = Owed(waiting, d)
      <3>1. /\ waiting' = [b \in Agents |-> waiting'[b]] /\ \A b \in Agents : Waits(waiting'[b])
            /\ \A d : /\ Owed(waiting, d) \in Nat /\ Owed(waiting', d) \in Nat
                     /\ Owed(waiting', d) + OneOwed(waiting[a], d) = Owed(waiting, d) + OneOwed(x, d)
        BY <1>4, <2>2, <2>3
      <3> QED BY <2>3, <3>1
    <2> QED BY <1>0, <1>1, <2>2, <2>4 DEF ClientIInv, GatewayStep
  <1>7. CASE \E a \in Agents : handle(a)
    <2>1. PICK a \in Agents : handle(a)
      BY <1>7
    <2> DEFINE c == waiting[a].call
    <2>2. /\ waiting[a].pc = "sent" /\ api_scan(c, "external") /\ runs' = runs
          /\ waiting' = [waiting EXCEPT ![a] = Answered(c)]
      BY <1>0, <2>1 DEF handle, Answered
    <2>3. c \in Guarded /\ waiting[a] = [pc |-> "sent", call |-> c]
      BY <1>0, <2>2 DEF Waits, Idle, Answered
    <2> HIDE DEF c
    <2>4. /\ Waits(Answered(c))
          /\ \A d : /\ OneOwed(waiting[a], d) = 0
                   /\ OneOwed(Answered(c), d) = IF c = d /\ BlockedBy(c) = 0 THEN 1 ELSE 0
      BY <1>11, <2>3 DEF Waits
    <2>5. /\ waiting' = [b \in Agents |-> waiting'[b]] /\ \A b \in Agents : Waits(waiting'[b])
          /\ \A d : /\ Owed(waiting, d) \in Nat
                   /\ Owed(waiting', d) = Owed(waiting, d)
                        + IF c = d /\ BlockedBy(c) = 0 THEN 1 ELSE 0
      <3>1. /\ waiting' = [b \in Agents |-> waiting'[b]] /\ \A b \in Agents : Waits(waiting'[b])
            /\ \A d : /\ Owed(waiting, d) \in Nat /\ Owed(waiting', d) \in Nat
                     /\ Owed(waiting', d) + OneOwed(waiting[a], d)
                          = Owed(waiting, d) + OneOwed(Answered(c), d)
        BY <1>4, <2>2, <2>4
      <3> QED BY <2>4, <3>1
    <2>6. \A d : /\ LetThrough(scans, d) \in Nat
                /\ LetThrough(scans', d) = LetThrough(scans, d)
                     + IF c = d /\ BlockedBy(c) = 0 THEN 1 ELSE 0
      BY <2>2, ScanRecorded
    <2>7. \A d \in Guarded : Ran(runs, d) + Owed(waiting', d) <= LetThrough(scans', d)
      BY <1>0, <1>2, <2>5, <2>6
    <2> QED BY <1>1, <2>2, <2>5, <2>7 DEF ClientIInv, GatewayStep
  <1>8. CASE \E c \in abandoned : handle_late(c)
    <2>1. PICK c : handle_late(c)
      BY <1>8
    <2>2. GatewayStep /\ UNCHANGED <<waiting, runs>>
      BY <2>1 DEF handle_late, GatewayStep
    <2>3. ASSUME NEW d \in Guarded
          PROVE  Ran(runs, d) + Owed(waiting, d) <= LetThrough(scans', d)
      <3>1. /\ LetThrough(scans, d) \in Nat /\ LetThrough(scans', d) \in Nat
            /\ LetThrough(scans', d) >= LetThrough(scans, d)
        BY <2>2, ScansOnlyGrow
      <3>2. Owed(waiting, d) \in Nat
        BY OwedIsNat
      <3>3. Ran(runs, d) \in Nat
        BY <1>2
      <3>4. Ran(runs, d) + Owed(waiting, d) <= LetThrough(scans, d)
        BY <1>0
      <3> QED BY <3>1, <3>2, <3>3, <3>4
    <2> QED BY <1>0, <1>1, <2>2, <2>3 DEF ClientIInv
  <1>9. CASE \E a \in Agents : scan_returns(a)
    <2>1. PICK a \in Agents : scan_returns(a)
      BY <1>9
    <2>2. PICK c \in Guarded : waiting[a] = Answered(c)
      BY <1>0, <2>1 DEF scan_returns, Waits, Idle
    <2>3. /\ waiting' = [waiting EXCEPT ![a] = Idle] /\ UNCHANGED gatewayVars /\ scans' = scans
          /\ runs' = runs \o (IF waiting[a].allowed THEN << waiting[a].call >> ELSE << >>)
      BY <2>1 DEF scan_returns, gatewayVars
    <2>8. waiting[a].call = c /\ (waiting[a].allowed <=> BlockedBy(c) = 0)
      <3>1. waiting[a].call = c
        BY <2>2 DEF Answered
      <3>2. waiting[a].allowed = (BlockedBy(c) = 0)
        BY <2>2 DEF Answered
      <3> QED BY <3>1, <3>2
    <2>4. /\ Waits(Idle)
          /\ \A d : /\ OneOwed(Idle, d) = 0
                   /\ OneOwed(waiting[a], d) = IF c = d /\ BlockedBy(c) = 0 THEN 1 ELSE 0
      BY <1>11, <2>2 DEF Waits
    <2>5. /\ waiting' = [b \in Agents |-> waiting'[b]] /\ \A b \in Agents : Waits(waiting'[b])
          /\ \A d : /\ Owed(waiting, d) \in Nat /\ Owed(waiting', d) \in Nat
                   /\ Owed(waiting', d) + (IF c = d /\ BlockedBy(c) = 0 THEN 1 ELSE 0)
                        = Owed(waiting, d)
      <3>1. /\ waiting' = [b \in Agents |-> waiting'[b]] /\ \A b \in Agents : Waits(waiting'[b])
            /\ \A d : /\ Owed(waiting, d) \in Nat /\ Owed(waiting', d) \in Nat
                     /\ Owed(waiting', d) + OneOwed(waiting[a], d)
                          = Owed(waiting, d) + OneOwed(Idle, d)
        BY <1>4, <2>3, <2>4
      <3> QED BY <2>4, <3>1
    <2>6. /\ IsSequence(runs')
          /\ \A d : Ran(runs', d) = Ran(runs, d) + IF c = d /\ BlockedBy(c) = 0 THEN 1 ELSE 0
      <3>1. CASE BlockedBy(c) = 0
        <4>1. runs' = runs \o << c >>
          BY <2>3, <2>8, <3>1
        <4>2. runs' = Append(runs, c)
          BY <1>1, <4>1 DEF IsSequence
        <4>3. \A d : Ran(runs', d) = Ran(runs, d) + IF c = d THEN 1 ELSE 0
          <5> SUFFICES ASSUME NEW d PROVE Ran(runs', d) = Ran(runs, d) + IF c = d THEN 1 ELSE 0
            OBVIOUS
          <5> DEFINE p == runs'
          <5>1. p = Append(runs, c)
            BY <4>2
          <5> HIDE DEF p
          <5>2. Ran(p, d) = Ran(runs, d) + Same(c, d)
            BY <1>1, <5>1, RanGrows
          <5> QED BY <5>2 DEF p, Same
        <4>4. IsSequence(runs')
          BY <1>1, <4>2, RanGrows
        <4> QED BY <3>1, <4>3, <4>4
      <3>2. CASE BlockedBy(c) # 0
        <4>1. runs' = runs \o << >>
          BY <2>3, <2>8, <3>2
        <4>2. runs' = runs
          BY <1>1, <4>1 DEF IsSequence
        <4> QED BY <1>1, <1>2, <3>2, <4>2
      <3> QED BY <3>1, <3>2
    <2>7. ASSUME NEW d \in Guarded
          PROVE  Ran(runs', d) + Owed(waiting', d) <= LetThrough(scans', d)
      <3>1. Ran(runs', d) + Owed(waiting', d) = Ran(runs, d) + Owed(waiting, d)
        BY <1>2, <2>5, <2>6
      <3> QED BY <1>0, <2>3, <3>1
    <2> QED BY <2>3, <2>5, <2>6, <2>7 DEF ClientIInv, GatewayStep
  <1>10. CASE \E a \in Agents : scan_raises(a)
    <2>1. PICK a \in Agents : scan_raises(a)
      BY <1>10
    <2>2. /\ waiting' = [waiting EXCEPT ![a] = Idle] /\ UNCHANGED gatewayVars /\ scans' = scans
          /\ runs' = runs
      BY <2>1 DEF scan_raises, gatewayVars
    <2>3. Waits(Idle) /\ \A d : OneOwed(Idle, d) = 0 /\ OneOwed(waiting[a], d) \in {0, 1}
      BY <1>11 DEF Waits, OneOwed
    <2>4. /\ waiting' = [b \in Agents |-> waiting'[b]] /\ \A b \in Agents : Waits(waiting'[b])
          /\ \A d : /\ Owed(waiting, d) \in Nat /\ Owed(waiting', d) \in Nat
                   /\ Owed(waiting', d) <= Owed(waiting, d)
      <3>1. /\ waiting' = [b \in Agents |-> waiting'[b]] /\ \A b \in Agents : Waits(waiting'[b])
            /\ \A d : /\ Owed(waiting, d) \in Nat /\ Owed(waiting', d) \in Nat
                     /\ Owed(waiting', d) + OneOwed(waiting[a], d)
                          = Owed(waiting, d) + OneOwed(Idle, d)
        BY <1>4, <2>2, <2>3
      <3> QED BY <2>3, <3>1
    <2>5. ASSUME NEW d \in Guarded
          PROVE  Ran(runs, d) + Owed(waiting', d) <= LetThrough(scans, d)
      <3>1. LetThrough(scans, d) \in Nat
        BY LetThroughNat
      <3> QED BY <1>0, <1>2, <2>4, <3>1
    <2> QED BY <1>1, <2>2, <2>4, <2>5 DEF ClientIInv, GatewayStep
  <1> QED BY <1>5, <1>6, <1>7, <1>8, <1>9, <1>10 DEF ClientNext

LEMMA ClientStarts == GatewayInit /\ ClientInit => ClientIInv
  <1> SUFFICES ASSUME GatewayInit, ClientInit PROVE ClientIInv
    OBVIOUS
  <1>1. scans = << >> /\ runs = << >> /\ waiting = [a \in Agents |-> Idle]
    BY DEF GatewayInit, ClientInit
  <1>2. \A c : Ran(runs, c) = 0 /\ LetThrough(scans, c) = 0
    BY <1>1, FS_EmptySet DEF Ran, LetThrough
  <1>3. \A c : Owed(waiting, c) = 0
    BY <1>1, FS_EmptySet DEF Owed, Owes, Idle
  <1> QED BY <1>1, <1>2, <1>3 DEF ClientIInv, Waits, IsSequence

\* Hence no guarded tool runs oftener than scans allowed it.
LEMMA ClientHolds == GatewayIInv /\ ClientIInv => GuardedRuns
  <1> SUFFICES ASSUME GatewayIInv, ClientIInv PROVE GuardedRuns
    OBVIOUS
  <1>1. DOMAIN scans = 1 .. Len(scans) /\ DOMAIN runs = 1 .. Len(runs)
    BY DEF GatewayIInv, ScansTyped, ClientIInv, IsSequence
  <1>2. ASSUME NEW c \in Guarded PROVE Ran(runs, c) <= LetThrough(scans, c)
    <2>1. /\ Ran(runs, c) \in Nat /\ Owed(waiting, c) \in Nat /\ LetThrough(scans, c) \in Nat
      BY RanGrows, OwedIsNat, LetThroughNat DEF ClientIInv
    <2>2. Ran(runs, c) + Owed(waiting, c) <= LetThrough(scans, c)
      BY DEF ClientIInv
    <2> QED BY <2>1, <2>2
  <1> QED BY <1>1, <1>2 DEF GuardedRuns, Ran, LetThrough, EventOf

\* In a behaviour of the services the gateway moves for a scan, a tick or a client only.
LEMMA GatewayBehaves ==
    ASSUME [ServicesNext]_Vars
    PROVE  ClientNext \/ (UNCHANGED clientVars /\ GatewayStep)
  <1>1. CASE UNCHANGED Vars
    BY <1>1 DEF Vars, GatewayStep
  <1>2. CASE ServicesNext
    <2>1. part \in Parts /\ Still(Parts \ {part})
      BY <1>2 DEF ServicesNext, Parts
    <2>2. /\ part # "client" => UNCHANGED clientVars
          /\ part \notin {"gateway", "client"} => UNCHANGED gatewayVars
      BY <2>1 DEF Still, Parts
    <2>3. part = "gateway" => GatewayStep
      <3>1. part = "gateway" => GatewayNext
        BY <1>2 DEF ServicesNext
      <3>2. GatewayNext => GatewayStep
        BY DEF GatewayNext, workload_agent, GatewayStep
      <3> QED BY <3>1, <3>2
    <2>4. part = "client" => ClientNext
      BY <1>2 DEF ServicesNext
    <2> QED BY <2>2, <2>3, <2>4 DEF GatewayStep
  <1> QED BY <1>1, <1>2

\* The deployed gateway is what it says: its statistics are those of its scans, and a
\* tool behind guard() is run no oftener than scans allowed its call, whatever requests
\* and answers are lost or late (realtime.py:646-689, client.py:77-100).
THEOREM GatewayIsTrue == ServicesSpec => []DeployedInv
  <1>1. ServicesInit => GatewayIInv /\ ClientIInv
    BY GatewayStarts, ClientStarts DEF ServicesInit
  <1>2. GatewayIInv /\ ClientIInv /\ [ServicesNext]_Vars => GatewayIInv' /\ ClientIInv'
    BY GatewayBehaves, ClientStepKeeps, GatewayStepKeeps
  <1>3. GatewayIInv /\ ClientIInv => DeployedInv
    BY GatewayTells, ClientHolds DEF DeployedInv
  <1> QED BY <1>1, <1>2, <1>3, PTL DEF ServicesSpec

-----------------------------------------------------------------------------
(* The red team. *)

\* The layer that an attack is put down to.
AskedOf(a) == IF a.tool_call = NoCall THEN 0 ELSE BlockedBy(a.tool_call)
LayerFor(a) == IF AskedOf(a) # 0 THEN AskedOf(a) ELSE IF a.kernel_events = << >> THEN 0 ELSE 3

\* The events the kernel monitor is fed for the attacks.
WatchedEvents ==
    {_smtp("postmark"), _smtp("unknown"),
     Syscall("unknown", "socket_send", "smtp.giftshop.club", ""),
     Syscall("unknown", "process_spawn", "", "")}

\* An attack is caught by some layer exactly when one is to catch it.
AsExpected(a) ==
    /\ LayerFor(a) # 0 <=> a.expected_layers # {}
    /\ a.kernel_events \in Seq(WatchedEvents)

\* The marks that refuse a call of any tool, and those that refuse one of some.
AnyToolMarks == {"internal_address", "traversal", "shell_command", "pickled", "injection", "root"}
MarksOf(tool) == CASE tool = "web" -> {"large", "credential"}
                   [] tool = "email" -> {"attacker_address", "credential"}
                   [] tool = "shell" -> {"env_secret"}
                   [] tool = "db" -> {"pii_column"}
                   [] tool = "package" -> {"untrusted_source"}
                   [] tool = "dns" -> {"tunnel_domain"}
                   [] OTHER -> {}

\* Such a mark is found by a rule of the gateway.
LEMMA MarksRefuse ==
    ASSUME NEW c, c.tool \in GatewayTools,
           NEW m \in AnyToolMarks \cup MarksOf(c.tool), m \in c.marks
    PROVE  BlockedBy(c) # 0
  <1> DEFINE Looked(r) == c.tool \in r.tools /\ r.mark = m
  <1>1. \E r \in gateway_rules : Looked(r)
    <2>1. /\ {_is_ssrf, _is_path_traversal, _is_command_injection, _is_deserialization_attack,
              _is_prompt_injection, _is_privilege_escalation, _has_credential_patterns,
              _is_large_payload, _is_email_to_attacker, _is_env_harvest, _is_pii_query,
              _is_supply_chain_attack, _is_dns_tunneling} \subseteq gateway_rules
      BY DEF gateway_rules
    <2>2. CASE m \in AnyToolMarks
      <3>1. \/ Looked(_is_ssrf) \/ Looked(_is_path_traversal) \/ Looked(_is_command_injection)
            \/ Looked(_is_deserialization_attack) \/ Looked(_is_prompt_injection)
            \/ Looked(_is_privilege_escalation)
        BY <2>2 DEF AnyToolMarks, _is_ssrf, _is_path_traversal, _is_command_injection,
           _is_deserialization_attack, _is_prompt_injection, _is_privilege_escalation, GatewayRule
      <3> QED BY <2>1, <3>1
    <2>3. CASE m \in MarksOf(c.tool)
      <3>1. \/ Looked(_has_credential_patterns) \/ Looked(_is_large_payload)
            \/ Looked(_is_email_to_attacker) \/ Looked(_is_env_harvest) \/ Looked(_is_pii_query)
            \/ Looked(_is_supply_chain_attack) \/ Looked(_is_dns_tunneling)
        BY <2>3 DEF MarksOf, GatewayTools, _has_credential_patterns, _is_large_payload,
           _is_email_to_attacker, _is_env_harvest, _is_pii_query, _is_supply_chain_attack,
           _is_dns_tunneling, GatewayRule
      <3> QED BY <2>1, <3>1
    <2> QED BY <2>2, <2>3
  <1> QED BY <1>1, RuleRefuses

\* A synonym of BCC and an address in an encoding are dangerous.
LEMMA AnalyzerRefuses ==
    ASSUME NEW c, "blind_copy" \in c.keys \/ "encoded_email" \in c.marks
    PROVE  BlockedBy(c) # 0
  <1> DEFINE f == SemanticFinding("hidden_recipient", 95, 95)
             g == SemanticFinding("encoded_email", 90, 90)
  <1>1. /\ f.confidence = 95 /\ f.severity = 95 /\ g.confidence = 90 /\ g.severity = 90
    BY DEF SemanticFinding
  <1>2. semantic_sensitivity \in 0 .. 90 /\ "blind_copy" \in Synonyms
    BY CatalogAssumption
  <1>3. f \in _check_synonyms(c.keys) \/ g \in _check_encoding(c.marks)
    BY <1>2 DEF _check_synonyms, _check_encoding
  <1>4. f.confidence >= semantic_sensitivity /\ g.confidence >= semantic_sensitivity
        /\ f.severity >= 70 /\ g.severity >= 70
    BY <1>1, <1>2
  <1> HIDE DEF f, g
  <1>5. f \in Significant(c.keys, c.marks) \/ g \in Significant(c.keys, c.marks)
    BY <1>3, <1>4 DEF Significant
  <1>6. IsDangerous(Significant(c.keys, c.marks))
    BY <1>4, <1>5 DEF IsDangerous
  <1>7. 4 \in Refusing(c)
    BY <1>6 DEF Refusing
  <1> QED BY <1>7, FirstRefuses

\* A destination off the allow-list is refused.
LEMMA EgressRefuses ==
    ASSUME NEW c, c.dest # NoDestination, c.dest \notin gateway_domains
    PROVE  BlockedBy(c) # 0
  <1>1. 5 \in Refusing(c)
    BY DEF Refusing, EgressLets
  <1> QED BY <1>1, FirstRefuses

\* A server that is not registered is refused.
LEMMA RogueRefuses == ASSUME NEW c, c.server = "rogue" PROVE BlockedBy(c) # 0
  <1>1. 1 \in Refusing(c)
    BY RogueAssumption DEF Refusing, _is_rogue_server
  <1> QED BY <1>1, FirstRefuses

\* A call of a known server with nothing in it passes.
LEMMA HarmlessPasses ==
    ASSUME NEW c, c.server \in known_gateway_servers, c.keys = {"text"}, c.marks = {},
           c.dest = NoDestination
    PROVE  BlockedBy(c) = 0
  <1>1. Significant(c.keys, c.marks) = {}
    <2>1. "text" \notin Synonyms \cup DOMAIN Resembles \cup ExtraWords
      BY CatalogAssumption
    <2>2. /\ _check_synonyms(c.keys) = {} /\ _check_exfil(c.marks) = {}
          /\ _check_field_semantics(c.keys) = {} /\ _check_encoding(c.marks) = {}
          /\ _check_multi_field(c.keys) = {}
      BY <2>1 DEF _check_synonyms, _check_exfil, _check_field_semantics, _check_encoding,
                  _check_multi_field
    <2> QED BY <2>2 DEF Significant
  <1>2. ~_is_rogue_server(c) /\ Matched(c) = {} /\ ~IsDangerous(Significant(c.keys, c.marks))
    BY <1>1 DEF _is_rogue_server, Matched, IsDangerous
  <1>3. Refusing(c) = {}
    <2> SUFFICES ASSUME NEW l \in Refusing(c) PROVE FALSE
      OBVIOUS
    <2>1. l \in 1 .. 5
      BY DEF Refusing
    <2>2. l = 1 \/ l = 2 \/ l = 3 \/ l = 4 \/ l = 5
      BY <2>1
    <2> QED BY <1>2, <2>2 DEF Refusing
  <1> QED BY <1>3, FirstRefuses

\* Why an attack is caught: a mark, a word for the analyzer, a place to go to, a server,
\* or an event that the kernel monitor sees; and what is not expected to be is harmless.
Marked(c, m) == c.tool \in GatewayTools /\ m \in AnyToolMarks \cup MarksOf(c.tool) /\ m \in c.marks
Given(c) == \/ \E m \in c.marks : Marked(c, m)
            \/ "blind_copy" \in c.keys \/ "encoded_email" \in c.marks
            \/ c.dest # NoDestination /\ c.dest \notin gateway_domains
            \/ c.server = "rogue"
NothingIn(c) == /\ c.server \in known_gateway_servers /\ c.keys = {"text"} /\ c.marks = {}
                /\ c.dest = NoDestination
Accounted(a) ==
    /\ a.kernel_events \in Seq(WatchedEvents)
    /\ \/ /\ a.expected_layers # {}
          /\ a.kernel_events # << >> \/ (a.tool_call # NoCall /\ Given(a.tool_call))
       \/ a.expected_layers = {} /\ a.kernel_events = << >> /\ NothingIn(a.tool_call)

\* Either way the simulator puts the attack down as the catalogue expects.
LEMMA AccountedFor == ASSUME NEW a, Accounted(a) PROVE AsExpected(a)
  <1>1. CASE a.expected_layers # {} /\ (a.kernel_events # << >>
                                        \/ (a.tool_call # NoCall /\ Given(a.tool_call)))
    <2>1. Given(a.tool_call) => BlockedBy(a.tool_call) # 0
      BY MarksRefuse, AnalyzerRefuses, EgressRefuses, RogueRefuses DEF Given, Marked
    <2> QED BY <1>1, <2>1 DEF Accounted, AsExpected, LayerFor, AskedOf
  <1>2. CASE a.expected_layers = {} /\ a.kernel_events = << >> /\ NothingIn(a.tool_call)
    <2>1. BlockedBy(a.tool_call) = 0
      BY <1>2, HarmlessPasses DEF NothingIn
    <2> QED BY <1>2, <2>1 DEF Accounted, AsExpected, LayerFor, AskedOf
  <1> QED BY <1>1, <1>2 DEF Accounted

\* A call with a mark that a rule looks for in calls of its tool.
LEMMA MarkedCall ==
    ASSUME NEW tool \in GatewayTools, NEW server, NEW keys, NEW marks, NEW category, NEW dest,
           NEW layers, layers # {}, NEW m \in marks, m \in AnyToolMarks \cup MarksOf(tool)
    PROVE  /\ Accounted(Attack(category, ToolCall(tool, server, keys, marks), << >>, layers))
           /\ Accounted(Attack(category, At(ToolCall(tool, server, keys, marks), dest),
                               << >>, layers))
  <1> DEFINE c == ToolCall(tool, server, keys, marks)
             d == At(ToolCall(tool, server, keys, marks), dest)
             a == Attack(category, c, << >>, layers)
             b == Attack(category, d, << >>, layers)
  <1>1. c.tool = tool /\ c.marks = marks /\ d.tool = tool /\ d.marks = marks
    BY DEF ToolCall, At
  <1>2. tool # "none" /\ NoCall.tool = "none"
    BY DEF GatewayTools, NoCall
  <1> HIDE DEF c, d
  <1>3. Given(c) /\ Given(d) /\ c # NoCall /\ d # NoCall
    BY <1>1, <1>2 DEF Given, Marked
  <1>4. /\ a.kernel_events = << >> /\ a.tool_call = c /\ a.expected_layers = layers
        /\ b.kernel_events = << >> /\ b.tool_call = d /\ b.expected_layers = layers
    BY DEF Attack
  <1>5. << >> \in Seq(WatchedEvents)
    OBVIOUS
  <1> HIDE DEF a, b
  <1>6. Accounted(a) /\ Accounted(b)
    BY <1>3, <1>4, <1>5 DEF Accounted
  <1> QED BY <1>6 DEF a, b, c, d

\* A call that the analyzer, the egress list or the registry refuses.
LEMMA OtherCall ==
    ASSUME NEW tool \in GatewayTools, NEW server, NEW keys, NEW marks, NEW category, NEW dest,
           NEW layers, layers # {},
           \/ "blind_copy" \in keys \/ "encoded_email" \in marks \/ server = "rogue"
           \/ dest # NoDestination /\ dest \notin gateway_domains
    PROVE  /\ dest = NoDestination =>
                Accounted(Attack(category, ToolCall(tool, server, keys, marks), << >>, layers))
           /\ Accounted(Attack(category, At(ToolCall(tool, server, keys, marks), dest),
                               << >>, layers))
  <1> DEFINE c == ToolCall(tool, server, keys, marks)
             d == At(ToolCall(tool, server, keys, marks), dest)
             b == Attack(category, d, << >>, layers)
  <1>1. d.tool = tool /\ d.marks = marks /\ d.keys = keys /\ d.server = server /\ d.dest = dest
    BY DEF ToolCall, At
  <1>2. tool # "none" /\ NoCall.tool = "none"
    BY DEF GatewayTools, NoCall
  <1>3. dest = NoDestination => c = d
    BY DEF ToolCall, At
  <1> HIDE DEF c, d
  <1>4. Given(d) /\ d # NoCall
    BY <1>1, <1>2 DEF Given
  <1>5. b.kernel_events = << >> /\ b.tool_call = d /\ b.expected_layers = layers
    BY DEF Attack
  <1>6. << >> \in Seq(WatchedEvents)
    OBVIOUS
  <1> HIDE DEF b
  <1>7. Accounted(b)
    BY <1>4, <1>5, <1>6 DEF Accounted
  <1> QED BY <1>3, <1>7 DEF b, c, d

\* A call that no layer is expected to catch.
LEMMA SilentCall ==
    ASSUME NEW server \in known_gateway_servers, NEW category
    PROVE  Accounted(Attack(category, ToolCall("other", server, {"text"}, {}), << >>, {}))
  <1> DEFINE c == ToolCall("other", server, {"text"}, {})
             a == Attack(category, c, << >>, {})
  <1>1. c.server = server /\ c.keys = {"text"} /\ c.marks = {} /\ c.dest = NoDestination
    BY DEF ToolCall
  <1> HIDE DEF c
  <1>2. a.kernel_events = << >> /\ a.tool_call = c /\ a.expected_layers = {}
    BY DEF Attack
  <1>3. << >> \in Seq(WatchedEvents)
    OBVIOUS
  <1> HIDE DEF a
  <1>4. Accounted(a)
    BY <1>1, <1>2, <1>3 DEF Accounted, NothingIn
  <1> QED BY <1>4 DEF a, c

\* An attack that the kernel monitor sees.
LEMMA WatchedAttack ==
    ASSUME NEW events \in Seq(WatchedEvents), Len(events) > 0, NEW category, NEW c,
           NEW layers, layers # {}
    PROVE  Accounted(Attack(category, c, events, layers))
  <1>1. events # << >>
    OBVIOUS
  <1> QED BY <1>1 DEF Accounted, Attack

\* A list of attacks, each accounted for.
AllAccounted(q) == \E S : q \in Seq(S) /\ \A a \in S : Accounted(a)

\* Marks, and what the configuration says, by name.
LEMMA MarksAndTools ==
    /\ {"email", "web", "shell", "package", "db", "dns", "other"} \subseteq GatewayTools
    /\ {"internal_address", "traversal", "shell_command", "pickled", "injection", "root"}
           \subseteq AnyToolMarks
    /\ "attacker_address" \in MarksOf("email") /\ "credential" \in MarksOf("email")
    /\ "large" \in MarksOf("web") /\ "credential" \in MarksOf("web")
    /\ "env_secret" \in MarksOf("shell") /\ "pii_column" \in MarksOf("db")
    /\ "untrusted_source" \in MarksOf("package") /\ "tunnel_domain" \in MarksOf("dns")
  BY DEF GatewayTools, AnyToolMarks, MarksOf

\* The events of the catalogue are watched ones.
LEMMA EventsWatched ==
    /\ << _smtp("postmark") >> \in Seq(WatchedEvents) /\ Len(<< _smtp("postmark") >>) > 0
    /\ << Syscall("unknown", "process_spawn", "", "") >> \in Seq(WatchedEvents)
    /\ Len(<< Syscall("unknown", "process_spawn", "", "") >>) > 0
    /\ << _smtp("unknown"), Syscall("unknown", "socket_send", "smtp.giftshop.club", "") >>
           \in Seq(WatchedEvents)
    /\ Len(<< _smtp("unknown"), Syscall("unknown", "socket_send", "smtp.giftshop.club", "") >>) > 0
  BY DEF WatchedEvents

\* The registry and the allow-list know these, and not those.
LEMMA Configured ==
    /\ "vault" \in known_gateway_servers /\ "auth" \in known_gateway_servers
    /\ "giftshop.club" # NoDestination /\ "giftshop.club" \notin gateway_domains
    /\ "http://185.234.72.15/c2" # NoDestination
    /\ "http://185.234.72.15/c2" \notin gateway_domains
  BY CatalogAssumption

\* Each list of the catalogue, attack by attack.
LEMMA EmailAttacksTold == AllAccounted(EmailAttacks)
  <1>1. Accounted(EmailAttacks[1])
    BY EventsWatched, WatchedAttack DEF EmailAttacks
  <1>2. Accounted(EmailAttacks[2])
    BY MarksAndTools, MarkedCall DEF EmailAttacks
  <1>3. Accounted(EmailAttacks[3])
    BY MarksAndTools, Configured, OtherCall DEF EmailAttacks
  <1>4. Accounted(EmailAttacks[4])
    BY MarksAndTools, Configured, OtherCall DEF EmailAttacks
  <1>5. Accounted(EmailAttacks[5])
    BY MarksAndTools, Configured, OtherCall DEF EmailAttacks
  <1>6. Accounted(EmailAttacks[6])
    BY MarksAndTools, Configured, OtherCall DEF EmailAttacks
  <1>7. Accounted(EmailAttacks[7])
    BY Configured, SilentCall DEF EmailAttacks
  <1>8. Accounted(EmailAttacks[8])
    BY MarksAndTools, MarkedCall DEF EmailAttacks
  <1>9. \A i \in 1 .. 8 : i = 1 \/ i = 2 \/ i = 3 \/ i = 4 \/ i = 5 \/ i = 6 \/ i = 7 \/ i = 8
    OBVIOUS
  <1>10. EmailAttacks = [i \in 1 .. 8 |-> EmailAttacks[i]]
    BY DEF EmailAttacks
  <1>11. \A i \in 1 .. 8 : Accounted(EmailAttacks[i])
    BY <1>1, <1>2, <1>3, <1>4, <1>5, <1>6, <1>7, <1>8, <1>9
  <1> DEFINE S == {EmailAttacks[i] : i \in 1 .. 8}
  <1>12. EmailAttacks \in Seq(S) /\ \A a \in S : Accounted(a)
    BY <1>10, <1>11
  <1> QED BY <1>12 DEF AllAccounted

LEMMA InjectionAttacksTold == AllAccounted(InjectionAttacks)
  <1>1. Accounted(InjectionAttacks[1])
    BY MarksAndTools, MarkedCall DEF InjectionAttacks
  <1>2. Accounted(InjectionAttacks[2])
    BY MarksAndTools, MarkedCall DEF InjectionAttacks
  <1>3. Accounted(InjectionAttacks[3])
    BY MarksAndTools, Configured, OtherCall DEF InjectionAttacks
  <1>4. Accounted(InjectionAttacks[4])
    BY MarksAndTools, MarkedCall DEF InjectionAttacks
  <1>5. Accounted(InjectionAttacks[5])
    BY MarksAndTools, Configured, OtherCall DEF InjectionAttacks
  <1>6. Accounted(InjectionAttacks[6])
    BY MarksAndTools, Configured, OtherCall DEF InjectionAttacks
  <1>7. \A i \in 1 .. 6 : i = 1 \/ i = 2 \/ i = 3 \/ i = 4 \/ i = 5 \/ i = 6
    OBVIOUS
  <1>8. InjectionAttacks = [i \in 1 .. 6 |-> InjectionAttacks[i]]
    BY DEF InjectionAttacks
  <1>9. \A i \in 1 .. 6 : Accounted(InjectionAttacks[i])
    BY <1>1, <1>2, <1>3, <1>4, <1>5, <1>6, <1>7
  <1> DEFINE S == {InjectionAttacks[i] : i \in 1 .. 6}
  <1>10. InjectionAttacks \in Seq(S) /\ \A a \in S : Accounted(a)
    BY <1>8, <1>9
  <1> QED BY <1>10 DEF AllAccounted

LEMMA HiddenAttacksTold == AllAccounted(HiddenAttacks)
  <1>1. Accounted(HiddenAttacks[1])
    BY EventsWatched, WatchedAttack DEF HiddenAttacks
  <1>2. Accounted(HiddenAttacks[2])
    BY EventsWatched, WatchedAttack DEF HiddenAttacks
  <1>3. Accounted(HiddenAttacks[3])
    BY MarksAndTools, MarkedCall DEF HiddenAttacks
  <1>4. Accounted(HiddenAttacks[4])
    BY MarksAndTools, MarkedCall DEF HiddenAttacks
  <1>5. Accounted(HiddenAttacks[5])
    BY MarksAndTools, Configured, OtherCall DEF HiddenAttacks
  <1>6. Accounted(HiddenAttacks[6])
    BY MarksAndTools, MarkedCall DEF HiddenAttacks
  <1>7. \A i \in 1 .. 6 : i = 1 \/ i = 2 \/ i = 3 \/ i = 4 \/ i = 5 \/ i = 6
    OBVIOUS
  <1>8. HiddenAttacks = [i \in 1 .. 6 |-> HiddenAttacks[i]]
    BY DEF HiddenAttacks
  <1>9. \A i \in 1 .. 6 : Accounted(HiddenAttacks[i])
    BY <1>1, <1>2, <1>3, <1>4, <1>5, <1>6, <1>7
  <1> DEFINE S == {HiddenAttacks[i] : i \in 1 .. 6}
  <1>10. HiddenAttacks \in Seq(S) /\ \A a \in S : Accounted(a)
    BY <1>8, <1>9
  <1> QED BY <1>10 DEF AllAccounted

LEMMA ServerAttacksTold == AllAccounted(ServerAttacks)
  <1>1. Accounted(ServerAttacks[1])
    BY MarksAndTools, MarkedCall DEF ServerAttacks, Ssrf, Traversal
  <1>2. Accounted(ServerAttacks[2])
    BY MarksAndTools, MarkedCall DEF ServerAttacks, Ssrf, Traversal
  <1>3. Accounted(ServerAttacks[3])
    BY MarksAndTools, MarkedCall DEF ServerAttacks, Ssrf, Traversal
  <1>4. Accounted(ServerAttacks[4])
    BY MarksAndTools, MarkedCall DEF ServerAttacks, Ssrf, Traversal
  <1>5. Accounted(ServerAttacks[5])
    BY MarksAndTools, MarkedCall DEF ServerAttacks, Ssrf, Traversal
  <1>6. Accounted(ServerAttacks[6])
    BY MarksAndTools, MarkedCall DEF ServerAttacks, Ssrf, Traversal
  <1>7. Accounted(ServerAttacks[7])
    BY MarksAndTools, MarkedCall DEF ServerAttacks, Ssrf, Traversal
  <1>8. Accounted(ServerAttacks[8])
    BY MarksAndTools, MarkedCall DEF ServerAttacks, Ssrf, Traversal
  <1>9. Accounted(ServerAttacks[9])
    BY MarksAndTools, MarkedCall DEF ServerAttacks, Ssrf, Traversal
  <1>10. \A i \in 1 .. 9 :
           i = 1 \/ i = 2 \/ i = 3 \/ i = 4 \/ i = 5 \/ i = 6 \/ i = 7 \/ i = 8 \/ i = 9
    OBVIOUS
  <1>11. ServerAttacks = [i \in 1 .. 9 |-> ServerAttacks[i]]
    BY DEF ServerAttacks
  <1>12. \A i \in 1 .. 9 : Accounted(ServerAttacks[i])
    BY <1>1, <1>2, <1>3, <1>4, <1>5, <1>6, <1>7, <1>8, <1>9, <1>10
  <1> DEFINE S == {ServerAttacks[i] : i \in 1 .. 9}
  <1>13. ServerAttacks \in Seq(S) /\ \A a \in S : Accounted(a)
    BY <1>11, <1>12
  <1> QED BY <1>13 DEF AllAccounted

LEMMA OtherAttacksTold == AllAccounted(OtherAttacks)
  <1>1. Accounted(OtherAttacks[1])
    BY Configured, SilentCall DEF OtherAttacks
  <1>2. Accounted(OtherAttacks[2])
    BY Configured, SilentCall DEF OtherAttacks
  <1>3. Accounted(OtherAttacks[3])
    BY MarksAndTools, MarkedCall DEF OtherAttacks
  <1>4. Accounted(OtherAttacks[4])
    BY MarksAndTools, MarkedCall DEF OtherAttacks
  <1>5. Accounted(OtherAttacks[5])
    BY MarksAndTools, MarkedCall DEF OtherAttacks
  <1>6. Accounted(OtherAttacks[6])
    BY MarksAndTools, MarkedCall DEF OtherAttacks
  <1>7. Accounted(OtherAttacks[7])
    BY MarksAndTools, MarkedCall DEF OtherAttacks
  <1>8. Accounted(OtherAttacks[8])
    BY MarksAndTools, MarkedCall DEF OtherAttacks
  <1>9. \A i \in 1 .. 8 : i = 1 \/ i = 2 \/ i = 3 \/ i = 4 \/ i = 5 \/ i = 6 \/ i = 7 \/ i = 8
    OBVIOUS
  <1>10. OtherAttacks = [i \in 1 .. 8 |-> OtherAttacks[i]]
    BY DEF OtherAttacks
  <1>11. \A i \in 1 .. 8 : Accounted(OtherAttacks[i])
    BY <1>1, <1>2, <1>3, <1>4, <1>5, <1>6, <1>7, <1>8, <1>9
  <1> DEFINE S == {OtherAttacks[i] : i \in 1 .. 8}
  <1>12. OtherAttacks \in Seq(S) /\ \A a \in S : Accounted(a)
    BY <1>10, <1>11
  <1> QED BY <1>12 DEF AllAccounted

\* Two lists, one after the other.
LEMMA BothAccounted ==
    ASSUME NEW q, AllAccounted(q), NEW r, AllAccounted(r)
    PROVE  AllAccounted(q \o r)
  <1>1. PICK S : q \in Seq(S) /\ \A a \in S : Accounted(a)
    BY DEF AllAccounted
  <1>2. PICK T : r \in Seq(T) /\ \A a \in T : Accounted(a)
    BY DEF AllAccounted
  <1> DEFINE U == S \cup T
  <1>3. q \in Seq(U) /\ r \in Seq(U)
    BY <1>1, <1>2
  <1>4. \A a \in U : Accounted(a)
    BY <1>1, <1>2
  <1> HIDE DEF U
  <1>5. q \o r \in Seq(U)
    BY <1>3
  <1> QED BY <1>4, <1>5 DEF AllAccounted

\* Every attack is caught by some layer exactly when one is to catch it, and the kernel
\* monitor looks at all of its events.
LEMMA CatalogTold ==
    /\ IsFiniteSet(Named) /\ \E n \in Nat : Named = 1 .. n
    /\ \A n \in Named : AsExpected(ATTACK_CATALOG[n])
  <1>1. AllAccounted(ATTACK_CATALOG)
    BY EmailAttacksTold, InjectionAttacksTold, HiddenAttacksTold, ServerAttacksTold,
       OtherAttacksTold, BothAccounted DEF ATTACK_CATALOG
  <1>2. PICK S : ATTACK_CATALOG \in Seq(S) /\ \A a \in S : Accounted(a)
    BY <1>1 DEF AllAccounted
  <1>3. Named = 1 .. Len(ATTACK_CATALOG) /\ Len(ATTACK_CATALOG) \in Nat
        /\ \A n \in Named : ATTACK_CATALOG[n] \in S
    BY <1>2 DEF Named
  <1>4. IsFiniteSet(Named)
    BY <1>3, FS_Interval
  <1>5. \A n \in Named : AsExpected(ATTACK_CATALOG[n])
    BY <1>2, <1>3, AccountedFor
  <1> QED BY <1>3, <1>4, <1>5

\* The result of an attack, however often it is replayed.
ResultOf(n) == [attack |-> n, category |-> ATTACK_CATALOG[n].category,
                blocked |-> LayerFor(ATTACK_CATALOG[n]) # 0,
                blocked_by_layer |-> LayerFor(ATTACK_CATALOG[n])]
Results == {ResultOf(n) : n \in Named}

\* An attack before its events, and after some of them.
AttackState(n, by, left) == [name |-> n, blocked |-> by # 0, by |-> by, left |-> left]
UnderWay(x, n) ==
    \/ x = AttackState(n, AskedOf(ATTACK_CATALOG[n]), ATTACK_CATALOG[n].kernel_events)
    \/ /\ ATTACK_CATALOG[n].kernel_events # << >>
       /\ \E left \in Seq(WatchedEvents) : x = AttackState(n, LayerFor(ATTACK_CATALOG[n]), left)

\* The inductive invariant of the simulator, and the policies it has registered: what is
\* still to be replayed is in the catalogue, and every result kept is that of its attack.
SimIInv ==
    /\ replay = [todo |-> replay.todo, done |-> replay.done, single |-> replay.single]
    /\ replay.todo \in Seq(Named) /\ replay.done \in Seq(Results) /\ sim_results \in Seq(Results)
    /\ attacking = NoAttack \/ (replay.todo # << >> /\ UnderWay(attacking, Head(replay.todo)))
    /\ report = NoReport \/ \E results \in Seq(Results) : report = _build_report(results)
PoliciesKnown == /\ policies = [s \in Hosts |-> policies[s]]
                 /\ \A s \in Hosts : policies[s] \in {NoPolicy, gateway_policy("postmark")}

\* The kernel monitor has something to say of every event of the catalogue.
LEMMA EventsAreFound ==
    ASSUME PoliciesKnown, NEW e \in WatchedEvents,
           process_unknown(e) \/ process_connect(e) \/ process_other(e)
    PROVE  found' # {}
  <1> DEFINE p == policies[e.server]
             g == gateway_policy("postmark")
  <1>1. /\ e.server \in {"postmark", "unknown"} /\ e.large = TRUE
        /\ \/ e.type \in {"network_connect", "socket_send"} /\ e.destination = "smtp.giftshop.club"
           \/ e.type = "process_spawn"
    <2> DEFINE OK(x) == /\ x.server \in {"postmark", "unknown"} /\ x.large = TRUE
                        /\ \/ /\ x.type \in {"network_connect", "socket_send"}
                              /\ x.destination = "smtp.giftshop.club"
                           \/ x.type = "process_spawn"
    <2>1. OK(_smtp("postmark")) /\ OK(_smtp("unknown"))
      BY DEF _smtp, Syscall
    <2>2. OK(Syscall("unknown", "socket_send", "smtp.giftshop.club", ""))
      BY DEF Syscall
    <2>3. OK(Syscall("unknown", "process_spawn", "", ""))
      BY DEF Syscall
    <2> HIDE DEF OK
    <2>4. OK(e)
      BY <2>1, <2>2, <2>3 DEF WatchedEvents
    <2> QED BY <2>4 DEF OK
  <1>2. p = NoPolicy \/ p = g
    BY <1>1, CatalogAssumption DEF PoliciesKnown
  <1>3. /\ g.allowed_destinations = {"api.postmarkapp.com", "smtp.postmarkapp.com"}
        /\ g.blocked_destinations = {} /\ g.allow_subprocess = FALSE
    BY DEF gateway_policy
  <1> HIDE DEF g
  <1>4. ASSUME p = g PROVE Checked(e, p) # {}
    <2>1. CASE e.type = "network_connect"
      <3>1. "unknown_destination" \in _check_network(e, p)
        BY <1>1, <1>3, <1>4, <2>1 DEF _check_network
      <3> QED BY <2>1, <3>1 DEF Checked
    <2>2. CASE e.type = "socket_send"
      BY <1>1, <1>3, <1>4, <2>2 DEF Checked
    <2>3. CASE e.type = "process_spawn"
      BY <1>1, <1>3, <1>4, <2>3 DEF Checked
    <2> QED BY <1>1, <2>1, <2>2, <2>3
  <1> HIDE DEF p
  <1>5. \/ found' = {"no_policy"} \/ (p # NoPolicy /\ Checked(e, p) \subseteq found')
    BY DEF process_unknown, process_connect, process_other, p
  <1> QED BY <1>2, <1>4, <1>5

LEMMA SimStarts == SimulatorInit => SimIInv
  BY DEF SimulatorInit, SimIInv, NoReplay, NoAttack

\* Asking for a replay, evaluating an attack, feeding one of its events, ending it and
\* ending the run keep both.
LEMMA ReplaysKeep ==
    ASSUME SimIInv, NEW names \in SUBSET Named, NEW single, Replays(names, single)
    PROVE  SimIInv' /\ UNCHANGED policies
  <1> DEFINE q == [n \in Named |-> n]
             r == Filtered(q, names)
  <1>1. /\ replay = NoReplay /\ replay' = [todo |-> r, done |-> << >>, single |-> single]
        /\ UNCHANGED <<sim_results, attacking, report, kernelVars>>
    BY DEF Replays
  <1>2. PICK n \in Nat : Named = 1 .. n
    BY CatalogTold
  <1>3. PICK p : TakenAt(q, names, p)
    <2> HIDE DEF q
    <2> QED BY <1>2, FilterPlaces
  <1>4. Cardinality(names) \in Nat
    BY <1>2, OneMoreCounted
  <1>5. r \in Seq(Named)
    <2>1. /\ p \in [1 .. Cardinality(names) -> names]
          /\ r = [k \in 1 .. Cardinality(names) |-> q[p[k]]]
      BY <1>3 DEF TakenAt
    <2>2. \A k \in 1 .. Cardinality(names) : q[p[k]] \in Named
      BY <2>1
    <2> HIDE DEF r, q
    <2> QED BY <1>4, <2>1, <2>2
  <1> HIDE DEF r
  <1>6. attacking = NoAttack
    BY <1>1 DEF SimIInv, NoReplay
  <1> QED BY <1>1, <1>5, <1>6 DEF SimIInv, kernelVars

LEMMA EvaluateKeeps ==
    ASSUME SimIInv, evaluate_attack
    PROVE  SimIInv' /\ UNCHANGED policies
  <1> DEFINE n == Head(replay.todo)
  <1>1. /\ replay.todo # << >> /\ UNCHANGED <<sim_results, replay, report, kernelVars>>
        /\ attacking' = AttackState(n, AskedOf(ATTACK_CATALOG[n]), ATTACK_CATALOG[n].kernel_events)
    BY DEF evaluate_attack, AttackState, AskedOf
  <1> QED BY <1>1 DEF SimIInv, UnderWay, kernelVars

LEMMA FeedKeeps ==
    ASSUME SimIInv, PoliciesKnown, feed_event
    PROVE  SimIInv' /\ UNCHANGED policies
  <1> DEFINE n == Head(replay.todo)
             a == ATTACK_CATALOG[n]
             e == Head(attacking.left)
  <1>1. /\ attacking.left # << >> /\ UNCHANGED <<sim_results, replay, report>>
        /\ process_unknown(e) \/ process_connect(e) \/ process_other(e)
        /\ attacking' = IF found' # {} THEN Caught(attacking)
                        ELSE [attacking EXCEPT !.left = Tail(@)]
    BY DEF feed_event
  <1>2. replay.todo # << >> /\ UnderWay(attacking, n)
    BY <1>1 DEF SimIInv, NoAttack
  <1>3. n \in Named /\ a.kernel_events \in Seq(WatchedEvents)
    <2>1. n \in Named
      BY <1>2 DEF SimIInv
    <2> QED BY <2>1, CatalogTold DEF AsExpected
  <1>12. PICK by : \E left \in Seq(WatchedEvents) :
             /\ attacking = AttackState(n, by, left)
             /\ \/ by = AskedOf(a) /\ left = a.kernel_events
                \/ by = LayerFor(a) /\ a.kernel_events # << >>
    BY <1>2, <1>3 DEF UnderWay
  <1>4. PICK left \in Seq(WatchedEvents) :
             /\ attacking = AttackState(n, by, left)
             /\ \/ by = AskedOf(a) /\ left = a.kernel_events
                \/ by = LayerFor(a) /\ a.kernel_events # << >>
    BY <1>12
  <1> HIDE DEF n, a
  <1>5. /\ attacking.left = left /\ left # << >> /\ e \in WatchedEvents
        /\ Tail(left) \in Seq(WatchedEvents) /\ a.kernel_events # << >>
    BY <1>1, <1>4 DEF AttackState
  <1>6. found' # {}
    BY <1>1, <1>5, EventsAreFound
  <1>7. attacking' = Caught(attacking)
    BY <1>1, <1>6
  <1>8. /\ LayerFor(a) = (IF AskedOf(a) = 0 THEN 3 ELSE AskedOf(a)) /\ LayerFor(a) # 0
        /\ LayerFor(a) = IF by = 0 THEN 3 ELSE by
    BY <1>4, <1>5 DEF LayerFor
  <1>9. attacking' = AttackState(n, LayerFor(a), Tail(left))
    BY <1>4, <1>7, <1>8 DEF AttackState, Caught
  <1>10. UnderWay(attacking', n)
    BY <1>5, <1>9 DEF UnderWay, a
  <1>11. UNCHANGED policies
    BY <1>1 DEF process_unknown, process_connect, process_other
  <1> QED BY <1>1, <1>2, <1>10, <1>11 DEF SimIInv, n

LEMMA EndsKeep ==
    ASSUME SimIInv, attack_ends
    PROVE  SimIInv' /\ UNCHANGED policies
  <1> DEFINE n == Head(replay.todo)
             a == ATTACK_CATALOG[n]
             r == AttackResult(attacking)
  <1>1. /\ attacking # NoAttack /\ attacking.left = << >> /\ attacking' = NoAttack
        /\ sim_results' = Append(sim_results, r)
        /\ replay' = [replay EXCEPT !.todo = Tail(replay.todo), !.done = Append(replay.done, r)]
        /\ UNCHANGED <<report, replays, kernelVars>>
    BY DEF attack_ends
  <1>2. replay.todo # << >> /\ UnderWay(attacking, n)
    BY <1>1 DEF SimIInv
  <1>3. n \in Named
    BY <1>2 DEF SimIInv
  <1>4. attacking = AttackState(n, LayerFor(a), << >>)
    <2>1. CASE attacking = AttackState(n, AskedOf(a), a.kernel_events)
      <3>1. a.kernel_events = << >>
        BY <1>1, <2>1 DEF AttackState
      <3>2. AskedOf(a) = LayerFor(a)
        BY <3>1 DEF LayerFor
      <3> QED BY <2>1, <3>1, <3>2
    <2>2. CASE \E left \in Seq(WatchedEvents) : attacking = AttackState(n, LayerFor(a), left)
      BY <1>1, <2>2 DEF AttackState
    <2> QED BY <1>2, <2>1, <2>2 DEF UnderWay
  <1>5. r = ResultOf(n)
    BY <1>4 DEF AttackResult, AttackState, ResultOf
  <1>6. r \in Results
    BY <1>3, <1>5 DEF Results
  <1> HIDE DEF r, n
  <1>7. /\ replay = [todo |-> replay.todo, done |-> replay.done, single |-> replay.single]
        /\ replay.todo \in Seq(Named) /\ replay.done \in Seq(Results)
        /\ sim_results \in Seq(Results)
        /\ report = NoReport \/ \E results \in Seq(Results) : report = _build_report(results)
    BY DEF SimIInv
  <1>8. replay' = [todo |-> Tail(replay.todo), done |-> Append(replay.done, r),
                  single |-> replay.single]
    BY <1>1, <1>7
  <1>9. /\ Tail(replay.todo) \in Seq(Named) /\ Append(replay.done, r) \in Seq(Results)
        /\ Append(sim_results, r) \in Seq(Results)
    BY <1>2, <1>6, <1>7
  <1> QED BY <1>1, <1>7, <1>8, <1>9 DEF SimIInv, kernelVars

LEMMA RunEndKeeps ==
    ASSUME SimIInv, run_ends
    PROVE  SimIInv' /\ UNCHANGED policies
  <1>1. /\ replay.todo = << >> /\ replay' = NoReplay
        /\ report' = IF replay.single THEN report ELSE _build_report(replay.done)
        /\ UNCHANGED <<sim_results, attacking, replays, kernelVars>>
    BY DEF run_ends
  <1>2. /\ replay.done \in Seq(Results) /\ sim_results \in Seq(Results) /\ attacking = NoAttack
        /\ report = NoReport \/ \E results \in Seq(Results) : report = _build_report(results)
    BY <1>1 DEF SimIInv
  <1>3. report' = NoReport \/ \E results \in Seq(Results) : report' = _build_report(results)
    BY <1>1, <1>2
  <1> QED BY <1>1, <1>2, <1>3 DEF SimIInv, NoReplay, kernelVars

\* Every step of the simulator does.
LEMMA SimStepKeeps ==
    ASSUME SimIInv, PoliciesKnown, SimulatorNext
    PROVE  SimIInv' /\ PoliciesKnown'
  <1>1. CASE run_full_catalog
    BY <1>1, ReplaysKeep DEF run_full_catalog, PoliciesKnown
  <1>2. CASE \E category \in AttackCategories : run_category(category)
    <2>1. PICK category : run_category(category)
      BY <1>2
    <2> DEFINE names == {n \in Named : ATTACK_CATALOG[n].category = category}
    <2>2. names \in SUBSET Named /\ Replays(names, FALSE)
      BY <2>1 DEF run_category
    <2> HIDE DEF names
    <2> QED BY <2>2, ReplaysKeep DEF PoliciesKnown
  <1>3. CASE \E name \in Named : run_single(name)
    BY <1>3, ReplaysKeep DEF run_single, PoliciesKnown
  <1>4. CASE evaluate_attack
    BY <1>4, EvaluateKeeps DEF PoliciesKnown
  <1>5. CASE feed_event
    BY <1>5, FeedKeeps DEF PoliciesKnown
  <1>6. CASE attack_ends
    BY <1>6, EndsKeep DEF PoliciesKnown
  <1>7. CASE run_ends
    BY <1>7, RunEndKeeps DEF PoliciesKnown
  <1>8. CASE register_policy(gateway_policy("postmark")) /\ UNCHANGED simVars
    <2>1. SimIInv'
      BY <1>8 DEF SimIInv, simVars
    <2>2. policies' = [policies EXCEPT !["postmark"] = gateway_policy("postmark")]
      BY <1>8 DEF register_policy, gateway_policy
    <2>3. PoliciesKnown'
      BY <2>2 DEF PoliciesKnown
    <2> QED BY <2>1, <2>3
  <1> QED BY <1>1, <1>2, <1>3, <1>4, <1>5, <1>6, <1>7, <1>8 DEF SimulatorNext

\* What kinds the first n of a list have.
KindsOf(kind, n) == {kind[i] : i \in 1 .. n}

\* How many places are of each kind, and all of them together.
LEMMA KindsAddUp ==
    ASSUME NEW n \in Nat, NEW I \in SUBSET (1 .. n), NEW kind,
           NEW f, DOMAIN f \subseteq KindsOf(kind, n), CountsKinds(f, I, kind)
    PROVE  SumFunction(f) = Cardinality(InKinds(I, kind, DOMAIN f))
  <1>1. IsFiniteSet(1 .. n)
    BY FS_Interval
  <1>2. IsFiniteSet(I)
    BY <1>1, FS_Subset
  <1>3. IsFiniteSet(KindsOf(kind, n))
    <2> DEFINE g == [i \in 1 .. n |-> kind[i]]
               V == KindsOf(kind, n)
    <2>1. g \in [1 .. n -> V] /\ \A v \in V : \E i \in 1 .. n : g[i] = v
      BY DEF KindsOf
    <2>2. g \in Surjection(1 .. n, V)
      BY <2>1 DEF Surjection
    <2> HIDE DEF g, V
    <2>3. IsFiniteSet(V)
      BY <1>1, <2>2, FS_Surjection
    <2> QED BY <2>3 DEF V
  <1>4. IsFiniteSet(DOMAIN f)
    BY <1>3, FS_Subset
  <1> QED BY <1>2, <1>4, SumOfKinds

\* How many places there are, and how two parts of them add up.
LEMMA PartsAddUp ==
    ASSUME NEW n \in Nat, NEW B \in SUBSET (1 .. n), NEW M \in SUBSET (1 .. n),
           B \cup M = 1 .. n, B \cap M = {}
    PROVE  /\ Cardinality(1 .. n) = n /\ Cardinality(B) \in Nat /\ Cardinality(M) \in Nat
           /\ Cardinality(B) + Cardinality(M) = n
  <1> DEFINE I == 1 .. n
  <1>1. IsFiniteSet(I) /\ Cardinality(I) = n
    <2>1. \A k \in Nat : IsFiniteSet(1 .. k) /\ Cardinality(1 .. k) = k
      <3> TAKE k \in Nat
      <3>1. 1 \in Int /\ k \in Int /\ IsFiniteSet(1 .. k)
        BY FS_Interval
      <3>2. Cardinality(1 .. k) = IF 1 > k THEN 0 ELSE k - 1 + 1
        BY <3>1, FS_Interval
      <3> QED BY <3>1, <3>2
    <2> QED BY <2>1
  <1> HIDE DEF I
  <1>2. B \subseteq I /\ M \subseteq I /\ B \cup M = I
    BY DEF I
  <1>3. IsFiniteSet(B) /\ IsFiniteSet(M)
    BY <1>1, <1>2, FS_Subset
  <1>4. Cardinality(B \cup M) = Cardinality(B) + Cardinality(M) - Cardinality(B \cap M)
    BY <1>3, FS_Union
  <1>5. Cardinality(B) \in Nat /\ Cardinality(M) \in Nat /\ Cardinality({}) = 0
    BY <1>3, FS_CardinalityType, FS_EmptySet
  <1>6. n = Cardinality(B) + Cardinality(M) - 0
    BY <1>1, <1>2, <1>4, <1>5
  <1> QED BY <1>1, <1>5, <1>6 DEF I

\* The parts of a report.
ReportParts(q, rep) ==
    /\ rep.total = Len(q) /\ rep.blocked = Cardinality({i \in 1 .. Len(q) : q[i].blocked})
    /\ rep.missed = rep.total - rep.blocked
    /\ DOMAIN rep.by_category = {q[i].category : i \in 1 .. Len(q)}
    /\ DOMAIN rep.by_layer = {q[i].blocked_by_layer : i \in 1 .. Len(q)} \ {0}
    /\ \A c \in DOMAIN rep.by_category :
         /\ rep.by_category[c]["total"] = Cardinality({i \in 1 .. Len(q) : q[i].category = c})
         /\ rep.by_category[c]["blocked"]
              = Cardinality({i \in 1 .. Len(q) : q[i].category = c /\ q[i].blocked})
         /\ rep.by_category[c]["missed"]
              = Cardinality({i \in 1 .. Len(q) : q[i].category = c /\ ~q[i].blocked})
    /\ \A l \in DOMAIN rep.by_layer :
         rep.by_layer[l] = Cardinality({i \in 1 .. Len(q) : q[i].blocked_by_layer = l})

\* _build_report() fills them so.
LEMMA ReportBuilt ==
    ASSUME NEW q \in Seq(Results), NEW rep, rep = _build_report(q)
    PROVE  ReportParts(q, rep)
  <1>1. DOMAIN q = 1 .. Len(q)
    OBVIOUS
  <1> QED BY <1>1 DEF _build_report, ReportParts

\* A result is blocked exactly when it is put down to a layer.
LEMMA ResultsSay ==
    /\ \A r \in Results : /\ r.attack \in Named /\ r = ResultOf(r.attack)
                          /\ r.blocked <=> r.blocked_by_layer # 0
                          /\ r.blocked <=> ATTACK_CATALOG[r.attack].expected_layers # {}
  <1> SUFFICES ASSUME NEW r \in Results
               PROVE  /\ r.attack \in Named /\ r = ResultOf(r.attack)
                      /\ r.blocked <=> r.blocked_by_layer # 0
                      /\ r.blocked <=> ATTACK_CATALOG[r.attack].expected_layers # {}
    OBVIOUS
  <1>1. PICK n \in Named : r = ResultOf(n)
    BY DEF Results
  <1>2. /\ r.attack = n /\ r.blocked_by_layer = LayerFor(ATTACK_CATALOG[n])
        /\ r.blocked = (LayerFor(ATTACK_CATALOG[n]) # 0)
    BY <1>1 DEF ResultOf
  <1> QED BY <1>1, <1>2, CatalogTold DEF AsExpected

\* Then they add up.
LEMMA ReportSums ==
    ASSUME NEW q \in Seq(Results), ReportParts(q, report)
    PROVE  ReportAdds
  <1> DEFINE n == Len(q)
             I == 1 .. n
             C == DOMAIN report.by_category
             B == {i \in I : q[i].blocked}
             M == {i \in I : ~q[i].blocked}
             cat == [i \in I |-> q[i].category]
             lay == [i \in I |-> q[i].blocked_by_layer]
             Over(field) == [c \in C |-> report.by_category[c][field]]
  <1>1. n \in Nat /\ \A i \in I : q[i] \in Results
    OBVIOUS
  <1>2. /\ B \in SUBSET I /\ M \in SUBSET I /\ I \in SUBSET I /\ B \cup M = I /\ B \cap M = {}
        /\ \A i \in I : cat[i] = q[i].category /\ lay[i] = q[i].blocked_by_layer
    OBVIOUS
  <1>3. /\ report.total = n /\ report.blocked = Cardinality(B)
        /\ report.missed = report.total - report.blocked
        /\ C = {q[i].category : i \in I}
        /\ DOMAIN report.by_layer = {q[i].blocked_by_layer : i \in I} \ {0}
    BY DEF ReportParts
  <1>4. /\ \A c \in C : /\ report.by_category[c]["total"]
                            = Cardinality({i \in I : q[i].category = c})
                       /\ report.by_category[c]["blocked"]
                            = Cardinality({i \in I : q[i].category = c /\ q[i].blocked})
                       /\ report.by_category[c]["missed"]
                            = Cardinality({i \in I : q[i].category = c /\ ~q[i].blocked})
        /\ \A l \in DOMAIN report.by_layer :
             report.by_layer[l] = Cardinality({i \in I : q[i].blocked_by_layer = l})
    BY DEF ReportParts
  <1>5. /\ \A c : {i \in I : q[i].category = c} = {i \in I : cat[i] = c}
        /\ \A c : {i \in I : q[i].category = c /\ q[i].blocked} = {i \in B : cat[i] = c}
        /\ \A c : {i \in I : q[i].category = c /\ ~q[i].blocked} = {i \in M : cat[i] = c}
        /\ \A l : {i \in I : q[i].blocked_by_layer = l} = {i \in I : lay[i] = l}
    BY <1>2
  <1>6. /\ C = {cat[i] : i \in I} /\ DOMAIN report.by_layer = {lay[i] : i \in I} \ {0}
    BY <1>2, <1>3
  <1>7. /\ I = {i \in I : cat[i] \in C} /\ B = {i \in B : cat[i] \in C}
        /\ M = {i \in M : cat[i] \in C}
    BY <1>2, <1>6
  <1>8. B = {i \in I : lay[i] \in DOMAIN report.by_layer}
    <2>1. \A i \in I : q[i].blocked <=> q[i].blocked_by_layer # 0
      BY <1>1, ResultsSay
    <2> QED BY <1>2, <1>6, <2>1
  <1> DEFINE total == Over("total")
             blocked == Over("blocked")
             missed == Over("missed")
  <1>9. DOMAIN total = C /\ CountsKinds(total, I, cat)
    <2>1. \A c \in C : total[c] = Cardinality({i \in I : cat[i] = c})
      <3> TAKE c \in C
      <3>1. total[c] = report.by_category[c]["total"]
        OBVIOUS
      <3>2. report.by_category[c]["total"] = Cardinality({i \in I : q[i].category = c})
        BY <1>4
      <3>3. {i \in I : q[i].category = c} = {i \in I : cat[i] = c}
        BY <1>5
      <3> HIDE DEF total, cat
      <3> QED BY <3>1, <3>2, <3>3
    <2>2. DOMAIN total = C
      OBVIOUS
    <2> HIDE DEF total, C, I, cat
    <2> QED BY <2>1, <2>2 DEF CountsKinds
  <1>10. DOMAIN blocked = C /\ CountsKinds(blocked, B, cat)
    <2>1. \A c \in C : blocked[c] = Cardinality({i \in B : cat[i] = c})
      <3> TAKE c \in C
      <3>1. blocked[c] = report.by_category[c]["blocked"]
        OBVIOUS
      <3>2. report.by_category[c]["blocked"]
              = Cardinality({i \in I : q[i].category = c /\ q[i].blocked})
        BY <1>4
      <3>3. {i \in I : q[i].category = c /\ q[i].blocked} = {i \in B : cat[i] = c}
        BY <1>5
      <3> HIDE DEF blocked, cat, B
      <3> QED BY <3>1, <3>2, <3>3
    <2>2. DOMAIN blocked = C
      OBVIOUS
    <2> HIDE DEF blocked, C, B, cat
    <2> QED BY <2>1, <2>2 DEF CountsKinds
  <1>11. DOMAIN missed = C /\ CountsKinds(missed, M, cat)
    <2>1. \A c \in C : missed[c] = Cardinality({i \in M : cat[i] = c})
      <3> TAKE c \in C
      <3>1. missed[c] = report.by_category[c]["missed"]
        OBVIOUS
      <3>2. report.by_category[c]["missed"]
              = Cardinality({i \in I : q[i].category = c /\ ~q[i].blocked})
        BY <1>4
      <3>3. {i \in I : q[i].category = c /\ ~q[i].blocked} = {i \in M : cat[i] = c}
        BY <1>5
      <3> HIDE DEF missed, cat, M
      <3> QED BY <3>1, <3>2, <3>3
    <2>2. DOMAIN missed = C
      OBVIOUS
    <2> HIDE DEF missed, C, M, cat
    <2> QED BY <2>1, <2>2 DEF CountsKinds
  <1>12. CountsKinds(report.by_layer, I, lay)
    <2>1. \A l \in DOMAIN report.by_layer : report.by_layer[l] = Cardinality({i \in I : lay[i] = l})
      BY <1>4, <1>5
    <2> HIDE DEF I, lay
    <2> QED BY <2>1 DEF CountsKinds
  <1>13. C \subseteq KindsOf(cat, n) /\ DOMAIN report.by_layer \subseteq KindsOf(lay, n)
    BY <1>6 DEF KindsOf
  <1>14. /\ InKinds(I, cat, C) = I /\ InKinds(B, cat, C) = B /\ InKinds(M, cat, C) = M
         /\ InKinds(I, lay, DOMAIN report.by_layer) = B
    BY <1>7, <1>8 DEF InKinds
  <1>15. n \in Nat /\ I = 1 .. n /\ I \in SUBSET (1 .. n) /\ B \in SUBSET (1 .. n)
         /\ M \in SUBSET (1 .. n) /\ B \cup M = 1 .. n /\ B \cap M = {}
    BY <1>1, <1>2
  <1> HIDE DEF total, blocked, missed, C, B, M, I, n, cat, lay
  <1>16. SumFunction(total) = Cardinality(I)
    BY <1>9, <1>13, <1>14, <1>15, KindsAddUp
  <1>17. SumFunction(blocked) = Cardinality(B)
    BY <1>10, <1>13, <1>14, <1>15, KindsAddUp
  <1>18. SumFunction(missed) = Cardinality(M)
    BY <1>11, <1>13, <1>14, <1>15, KindsAddUp
  <1>19. SumFunction(report.by_layer) = Cardinality(B)
    BY <1>12, <1>13, <1>14, <1>15, KindsAddUp
  <1>20. /\ Cardinality(I) = n /\ Cardinality(B) \in Nat /\ Cardinality(M) \in Nat
         /\ Cardinality(B) + Cardinality(M) = n
    BY <1>15, PartsAddUp
  <1>21. report.blocked + report.missed = report.total /\ report.missed = Cardinality(M)
    BY <1>3, <1>15, <1>20
  <1> QED BY <1>3, <1>16, <1>17, <1>18, <1>19, <1>20, <1>21
         DEF ReportAdds, total, blocked, missed, C

\* Before a report they do, being nothing.
LEMMA NothingReported == ASSUME report = NoReport PROVE ReportAdds
  <1> DEFINE Over(field) == [c \in DOMAIN report.by_category |-> report.by_category[c][field]]
  <1>1. /\ report.total = 0 /\ report.blocked = 0 /\ report.missed = 0
        /\ DOMAIN report.by_category = {} /\ DOMAIN report.by_layer = {}
    BY DEF NoReport
  <1>2. \A f : DOMAIN f = {} => SumFunction(f) = 0
    BY SumOfZeros, FS_EmptySet DEF SumFunction
  <1>3. \A field : DOMAIN Over(field) = {}
    BY <1>1
  <1> HIDE DEF Over
  <1>4. \A field : SumFunction(Over(field)) = 0
    BY <1>2, <1>3
  <1>5. SumFunction(report.by_layer) = 0
    BY <1>1, <1>2
  <1>6. SumFunction(Over("total")) = 0 /\ SumFunction(Over("blocked")) = 0
        /\ SumFunction(Over("missed")) = 0
    BY <1>4
  <1> QED BY <1>1, <1>5, <1>6 DEF ReportAdds, Over

\* What the simulator says follows from the inductive invariant.
LEMMA SimTells == SimIInv => SimulatorInv
  <1> SUFFICES ASSUME SimIInv PROVE SimulatorInv
    OBVIOUS
  <1>1. CatalogHolds
    <2>1. sim_results \in Seq(Results)
      BY DEF SimIInv
    <2>2. \A i \in DOMAIN sim_results : sim_results[i] \in Results
      BY <2>1
    <2> QED BY <2>2, ResultsSay DEF CatalogHolds
  <1>2. ReportAdds
    BY NothingReported, ReportBuilt, ReportSums DEF SimIInv
  <1> QED BY <1>1, <1>2 DEF SimulatorInv

\* In a behaviour of the services only the red team moves the simulator, and where it
\* is, nobody else sets a policy.
LEMMA SimulatorBehaves ==
    ASSUME [ServicesNext]_Vars
    PROVE  /\ part' = part
           /\ UNCHANGED simVars \/ (part = "redteam" /\ SimulatorNext)
           /\ part = "redteam" => UNCHANGED <<policies, simVars>> \/ SimulatorNext
  <1>1. CASE UNCHANGED Vars
    BY <1>1 DEF Vars, kernelVars
  <1>2. CASE ServicesNext
    <2>1. part \in Parts /\ Still(Parts \ {part})
      BY <1>2 DEF ServicesNext, Parts
    <2>2. part # "redteam" => UNCHANGED simVars
      BY <2>1 DEF Still, Parts
    <2>3. part = "redteam" => SimulatorNext
      BY <1>2 DEF ServicesNext
    <2>4. part' = part
      BY <1>2 DEF ServicesNext
    <2> QED BY <2>2, <2>3, <2>4
  <1> QED BY <1>1, <1>2

\* An attack of the catalogue is blocked exactly when some layer is to catch it, and by
\* the same layer however often it is replayed; the parts of every report add up
\* (simulator.py:106-193).
THEOREM CatalogIsReplayed == ServicesSpec => []SimulatorInv
  <1> DEFINE J == SimIInv /\ (part = "redteam" => PoliciesKnown)
  <1>1. ServicesInit => J
    <2>1. KernelInit => PoliciesKnown
      BY DEF KernelInit, PoliciesKnown
    <2> QED BY <2>1, SimStarts DEF ServicesInit
  <1>2. J /\ [ServicesNext]_Vars => J'
    <2> SUFFICES ASSUME J, [ServicesNext]_Vars PROVE J'
      OBVIOUS
    <2>1. CASE UNCHANGED simVars /\ ~(part = "redteam" /\ SimulatorNext)
      <3>1. SimIInv'
        BY <2>1 DEF SimIInv, simVars
      <3>2. part' = "redteam" => PoliciesKnown'
        BY <2>1, SimulatorBehaves DEF PoliciesKnown
      <3> QED BY <3>1, <3>2
    <2>2. CASE part = "redteam" /\ SimulatorNext
      BY <2>2, SimStepKeeps
    <2> QED BY <2>1, <2>2, SimulatorBehaves
  <1>3. J => SimulatorInv
    BY SimTells
  <1> QED BY <1>1, <1>2, <1>3, PTL DEF ServicesSpec
=============================================================================
