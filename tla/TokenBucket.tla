----------------------------- MODULE TokenBucket -----------------------------
(***************************************************************************)
(* mcp_monitor/production/rate_limiter.py, the server's token bucket.      *)
(* Time is a clock of whole seconds; tokens are counted in sixtieths, so   *)
(* that a refill of tokens_per_minute / 60 tokens a second is exact.       *)
(***************************************************************************)
EXTENDS Integers

CONSTANTS tokens_per_minute, burst_size,
          MaxTime       \* bound on the clock

ASSUME BucketAssumption == tokens_per_minute \in Nat /\ burst_size \in Nat
ASSUME TimeAssumption   == MaxTime \in Nat

Token == 60

VARIABLES
    now,            \* the clock
    tokens,         \* _tokens, in sixtieths
    last_refill,    \* _last_refill
    granted,        \* requests allowed since the last reset()
    before          \* before[s]: how many of them before the clock read s

vars == <<now, tokens, last_refill, granted, before>>

Least(a, b) == IF a <= b THEN a ELSE b
Capacity == Token * burst_size

\* What t seconds add to the bucket.
Refill(t) == t * tokens_per_minute

\* The value of _tokens after _refill().
Refilled == Least(tokens + Refill(now - last_refill), Capacity)

Init == /\ now = 0 /\ tokens = Capacity /\ last_refill = 0
        /\ granted = 0 /\ before = [s \in {0} |-> 0]

\* Mutant: the time of the refill is not recorded.
allow_refills_again ==
    /\ Refilled >= Token /\ tokens' = Refilled - Token
    /\ granted' = granted + 1
    /\ UNCHANGED <<now, last_refill, before>>

\* Mutant: the last token is kept.
allow_keeps_one ==
    /\ last_refill' = now
    /\ \/ Refilled > Token /\ tokens' = Refilled - Token /\ granted' = granted + 1
       \/ Refilled <= Token /\ tokens' = Refilled /\ UNCHANGED granted
    /\ UNCHANGED <<now, before>>

\* allow(): refill, then take one token if there is one.
allow == /\ last_refill' = now
         /\ \/ /\ Refilled >= Token /\ tokens' = Refilled - Token
               /\ granted' = granted + 1
            \/ /\ Refilled < Token /\ tokens' = Refilled
               /\ UNCHANGED granted
         /\ UNCHANGED <<now, before>>

\* Mutant: a look at the bucket fills it again.
remaining_refills_again == /\ tokens' = Refilled
                           /\ UNCHANGED <<now, last_refill, granted, before>>

remaining_tokens == /\ tokens' = Refilled /\ last_refill' = now
                    /\ UNCHANGED <<now, granted, before>>

reset == /\ tokens' = Capacity /\ last_refill' = now
         /\ granted' = 0 /\ before' = [s \in 0 .. now |-> 0]
         /\ UNCHANGED now

Tick == /\ now < MaxTime /\ now' = now + 1
        /\ before' = [s \in 0 .. now + 1 |-> IF s <= now THEN before[s] ELSE granted]
        /\ UNCHANGED <<tokens, last_refill, granted>>

Next == allow \/ remaining_tokens \/ reset \/ Tick

Spec == Init /\ [][Next]_vars
-----------------------------------------------------------------------------
\* Every variable holds a value of its kind.
TypeOK == /\ now \in Nat /\ last_refill \in 0 .. now
          /\ tokens \in 0 .. Capacity
          /\ granted \in Nat /\ before \in [0 .. now -> Nat]

\* In every interval that ends now, from any moment s on, at most the burst
\* and what the rate refills in that time is allowed (rate_limiter.py:19-21).
RateBound == \A s \in 0 .. now :
    Token * (granted - before[s]) <= Capacity + Refill(now - s)

\* What RateBound and RefusalIsDue rest on.  The grants since s and the tokens
\* at hand together stay within the burst and the refill since s ...
Balance == \A s \in 0 .. now :
    Token * (granted - before[s]) + tokens
        <= Capacity + Refill(IF s <= last_refill THEN last_refill - s ELSE 0)

\* ... and equal them since the bucket was last full ...
Tight == \E s \in 0 .. last_refill :
    Token * (granted - before[s]) + tokens
        = Capacity + Refill(last_refill - s)

\* ... while nothing is granted without a refill.
Settled == \A s \in 0 .. now : s > last_refill => before[s] = granted

\* The accounts of the bucket: no token is ever spent twice or lost except to
\* the cap (rate_limiter.py:42-47, 60-63).
Accounts == Balance /\ Tight /\ Settled

\* What every step of the bucket preserves: its variables are of their kinds,
\* never above the capacity, and its accounts balance.
BucketInv == TypeOK /\ Accounts

\* A request is refused only when it is due: some interval that ends now has
\* used the burst and its refill up to less than one token.
RefusalIsDue ==
    [][allow /\ granted' = granted =>
         \E s \in 0 .. now : Token * (granted - before[s]) + Token
                                 > Capacity + Refill(now - s)]_vars
=============================================================================
