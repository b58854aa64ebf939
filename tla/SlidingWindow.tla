---------------------------- MODULE SlidingWindow ----------------------------
(***************************************************************************)
(* The deque of times that RateLimiter (defense10/rate_limiter.py) keeps   *)
(* for one (server, action) with a limit.                                  *)
(***************************************************************************)
EXTENDS Integers, Sequences

CONSTANTS max_count, window

ASSUME CountAssumption  == max_count \in Nat
ASSUME WindowAssumption == window \in Nat

\* How many times at the left of the deque are outside the window.
Stale(q, now) == CHOOSE n \in 0 .. Len(q) :
    /\ \A i \in 1 .. n : now - q[i] > window
    /\ n < Len(q) => now - q[n + 1] <= window

\* Mutant: a time at the edge of the window is popped too.
PoppedEarly(q, now) == SelectSeq(q, LAMBDA t : now - t < window)

\* Mutant: the window never moves.
Unpopped(q, now) == q

Popped(q, now) == SubSeq(q, Stale(q, now) + 1, Len(q))

\* check(): the event is recorded, allowed or not, and the window moved ...
Recorded(q, now) == Popped(Append(q, now), now)

\* ... then compared.
Within(q) == Len(q) <= max_count
=============================================================================
