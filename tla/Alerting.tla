------------------------------- MODULE Alerting -------------------------------
(***************************************************************************)
(* production/alerting.py: a result above the threshold starts a thread    *)
(* that posts to the webhook, at most one per findings and cooldown.       *)
(* production/metrics.py: the duration histogram of MetricsCollector.  A   *)
(* duration is the number of the first bucket whose bound it reaches.      *)
(***************************************************************************)
EXTENDS Integers, Sequences, FiniteSetsExt
-----------------------------------------------------------------------------
(* The alerts. *)

CONSTANTS FindingKeys,      \* the sorted findings of a result, joined
          Reporters,        \* the threads that report results
          cooldown_seconds,
          MaxAlertTime      \* bound on the clock

ASSUME CooldownAssumption == cooldown_seconds \in Nat \ {0}

VARIABLES
    last_alert_times,   \* _last_alert_times, or a time that is long over
    alert_now,
    reporting,          \* where each reporter is: [stage, key, now]
    threads,            \* the threads that run _send_webhook, as [key, at]
    fired               \* history: the alerts as they were marked under the lock

alertVars == <<last_alert_times, alert_now, reporting, threads, fired>>

Elsewhere == [stage |-> "elsewhere"]

AlertInit ==
    /\ last_alert_times = [k \in FindingKeys |-> -cooldown_seconds] /\ alert_now = 0
    /\ reporting = [r \in Reporters |-> Elsewhere] /\ threads = {} /\ fired = << >>

\* check_and_alert() of a result at or above risk_threshold: the time is read before
\* the lock is taken, and another reporter may be faster.
check_and_alert(r, key) ==
    /\ reporting[r] = Elsewhere
    /\ reporting' = [reporting EXCEPT ![r] = [stage |-> "timed", key |-> key, now |-> alert_now]]
    /\ UNCHANGED <<last_alert_times, alert_now, threads, fired>>

Told(r, stage) == reporting' = [reporting EXCEPT ![r].stage = stage]

\* Mutant: the cooldown starts when the webhook has been reached.
fire_unmarked(r) ==
    /\ Len(fired) < 5 /\ fired' = Append(fired, [key |-> reporting[r].key, at |-> reporting[r].now])
    /\ Told(r, "fires") /\ UNCHANGED last_alert_times

fire(r) ==
    /\ fired' = Append(fired, [key |-> reporting[r].key, at |-> reporting[r].now])
    /\ last_alert_times' = [last_alert_times EXCEPT ![reporting[r].key] = reporting[r].now]
    /\ Told(r, "fires")

\* The lock is held from the look-up to the mark.
look_and_mark(r) ==
    /\ reporting[r].stage = "timed"
    /\ IF reporting[r].now - last_alert_times[reporting[r].key] < cooldown_seconds
       THEN Told(r, "withholds") /\ UNCHANGED <<last_alert_times, fired>>
       ELSE fire(r)
    /\ UNCHANGED <<alert_now, threads>>

\* The thread is started after the lock; where none can be, start() raises and the
\* mark stays.
returns(r) ==
    /\ reporting[r].stage \in {"fires", "withholds"}
    /\ \/ threads' = threads
       \/ /\ reporting[r].stage = "fires"
          /\ threads' = threads \cup {[key |-> reporting[r].key, at |-> reporting[r].now]}
    /\ reporting' = [reporting EXCEPT ![r] = Elsewhere]
    /\ UNCHANGED <<last_alert_times, alert_now, fired>>

\* _send_webhook(): delivered or not, nothing is done about it.
_send_webhook(t) == /\ threads' = threads \ {t}
                    /\ UNCHANGED <<last_alert_times, alert_now, reporting, fired>>

AlertTick == /\ alert_now < MaxAlertTime /\ alert_now' = alert_now + 1
             /\ UNCHANGED <<last_alert_times, reporting, threads, fired>>

AlertNext == \/ \E r \in Reporters : \/ \E key \in FindingKeys : check_and_alert(r, key)
                                     \/ look_and_mark(r) \/ returns(r)
             \/ \E t \in threads : _send_webhook(t)
             \/ AlertTick

AlertSpec == AlertInit /\ [][AlertNext]_alertVars
-----------------------------------------------------------------------------
\* Whichever reporter read the clock first and whichever took the lock first, the
\* alerts for one kind of finding are marked in the order of their times and a
\* cooldown apart; and a reporter keeps silent only about what an equal alert,
\* marked before it looked, covers: less than a cooldown older than its own time,
\* or newer (alerting.py:66-83).
OnePerCooldown ==
    /\ \A i, j \in DOMAIN fired :
         i < j /\ fired[i].key = fired[j].key => fired[j].at - fired[i].at >= cooldown_seconds
    /\ \A r \in Reporters : reporting[r].stage = "withholds" =>
         \E i \in DOMAIN fired : /\ fired[i].key = reporting[r].key
                                /\ reporting[r].now - fired[i].at < cooldown_seconds
-----------------------------------------------------------------------------
(* The histogram. *)

CONSTANTS Buckets,          \* 1 .. the number of buckets, the last for infinity
          MaxObserved       \* bound on the observations

ASSUME BucketsAssumption ==
    IsFiniteSet(Buckets) /\ Buckets # {} /\ Buckets = 1 .. Cardinality(Buckets)

VARIABLES
    duration_buckets, duration_count,
    observed            \* history: the observations of each duration

histogramVars == <<duration_buckets, duration_count, observed>>

HistogramInit == /\ duration_buckets = [i \in Buckets |-> 0] /\ duration_count = 0
                 /\ observed = [d \in Buckets |-> 0]

\* Every bucket from the first whose bound the duration reaches.
Reached(d) == {i \in Buckets : d <= i}

observe_duration(d) ==
    /\ duration_count < MaxObserved /\ duration_count' = duration_count + 1
    /\ duration_buckets' = [i \in Buckets |->
           duration_buckets[i] + (IF i \in Reached(d) THEN 1 ELSE 0)]
    /\ observed' = [observed EXCEPT ![d] = @ + 1]

\* expose(): the bucket counts as they are rendered, summed up once more.
Exposed(i) == MapThenSumSet(LAMBDA j : duration_buckets[j], {j \in Buckets : j <= i})

HistogramNext == \E d \in Buckets : observe_duration(d)

HistogramSpec == HistogramInit /\ [][HistogramNext]_histogramVars
-----------------------------------------------------------------------------
\* A bucket counts the observations up to its bound, the last one all of them.  So
\* the loop has it (metrics.py:90-94), which marks every bucket from the first that
\* matches; its docstring says the counts are non-cumulative and only the first
\* match is incremented (84-87), and expose(), written for that, sums them again,
\* so that what is rendered counts too much (ExposedCountsAll, which fails).
BucketsCumulative ==
    /\ \A i \in Buckets :
         duration_buckets[i] = SumFunctionOnSet(observed, {d \in Buckets : d <= i})
    /\ duration_buckets[Max(Buckets)] = duration_count

\* The rendered count of infinity is the number of observations, as "correct
\* Prometheus output" (metrics.py:84-87) has it.
ExposedCountsAll == Exposed(Max(Buckets)) = duration_count
=============================================================================
