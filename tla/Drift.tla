-------------------------------- MODULE Drift --------------------------------
(***************************************************************************)
(* advanced/drift.py: BehavioralDriftDetector compares what a tool returns *)
(* with the outputs recorded as its baseline.  An output is the set of its *)
(* field paths and its size.  Names carry the component's name, since one  *)
(* model-checking module extends the parts of the advanced layer together. *)
(***************************************************************************)
EXTENDS Integers, Sequences, FiniteSetsExt

CONSTANTS Tools, Inputs, Fields,
          Outputs,              \* a set of [fields : SUBSET Fields, size : Nat]
          baseline_window,
          sensitivity,          \* in tenths
          MaxRecords            \* bound on the records of a tool

ASSUME OutputAssumption == Outputs \subseteq [fields : SUBSET Fields, size : Nat]
ASSUME BaselineAssumption == baseline_window \in Nat \ {0} /\ sensitivity \in 1 .. 10

VARIABLES
    baselines,      \* _baselines[t]: the samples in the window
    known_fields,   \* _known_fields[t]
    size_history,   \* _size_history[t]
    alerts,         \* the types of the alerts the last check raised
    recorded        \* history: every sample recorded

driftVars == <<baselines, known_fields, size_history, alerts, recorded>>

DriftInit ==
    /\ baselines = [t \in Tools |-> <<>>] /\ known_fields = [t \in Tools |-> {}]
    /\ size_history = [t \in Tools |-> <<>>] /\ alerts = {}
    /\ recorded = [t \in Tools |-> <<>>]

Sample(i, o) == [input |-> i, fields |-> o.fields]

\* Mutant: a full window keeps its oldest samples.
FirstOf(q) == IF Len(q) > baseline_window THEN SubSeq(q, 1, baseline_window) ELSE q

\* The last baseline_window elements: the slice of a list that is too long.
LastOf(q) == IF Len(q) > baseline_window
             THEN SubSeq(q, Len(q) - baseline_window + 1, Len(q)) ELSE q

record_baseline(t, i, o) ==
    /\ Len(recorded[t]) < MaxRecords
    /\ baselines' = [baselines EXCEPT ![t] = LastOf(Append(@, Sample(i, o)))]
    /\ known_fields' = [known_fields EXCEPT ![t] = @ \cup o.fields]
    /\ size_history' = [size_history EXCEPT ![t] = LastOf(Append(@, o.size))]
    /\ recorded' = [recorded EXCEPT ![t] = Append(@, Sample(i, o))]
    /\ UNCHANGED alerts

\* _get_always_present_fields()
AlwaysPresent(t) ==
    {f \in Fields : \A k \in 1 .. Len(baselines[t]) : f \in baselines[t][k].fields}

\* _check_size_anomaly(): more than 3 / sensitivity times the average, or less
\* than a tenth of it times the sensitivity, once there are five sizes.
SizeAnomaly(t, size) ==
    LET n == Len(size_history[t])
        sum == MapThenSumSet(LAMBDA k : size_history[t][k], 1 .. n)
    IN  /\ n >= 5 /\ sum > 0
        /\ \/ size * n * sensitivity > sum * 30
           \/ size * n * 100 < sum * sensitivity /\ sum > 10 * n

\* The last sample recorded with this input, among those in the window.
Matching(t, i) == {k \in 1 .. Len(baselines[t]) : baselines[t][k].input = i}

\* The types of the alerts for an output.
Drifted(t, i, o) ==
    IF baselines[t] = <<>> THEN {}
    ELSE {type \in {"new_field", "field_removed", "size_anomaly", "output_changed"} :
            CASE type = "new_field"      -> o.fields \ known_fields[t] # {}
              [] type = "field_removed"  -> known_fields[t] # {} /\ AlwaysPresent(t) \ o.fields # {}
              [] type = "size_anomaly"   -> SizeAnomaly(t, o.size)
              [] type = "output_changed" -> /\ Matching(t, i) # {}
                                            /\ baselines[t][Max(Matching(t, i))].fields # o.fields}

check_drift(t, i, o) ==
    /\ alerts' = Drifted(t, i, o)
    /\ UNCHANGED <<baselines, known_fields, size_history, recorded>>

DriftNext == \E t \in Tools, i \in Inputs, o \in Outputs :
    record_baseline(t, i, o) \/ check_drift(t, i, o)

DriftSpec == DriftInit /\ [][DriftNext]_driftVars
-----------------------------------------------------------------------------
\* Of all records of a tool, those still in the window.
Recent(t) == LET n == Len(recorded[t])
             IN  {k \in 1 .. n : k > n - baseline_window}

\* Whatever was recorded and has left the window: a field is new exactly when
\* no record ever had it, is missed exactly when every record of the window has
\* it, and an output counts as changed exactly against the window's last record
\* of its input (drift.py:116-166).
ChecksAgainstHistory == \A t \in Tools, i \in Inputs, o \in Outputs : recorded[t] # <<>> =>
    LET Has(k, f) == f \in recorded[t][k].fields
        same == {k \in Recent(t) : recorded[t][k].input = i}
        types == Drifted(t, i, o)
    IN  /\ "new_field" \in types
             <=> \E f \in o.fields : \A k \in 1 .. Len(recorded[t]) : ~Has(k, f)
        /\ "field_removed" \in types
             <=> \E f \in Fields \ o.fields : \A k \in Recent(t) : Has(k, f)
        /\ "output_changed" \in types
             <=> same # {} /\ recorded[t][Max(same)].fields # o.fields
=============================================================================
