---------------------------- MODULE MCFiveLayers ----------------------------
(* A small instance of FiveLayers.                                         *)
EXTENDS FiveLayers, TLC

Symmetry == Permutations(Operators)

Contents == [score : 0 .. 100, amended : BOOLEAN]

Clean == [server |-> "s1", score |-> 0, spawns |-> FALSE, dangerous |-> FALSE,
          object |-> TRUE, dest |-> NoDest]
Out(d)      == [Clean EXCEPT !.dest = d]
Injected    == [Clean EXCEPT !.score = 90]
Stranger    == [Clean EXCEPT !.server = "s2"]
Listed      == [Clean EXCEPT !.object = FALSE]
Shell       == [Clean EXCEPT !.spawns = TRUE]
Hidden      == [Clean EXCEPT !.dangerous = TRUE]

SomeCalls == {Clean, Out("d1"), Out("d2"), Injected, Stranger, Listed, Shell, Hidden}

SomeOutputs == {[output_score |-> 40]}

SomeRules == {[matches |-> {Clean, Stranger}, raises |-> {}, action |-> "quarantine", priority |-> 50],
              [matches |-> {Clean}, raises |-> {Listed}, action |-> "redact", priority |-> 50],
              [matches |-> {Clean, Out("d1")}, raises |-> {}, action |-> "block", priority |-> 90]}

SomeEgress == {[servers |-> {"s1"}, blocks |-> {"d2"}, accepts |-> {"d1"}]}
=============================================================================
