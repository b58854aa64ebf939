-------------------------------- MODULE Canary --------------------------------
(***************************************************************************)
(* advanced/canary.py: ToolCanary compares the answers of tools to known   *)
(* inputs with what its probes expect.  A response is its value, its field *)
(* paths and its size; a validator is the set of responses it accepts (one *)
(* that raises counts as one that does not accept).                        *)
(***************************************************************************)
EXTENDS Integers, SequencesExt

CONSTANTS Responses,    \* a set of [value : ..., fields : SET, size : Nat]
          Probes,       \* the probes callers register
          NoOutput,     \* a probe without an expected output
          MaxProbes, MaxChecks      \* bounds on the probes and the results per id

VARIABLES
    probes,             \* _probes, in the order in which _find_probe walks it
    expected_output,    \* the expected_output of each of them
    baseline_hash,      \* _baselines: the response whose hash is kept, per id
    history,            \* _history: the statuses, per id
    exposed             \* history: the ids that answered with a forbidden field

canaryVars == <<probes, expected_output, baseline_hash, history, exposed>>

Ids == {p.probe_id : p \in Probes}

CanaryInit ==
    /\ probes = <<>> /\ expected_output = <<>>
    /\ baseline_hash = [id \in Ids |-> NoOutput]
    /\ history = [id \in Ids |-> <<>>] /\ exposed = {}

\* The place behind the last probe of the tool, or behind all of them.
Place(tool) == LET own == {k \in DOMAIN probes : probes[k].tool_name = tool}
               IN  IF own = {} THEN Len(probes) + 1 ELSE Max(own) + 1

register_probe(p) ==
    /\ Len(probes) < MaxProbes
    /\ probes' = InsertAt(probes, Place(p.tool_name), p)
    /\ expected_output' = InsertAt(expected_output, Place(p.tool_name), p.expected_output)
    /\ baseline_hash' = IF p.expected_output = NoOutput THEN baseline_hash
                        ELSE [baseline_hash EXCEPT ![p.probe_id] = p.expected_output]
    /\ UNCHANGED <<history, exposed>>

\* _find_probe(): the first with the id, 0 for none.
_find_probe(id) == LET named == {k \in DOMAIN probes : probes[k].probe_id = id}
                   IN  IF named = {} THEN 0 ELSE Min(named)

Violations(k, r) ==
    LET p == probes[k] IN {type \in {"output_mismatch", "missing_field",
                          "forbidden_field", "size_exceeded", "custom_validator"} :
        CASE type = "output_mismatch" -> /\ expected_output[k] # NoOutput
                                         /\ r # baseline_hash[p.probe_id]
          [] type = "missing_field"    -> ~(p.expected_fields \subseteq r.fields)
          [] type = "forbidden_field"  -> p.forbidden_fields \cap r.fields # {}
          [] type = "size_exceeded"    -> /\ p.max_response_size > 0
                                          /\ r.size > p.max_response_size
          [] type = "custom_validator" -> r \notin p.accepts}

Status(violations) ==
    IF violations = {} THEN "pass"
    ELSE IF "forbidden_field" \in violations THEN "fail"
    ELSE IF "output_mismatch" \in violations THEN "drift" ELSE "fail"

\* An unknown id is answered with ERROR and recorded nowhere.
evaluate_response(id, r) ==
    LET k == _find_probe(id) IN
    /\ k # 0 /\ Len(history[id]) < MaxChecks
    /\ history' = [history EXCEPT ![id] = Append(@, Status(Violations(k, r)))]
    /\ exposed' = IF probes[k].forbidden_fields \cap r.fields = {} THEN exposed
                  ELSE exposed \cup {id}
    /\ UNCHANGED <<probes, expected_output, baseline_hash>>

\* update_baseline(), also of an id no probe has.
update_baseline(id, r) ==
    LET k == _find_probe(id) IN
    /\ baseline_hash' = [baseline_hash EXCEPT ![id] = r]
    /\ expected_output' = IF k = 0 THEN expected_output
                          ELSE [expected_output EXCEPT ![k] = r]
    /\ UNCHANGED <<probes, history, exposed>>

\* get_tool_health(): the status of a tool, over the results of its probes' ids.
get_tool_health(tool) ==
    LET own == {k \in DOMAIN probes : probes[k].tool_name = tool}
    IN  IF own = {} THEN "no_probes"
        ELSE IF \E k \in own : "fail" \in ToSet(history[probes[k].probe_id])
        THEN "compromised" ELSE "healthy"

CanaryNext ==
    \/ \E p \in Probes : register_probe(p)
    \/ \E id \in Ids, r \in Responses : evaluate_response(id, r) \/ update_baseline(id, r)

CanarySpec == CanaryInit /\ [][CanaryNext]_canaryVars
-----------------------------------------------------------------------------
\* A forbidden field that a tool once returned to a probe leaves the tool
\* compromised for good: no mismatch beside it makes it a mere drift, and no
\* later answer, probe or approved baseline clears it (canary.py:165-168,
\* 201-228).
ForbiddenCompromises == \A k \in DOMAIN probes :
    probes[k].probe_id \in exposed => get_tool_health(probes[k].tool_name) = "compromised"
=============================================================================
