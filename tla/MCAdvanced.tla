------------------------------ MODULE MCAdvanced ------------------------------
(***************************************************************************)
(* Small instances of the parts of the advanced layer.  They share nothing *)
(* in the code, so a behaviour runs one of them; `part` says which.        *)
(***************************************************************************)
EXTENDS Drift, Canary, Manifest, Correlation, Enforcer, TLC

Symmetry == Permutations(Objects)

VARIABLE part

Parts == {"drift", "canary", "manifest", "correlation", "enforcer"}

\* The parts named do not move.
Still(parts) == /\ "drift" \in parts => UNCHANGED driftVars
                /\ "canary" \in parts => UNCHANGED canaryVars
                /\ "manifest" \in parts => UNCHANGED manifestVars
                /\ "correlation" \in parts => UNCHANGED correlationVars
                /\ "enforcer" \in parts => UNCHANGED enforcerVars

Vars == <<part, driftVars, canaryVars, manifestVars, correlationVars, enforcerVars>>

Init == /\ part \in Parts /\ DriftInit /\ CanaryInit /\ ManifestInit /\ CorrelationInit
        /\ EnforcerInit

Next ==
    /\ UNCHANGED part /\ Still(Parts \ {part})
    /\ \/ part = "drift" /\ DriftNext
       \/ part = "canary" /\ CanaryNext
       \/ part = "manifest" /\ ManifestNext
       \/ part = "correlation" /\ CorrelationNext
       \/ part = "enforcer" /\ EnforcerNext

Spec == Init /\ [][Next]_Vars

CorrelationOnly == Init /\ part = "correlation" /\ [][Next]_Vars

\* What each of the three verdicts is for is never missed: a forbidden field
\* compromises its probe, a manifest is valid only as it was signed, and a check
\* of the enforcer passes as its invariants are worded.
VerdictsHold == ForbiddenCompromises /\ ValidIsAsSigned /\ EnforcedAsWorded

CONSTANTS mail, query, to, bcc, string, list

MCTools == {mail}
MCFields == {to, bcc}
\* Small outputs with and without a second field, and a large one.
MCOutputs == {[fields |-> {to}, size |-> 1], [fields |-> {to, bcc}, size |-> 1],
              [fields |-> {to}, size |-> 20]}
MCInputs == {query, list}
MCParams == {to}

Response(v, fields) == [value |-> v, fields |-> fields, size |-> v]
MCResponses == {Response(1, {to}), Response(2, {to}), Response(3, {to, bcc})}

Probe(id, tool, expected, forbidden) ==
    [probe_id |-> id, tool_name |-> tool, expected_output |-> expected,
     expected_fields |-> {to}, forbidden_fields |-> forbidden,
     max_response_size |-> 3, accepts |-> MCResponses]

\* Two probes of one tool, and one of another tool under an id that is taken.
MCProbes == {Probe("p", "mail", Response(1, {to}), {bcc}),
             Probe("q", "mail", NoOutput, {}),
             Probe("p", "db", Response(2, {to}), {})}

Content(key, description, schema, capabilities, version) ==
    [key |-> key, description |-> description, parameters |-> (to :> schema),
     capabilities |-> capabilities, version |-> version]

\* An approved interface in two versions, with another description, schema and
\* capability, and that of another tool.
MCContents == {Content("mail", "sends mail", string, {}, 1),
               Content("mail", "sends mail", string, {}, 2),
               Content("mail", "sends more", string, {}, 1),
               Content("mail", "sends mail", list, {}, 1),
               Content("mail", "sends mail", NoSchema, {}, 1),
               Content("mail", "sends mail", string, {"net"}, 1),
               Content("chat", "sends mail", string, {}, 1)}

Event(kind, server, output, arguments) ==
    [kind |-> kind, server |-> server, output |-> output, arguments |-> arguments, ts |-> 0]

MCEvents == {Event("read", "a", "data", {}), Event("read", "b", NoDatum, {}),
             Event("secret", "a", NoDatum, {}), Event("send", "b", NoDatum, {"data"}),
             Event("send", "a", "data", {"data"})}

Rule(name, sequence, condition, seconds) ==
    [name |-> name, tool_sequence |-> sequence, condition |-> condition,
     window_seconds |-> seconds]

MCDefaultRules ==
    << Rule("read_then_exfil", << {"read", "secret"}, {"send"} >>, "data_flow", 2),
       Rule("credential_harvest", << {"secret"}, {"secret"} >>, "none", 1),
       Rule("shadow_pivot", << {"read", "secret", "send"}, {"read", "secret", "send"} >>,
            "pivot", 1) >>
MCExtraRules == {Rule("staged", << {"read"}, {"secret"}, {"send"} >>, "none", 2)}

DocValue(text, truthy, finds, length, equals, hashed) ==
    [text |-> text, truthy |-> truthy, finds |-> finds, length |-> length,
     equals |-> equals, hashed |-> hashed]

MailValue == DocValue(TRUE, TRUE, {"address"}, 2, "x@y", TRUE)
DropValue == DocValue(TRUE, TRUE, {"DROP"}, 3, "DROP t", TRUE)
EmptyValue == DocValue(TRUE, FALSE, {}, 0, "", TRUE)
ListValue == DocValue(FALSE, TRUE, {}, 0, "a list", FALSE)

MCDocuments == {[to |-> MailValue, bcc |-> MailValue], [to |-> MailValue, bcc |-> EmptyValue],
                [query |-> DropValue], [query |-> ListValue]}

Invariant(type, path, tools, sides) ==
    [type |-> type, path |-> path, tools |-> tools, sides |-> sides, value |-> "",
     members |-> {}, limit |-> 0, holds |-> {}]

\* no_bcc_in_email and no_sql_drop.
MCBuiltinInvariants ==
    << Invariant("field_absent", "bcc", {"mail"}, Sides),
       [Invariant("value_not_matches", "query", {"db"}, {"arguments"}) EXCEPT !.value = "DROP"] >>

\* One of every other kind.
MCCustomInvariants ==
    {Invariant("field_present", "to", {"mail"}, {"arguments"}),
     [Invariant("value_matches", "bcc", {"mail"}, {"output"}) EXCEPT !.value = "address"],
     [Invariant("value_in_set", "query", {"db"}, {"output"}) EXCEPT !.members = {"select"}],
     [Invariant("value_not_in_set", "query", {"mail"}, {"arguments"})
        EXCEPT !.members = {"DROP t"}],
     [Invariant("max_length", "query", {"db"}, Sides) EXCEPT !.limit = 2],
     [Invariant("custom", "", {"db"}, {"output"})
        EXCEPT !.holds = {d \in MCDocuments : "to" \in DOMAIN d}]}
=============================================================================
