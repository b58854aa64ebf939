------------------------------ MODULE Semantic ------------------------------
(***************************************************************************)
(* layers/semantic.py: SemanticIntentAnalyzer.  Arguments are the keys and *)
(* the kinds of text found anywhere in them; every value is truthy, since  *)
(* a dangerous field with an empty value counts for nothing.               *)
(***************************************************************************)
EXTENDS Integers, FiniteSetsExt

CONSTANTS
    Keys,               \* names of arguments, normalised
    Synonyms,           \* those in EMAIL_RECIPIENT_SYNONYMS
    Resembles,          \* the first dangerous field a key contains or is part of
    EmailIndicators,    \* to, subject, body, from, message
    ExtraWords,         \* keys with copy, recipient, forward, redirect or mirror in them
    semantic_sensitivity    \* in percent

\* Fields, and how severe each is taken to be.
DANGEROUS_FIELD_SEMANTICS ==
    [extra_recipients |-> 90, additional_destinations |-> 85, mirror_addresses |-> 90,
     webhook_notify |-> 60, callback_url |-> 50, notification_endpoint |-> 55,
     audit_copy |-> 70]

ASSUME KeysAssumption ==
    /\ Synonyms \cup EmailIndicators \cup ExtraWords \cup DOMAIN Resembles \subseteq Keys
    /\ \A k \in DOMAIN Resembles : Resembles[k] \in DOMAIN DANGEROUS_FIELD_SEMANTICS

SemanticFinding(intent, confidence, severity) ==
    [intent |-> intent, confidence |-> confidence, severity |-> severity]

_check_synonyms(keys) ==
    {SemanticFinding("hidden_recipient", 95, 95) : k \in keys \cap Synonyms}

_check_exfil(marks) ==
    {SemanticFinding("data_exfil_intent", 80, 80) : m \in marks \cap {"exfil_text"}}

\* A key is compared with the dangerous names both ways, so "url" is taken for
\* callback_url and "destination" for additional_destinations.
_check_field_semantics(keys) ==
    {SemanticFinding("suspicious_field", 75, DANGEROUS_FIELD_SEMANTICS[Resembles[k]]) :
        k \in keys \cap DOMAIN Resembles}

_check_encoding(marks) ==
    {SemanticFinding("encoded_email", 90, 90) : m \in marks \cap {"encoded_email"}}

_check_multi_field(keys) ==
    {SemanticFinding("email_extra_recipient", 85, 85) :
        k \in {x \in keys \cap (ExtraWords \ EmailIndicators) : keys \cap EmailIndicators # {}}}

\* analyze_call(): the findings that are confident enough.
Significant(keys, marks) ==
    {f \in _check_synonyms(keys) \cup _check_exfil(marks) \cup _check_field_semantics(keys)
           \cup _check_encoding(marks) \cup _check_multi_field(keys) :
        f.confidence >= semantic_sensitivity}

IsDangerous(significant) == \E f \in significant : f.severity >= 70

SemanticRisk(significant) == Max({f.severity : f \in significant} \cup {0})
=============================================================================
