------------------------------ MODULE Detectors ------------------------------
(***************************************************************************)
(* mcp_monitor/detectors: what each detector says of a tool call or of a   *)
(* tool output.  A text is what the regular expressions tell apart of it:  *)
(* the names that match the text once it is normalised, those that match   *)
(* each block or rotation decoded from it, the characters normalising      *)
(* takes out, the kinds of personal data, and whether it holds a URL that  *)
(* is suspect.                                                             *)
(***************************************************************************)
EXTENDS Integers, FiniteSetsExt

CONSTANTS Patterns,     \* the names in INJECTION_PATTERNS
          PIITypes      \* the keys of PII_PATTERNS

ASSUME DetectorsAssumption == IsFiniteSet(Patterns) /\ IsFiniteSet(PIITypes)

Hidden == {"zero_width_chars_detected", "unicode_bidi_override"}

\* A block that is encoded twice decodes to an encoded text: it matches nothing.
Text == [normal : SUBSET Patterns, decoded : SUBSET (SUBSET Patterns),
         hidden : SUBSET Hidden, pii : SUBSET PIITypes, url : BOOLEAN]

\* Where a recipient can be hidden; a blank field counts in a nested payload only.
Recipients == {"none", "blank", "field", "header", "nested"}

\* The variants that are scanned: the normalised text first, then what it decodes to.
normalize_input(t) == {t.normal} \cup t.decoded

\* PromptInjectionDetector, its first passes: the names matched, each once.
_prescan(t) == t.hidden
RegexMatched(texts) == UNION {_prescan(texts[i]) \cup UNION normalize_input(texts[i]) : i \in DOMAIN texts}

RegexRisk(matched) == Min({30 + 15 * Cardinality(matched), 100})

\* Its last pass, with the probability in percent the classifier gives.
ml_threshold == 70
MLRisk(proba) == IF proba >= ml_threshold THEN Min({(proba * 80) \div 100, 80}) ELSE 0

\* PIIDetector.scan_tool_call, detect: the types found in any of the texts.
PIIFound(texts, others) == others \cup UNION {texts[i].pii : i \in DOMAIN texts}

detect_bcc_injection(payload) == payload.recipient \notin {"none", "blank"}

\* ExfiltrationDetector.detect: how many reasons it gives; one for each text
\* with a URL, whatever number of patterns the text matches.
ExfilReasons(tool, payload) ==
    (IF tool.email /\ detect_bcc_injection(payload) THEN 1 ELSE 0)
    + (IF payload.oversized THEN 1 ELSE 0) + (IF payload.blob THEN 1 ELSE 0)
    + Cardinality({i \in DOMAIN payload.texts : payload.texts[i].url})

\* Only the look for a recipient asks that the payload be an object.
ExfilRaises(tool, payload) == tool.email /\ ~payload.object
=============================================================================
