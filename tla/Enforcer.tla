------------------------------ MODULE Enforcer ------------------------------
(***************************************************************************)
(* advanced/invariants.py: InvariantEnforcer compares the arguments and    *)
(* the outputs of tools with declared invariants.  A document is a map     *)
(* from the dotted paths that _resolve_path() finds in it to values; a     *)
(* value is what the kinds of invariants tell apart of it.                 *)
(***************************************************************************)
EXTENDS Naturals, SequencesExt

CONSTANTS
    Documents,      \* arguments and outputs; a value says whether it is text, is truthy
                    \* and has a hash, what expressions find in it, what it equals,
                    \* and how long it is
    DocTools,       \* the kinds of tool names the patterns tell apart
    BUILTIN_INVARIANTS, CustomInvariants,   \* a sequence and a set of invariants
    MaxCustom       \* bound on the invariants added

Sides == {"arguments", "output"}

\* Of an invariant: the `value` as an expression, as the `members` of a set or as a
\* `limit` of length; `holds`, the documents its predicate is true of.
InvariantType == {"field_absent", "field_present", "value_matches", "value_not_matches",
                  "value_in_set", "value_not_in_set", "max_length", "custom"}

ASSUME DocumentsAssumption ==
    \A d \in Documents : \A path \in DOMAIN d :
        /\ DOMAIN d[path] = {"text", "truthy", "finds", "length", "equals", "hashed"}
        /\ d[path].length \in Nat
ASSUME InvariantsAssumption ==
    /\ BUILTIN_INVARIANTS \in Seq(Range(BUILTIN_INVARIANTS))
    /\ \A inv \in Range(BUILTIN_INVARIANTS) \cup CustomInvariants :
        /\ inv.type \in InvariantType /\ inv.sides \subseteq Sides
        /\ inv.tools \subseteq DocTools /\ inv.limit \in Nat

VARIABLES
    invariants,     \* _invariants
    verdict,        \* of the last check: "passed", "refused" or "raised"
    asked           \* history: what was checked last, and how many invariants there were

enforcerVars == <<invariants, verdict, asked>>

EnforcerInit == /\ invariants \in {<< >>, BUILTIN_INVARIANTS}
                /\ verdict = "passed" /\ asked = {}

Extended(inv) == Append(invariants, inv)

add_invariant(inv) == /\ Len(invariants) < Len(BUILTIN_INVARIANTS) + MaxCustom
                      /\ invariants' = Extended(inv)
                      /\ UNCHANGED <<verdict, asked>>

\* _evaluate(): what violates inv.  A field that is present and falsy counts as
\* absent; a value that is no text has no length and matches nothing.
Violated(inv, doc) ==
    LET found == inv.path \in DOMAIN doc
        is_text == found /\ doc[inv.path].text
    IN  \/ inv.type = "custom" /\ doc \notin inv.holds
        \/ inv.type = "field_absent" /\ found /\ doc[inv.path].truthy
        \/ inv.type = "field_present" /\ ~found
        \/ inv.type = "value_matches" /\ is_text /\ inv.value \notin doc[inv.path].finds
        \/ inv.type = "value_not_matches" /\ is_text /\ inv.value \in doc[inv.path].finds
        \/ inv.type = "value_in_set" /\ found /\ doc[inv.path].equals \notin inv.members
        \/ inv.type = "value_not_in_set" /\ found /\ doc[inv.path].equals \in inv.members
        \/ inv.type = "max_length" /\ is_text /\ doc[inv.path].length > inv.limit

\* A value without a hash cannot be looked up in a set.
Unhashable(inv, doc) == /\ inv.type \in {"value_in_set", "value_not_in_set"}
                        /\ inv.path \in DOMAIN doc /\ ~doc[inv.path].hashed

Applicable(tool, side) == {i \in DOMAIN invariants :
                              tool \in invariants[i].tools /\ side \in invariants[i].sides}

\* check_call() and check_output().
Enforced(tool, side, doc) ==
    LET applied == {invariants[i] : i \in Applicable(tool, side)}
    IN  IF \E inv \in applied : Unhashable(inv, doc) THEN "raised"
        ELSE IF \E inv \in applied : Violated(inv, doc) THEN "refused" ELSE "passed"

check(tool, side, doc) ==
    /\ verdict' = Enforced(tool, side, doc)
    /\ asked' = {[tool |-> tool, side |-> side, doc |-> doc, upto |-> Len(invariants)]}
    /\ UNCHANGED invariants

EnforcerNext == \/ \E inv \in CustomInvariants : add_invariant(inv)
                \/ \E tool \in DocTools, side \in Sides, doc \in Documents : check(tool, side, doc)

EnforcerSpec == EnforcerInit /\ [][EnforcerNext]_enforcerVars
-----------------------------------------------------------------------------
\* What the comment on a kind of invariant says of a document (invariants.py:32-39).
Worded(inv, doc) ==
    LET found == inv.path \in DOMAIN doc
        v == doc[inv.path]
    IN  CASE inv.type = "field_absent"      -> ~found
          [] inv.type = "field_present"     -> found
          [] inv.type = "value_matches"     -> found /\ inv.value \in v.finds
          [] inv.type = "value_not_matches" -> found => inv.value \notin v.finds
          [] inv.type = "value_in_set"      -> found /\ v.equals \in inv.members
          [] inv.type = "value_not_in_set"  -> found => v.equals \notin inv.members
          [] inv.type = "max_length"        -> found => v.length <= inv.limit
          [] inv.type = "custom"            -> doc \in inv.holds

\* Where the code is milder than the comment.
Lenient(inv, doc) ==
    LET found == inv.path \in DOMAIN doc
    IN  \/ inv.type = "field_absent" /\ found /\ ~doc[inv.path].truthy
        \/ inv.type \in {"value_matches", "value_in_set"} /\ ~found
        \/ /\ inv.type \in {"value_matches", "value_not_matches", "max_length"}
           /\ found /\ ~doc[inv.path].text

\* A check that does not raise passes exactly the documents of which every
\* applicable invariant there was, built in or added, is true by its comment or by
\* one of the exceptions of Lenient (invariants.py:32-39 against 183-294).
EnforcedAsWorded ==
    \A a \in asked : verdict # "raised" =>
        (verdict = "passed" <=> \A i \in Applicable(a.tool, a.side) : i <= a.upto =>
            Worded(invariants[i], a.doc) \/ Lenient(invariants[i], a.doc))
=============================================================================
