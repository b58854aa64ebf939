------------------------------- MODULE Manifest -------------------------------
(***************************************************************************)
(* advanced/manifest.py: manifests are signed by the team that holds the   *)
(* key, registered as baselines and compared with what servers advertise.  *)
(* Manifests are objects that whoever holds them can change, a baseline    *)
(* too.  HMAC-SHA256 is taken to be unforgeable: a signature by the team   *)
(* is the content that was signed.                                         *)
(***************************************************************************)
EXTENDS Integers, FiniteSets

CONSTANTS Objects,      \* ToolManifest objects
          ToolKeys,     \* server_id::tool_name
          Params,
          NoSchema,     \* of a parameter the manifest does not have
          Unsigned,     \* no signature
          Foreign,      \* a signature with any other key than the team's
          Contents,     \* [key : ToolKeys, description, parameters : [Params -> ...],
                        \*  capabilities : SET, version]: what canonical_bytes() covers
          MaxSigned     \* bound on the contents the team signs

ASSUME ContentsAssumption ==
    /\ Contents # {} /\ IsFiniteSet(Contents)
    /\ \A c \in Contents : /\ c.key \in ToolKeys
                           /\ c.parameters = [x \in Params |-> c.parameters[x]]
ASSUME SignaturesAssumption == {Unsigned, Foreign} \cap [signed : Contents] = {}

VARIABLES
    manifest,       \* the content and signature of each object
    registered,     \* _baselines: the object under each key
    signed          \* history: the contents the team has signed

manifestVars == <<manifest, registered, signed>>

ManifestInit ==
    /\ manifest = [o \in Objects |-> [content |-> CHOOSE c \in Contents : TRUE,
                                     signature |-> Unsigned]]
    /\ registered = [k \in ToolKeys |-> {}] /\ signed = {}

Signature(c) == [signed |-> c]

\* sign(), by the team.
sign(o) ==
    /\ manifest' = [manifest EXCEPT ![o].signature = Signature(manifest[o].content)]
    /\ signed' = signed \cup {manifest[o].content}
    /\ Cardinality(signed') <= MaxSigned
    /\ UNCHANGED registered

\* sign(), by somebody with another key.
sign_elsewhere(o) == /\ manifest' = [manifest EXCEPT ![o].signature = Foreign]
                     /\ UNCHANGED <<registered, signed>>

\* A field of an object is changed in place, its signature kept.
Change(o, c) == /\ manifest' = [manifest EXCEPT ![o].content = c]
                /\ UNCHANGED <<registered, signed>>

\* Another manifest with the same content and signature.
Copy(o, p) == /\ manifest' = [manifest EXCEPT ![p] = manifest[o]]
              /\ UNCHANGED <<registered, signed>>

\* The object is stored as it is, signed or not, and not copied.
register_baseline(o) ==
    /\ registered' = [registered EXCEPT ![manifest[o].content.key] = {o}]
    /\ UNCHANGED <<manifest, signed>>

\* Mutant: any valid signature of the stored content will do.
TamperedUnlessSigned(b) == b.signature = Unsigned

\* The signature of a baseline must be the team's, of what the baseline is now.
Tampered(b) == b.signature # Signature(b.content)

\* The baseline under a key, as it is now.
Baseline(key) == manifest[CHOOSE o \in registered[key] : TRUE]

\* verify(): the kinds of the violations found.  The versions are not compared.
verify(o) ==
    LET live == manifest[o].content IN
    IF registered[live.key] = {} THEN {"no_baseline"}
    ELSE LET b == Baseline(live.key)
             base == b.content
             Has(c, x) == c.parameters[x] # NoSchema
         IN {kind \in {"baseline_tampered", "description_drift", "params_added",
                       "params_removed", "param_modified", "capability_escalation",
                       "capability_reduction"} :
               CASE kind = "baseline_tampered" -> Tampered(b)
                 [] kind = "description_drift" -> live.description # base.description
                 [] kind = "params_added"   -> \E x \in Params : Has(live, x) /\ ~Has(base, x)
                 [] kind = "params_removed" -> \E x \in Params : ~Has(live, x) /\ Has(base, x)
                 [] kind = "param_modified" -> \E x \in Params : Has(live, x) /\ Has(base, x)
                                                   /\ live.parameters[x] # base.parameters[x]
                 [] kind = "capability_escalation" -> live.capabilities \ base.capabilities # {}
                 [] kind = "capability_reduction"  -> base.capabilities \ live.capabilities # {}}

ManifestNext == \E o \in Objects :
    \/ sign(o)
    \/ sign_elsewhere(o)
    \/ \E c \in Contents : Change(o, c)
    \/ \E p \in Objects : Copy(o, p)
    \/ register_baseline(o)

ManifestSpec == ManifestInit /\ [][ManifestNext]_manifestVars
-----------------------------------------------------------------------------
\* Whatever object was registered and whoever changed it since, also when the
\* baseline is the live manifest itself: a manifest that verifies has the
\* description, the parameters and the capabilities of one the team signed, and of
\* one for the same tool unless the registered object has become another tool's.
\* It may be of another version than any the team signed (manifest.py:117-148).
ValidIsAsSigned == \A o \in Objects : verify(o) = {} =>
    LET live == manifest[o].content
    IN  \E c \in signed : /\ c.description = live.description
                          /\ c.parameters = live.parameters
                          /\ c.capabilities = live.capabilities
                          /\ Baseline(live.key).content.key = live.key => c.key = live.key

\* What the code promises and does not keep: to "detect: ... Version rollback/jump"
\* (manifest.py:84-88).
RollbackDetected == \A o \in Objects : verify(o) = {} =>
    LET live == manifest[o].content
    IN  live.version = Baseline(live.key).content.version
=============================================================================
