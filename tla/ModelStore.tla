------------------------------ MODULE ModelStore ------------------------------
(***************************************************************************)
(* defense10/ml_classifier.py: MLThreatClassifier, whose save() writes the *)
(* model and then its checksum, in place and without a lock, and whose     *)
(* load() takes only what matches.  Several processes share the files.  A  *)
(* checksum is modelled by the content it is of, SHA-256 being free of     *)
(* collisions; the checksum of no model matches anything.                  *)
(***************************************************************************)
CONSTANTS Processes,    \* each with one classifier
          Models,       \* what train() can make, as it is pickled
          NoModel,
          Absent,       \* no such file
          Empty,        \* a file opened to write and not written yet, or a checksum half written
          Partial       \* pieces of models, or of one

Contents == Models \cup {Absent, Empty, Partial}

ASSUME StoreAssumption == /\ {NoModel, Absent, Empty, Partial} \cap Models = {}
                          /\ Absent # Empty /\ Absent # Partial /\ Empty # Partial

VARIABLES
    pipeline,       \* _pipeline of each process
    origin,         \* where it is from: "none", "trained" or "loaded"
    step,           \* how far the process is in save() or load()
    expected,       \* load(): expected_hash
    model_file, checksum_file,
    held,           \* the contents the two files have had, which a disk may go back to
    sealed,         \* history: the models whose save() wrote a checksum
    alone,          \* history: the process whose save() has met no other so far
    kept            \* history: the model of the last save(), unless something disturbed it

files == <<model_file, checksum_file>>
storeVars == <<pipeline, origin, step, expected, files, held, sealed, alone, kept>>

Saving == {"opened", "written", "resealing"}
Steps == Saving \cup {"idle", "loading", "comparing"}

StoreInit ==
    /\ pipeline = [p \in Processes |-> NoModel] /\ origin = [p \in Processes |-> "none"]
    /\ step = [p \in Processes |-> "idle"] /\ expected = [p \in Processes |-> Absent]
    /\ model_file = Absent /\ checksum_file = Absent
    /\ held = [model |-> {Absent, Empty, Partial}, checksum |-> {Absent, Empty}]
    /\ sealed = {} /\ alone = {} /\ kept = NoModel

Is(p, from) == step[p] = from
Goes(p, to) == step' = [step EXCEPT ![p] = to]

\* train(), and save() as far as the open() that empties the file.
train(p, m) ==
    /\ Is(p, "idle") /\ Goes(p, "opened")
    /\ pipeline' = [pipeline EXCEPT ![p] = m] /\ origin' = [origin EXCEPT ![p] = "trained"]
    /\ model_file' = Empty /\ kept' = NoModel
    /\ alone' = IF \E q \in Processes : step[q] \in Saving THEN {} ELSE {p}
    /\ UNCHANGED <<expected, checksum_file, held, sealed>>

\* The model is written over what is there by now: what another process wrote
\* since, if it is longer, sticks out behind it.
write_model(p) ==
    /\ Is(p, "opened") /\ Goes(p, "written")
    /\ \/ model_file' = pipeline[p]
       \/ model_file # Empty /\ model_file' = Partial
    /\ held' = [held EXCEPT !.model = @ \cup {pipeline[p]}]
    /\ UNCHANGED <<pipeline, origin, expected, checksum_file, sealed, alone, kept>>

open_checksum(p) ==
    /\ Is(p, "written") /\ Goes(p, "resealing") /\ checksum_file' = Empty
    /\ UNCHANGED <<pipeline, origin, expected, model_file, held, sealed, alone, kept>>

\* Checksums are of one length: one is written over another without a trace.
write_checksum(p) ==
    /\ Is(p, "resealing") /\ Goes(p, "idle") /\ checksum_file' = pipeline[p]
    /\ held' = [held EXCEPT !.checksum = @ \cup {pipeline[p]}]
    /\ sealed' = sealed \cup {pipeline[p]}
    /\ kept' = IF p \in alone THEN pipeline[p] ELSE NoModel
    /\ alone' = {} /\ UNCHANGED <<pipeline, origin, expected, model_file>>

\* open() or write() raises, in the middle of the model or before it.
save_raises(p) ==
    /\ step[p] \in Saving /\ Goes(p, "idle")
    /\ \/ UNCHANGED model_file
       \/ Is(p, "opened") /\ model_file' = Partial
    /\ alone' = alone \ {p}
    /\ UNCHANGED <<pipeline, origin, expected, checksum_file, held, sealed, kept>>
-----------------------------------------------------------------------------
\* load(): both files have to be there; else it returns False.
load(p) ==
    /\ Is(p, "idle") /\ Absent \notin {model_file, checksum_file} /\ Goes(p, "loading")
    /\ UNCHANGED <<pipeline, origin, expected, files, held, sealed, alone, kept>>

read_checksum(p) ==
    /\ Is(p, "loading") /\ Goes(p, "comparing")
    /\ expected' = [expected EXCEPT ![p] = checksum_file]
    /\ UNCHANGED <<pipeline, origin, files, held, sealed, alone, kept>>

\* Mutant: an empty checksum is taken for none, which is not compared.
MatchesIfAny(p) == expected[p] \in {model_file, Empty}

Matches(p) == expected[p] = model_file /\ expected[p] \in Models

read_model(p) ==
    /\ Is(p, "comparing") /\ Goes(p, "idle")
    /\ IF Matches(p) THEN /\ pipeline' = [pipeline EXCEPT ![p] = model_file]
                          /\ origin' = [origin EXCEPT ![p] = "loaded"]
       ELSE UNCHANGED <<pipeline, origin>>
    /\ expected' = [expected EXCEPT ![p] = Absent]
    /\ UNCHANGED <<files, held, sealed, alone, kept>>
-----------------------------------------------------------------------------
Forgets(P) ==
    /\ pipeline' = [p \in Processes |-> IF p \in P THEN NoModel ELSE pipeline[p]]
    /\ origin' = [p \in Processes |-> IF p \in P THEN "none" ELSE origin[p]]
    /\ step' = [p \in Processes |-> IF p \in P THEN "idle" ELSE step[p]]
    /\ expected' = [p \in Processes |-> IF p \in P THEN Absent ELSE expected[p]]
    /\ alone' = alone \ P

\* A process ends between two steps, or in the middle of writing the model.
StoreCrash(p) ==
    /\ Forgets({p})
    /\ \/ UNCHANGED model_file
       \/ Is(p, "opened") /\ model_file' = Partial
    /\ UNCHANGED <<checksum_file, held, sealed, kept>>

\* Nothing is ever fsynced: each file may come back as it was at any time.
StorePowerLoss ==
    /\ Forgets(Processes)
    /\ model_file' \in held.model /\ checksum_file' \in held.checksum
    /\ kept' = NoModel /\ UNCHANGED <<held, sealed>>

StoreNext ==
    \/ \E p \in Processes :
         \/ \E m \in Models : train(p, m)
         \/ write_model(p) \/ open_checksum(p) \/ write_checksum(p) \/ save_raises(p)
         \/ load(p) \/ read_checksum(p) \/ read_model(p) \/ StoreCrash(p)
    \/ StorePowerLoss

StoreSpec == StoreInit /\ [][StoreNext]_storeVars
-----------------------------------------------------------------------------
StoreTypeOK ==
    /\ pipeline \in [Processes -> Models \cup {NoModel}]
    /\ origin \in [Processes -> {"none", "trained", "loaded"}]
    /\ step \in [Processes -> Steps] /\ expected \in [Processes -> Contents]
    /\ model_file \in Contents /\ checksum_file \in Contents
    /\ held \in [model : SUBSET Contents, checksum : SUBSET Contents]
    /\ sealed \subseteq Models /\ alone \subseteq Processes /\ kept \in Models \cup {NoModel}

\* A model that was loaded is one that a save() wrote down to its checksum, be it
\* in between the steps of other saves, after crashes or a loss of power
\* ("WITH integrity verification", ml_classifier.py:225-248).
LoadedIsSaved == \A p \in Processes : origin[p] = "loaded" => pipeline[p] \in sealed

\* What a save() wrote that met no other is what the next load() finds, whoever
\* trained, loaded or crashed before, until the next save() opens the file.
SavedLoads == kept # NoModel => model_file = kept /\ checksum_file = kept

StoreInv == StoreTypeOK /\ LoadedIsSaved /\ SavedLoads

\* Where a save() stands that meets no other: its model is written, and whole.
AloneInv == \A p \in alone :
    /\ step[p] \in Saving /\ \A q \in Processes \ {p} : step[q] \notin Saving
    /\ step[p] = "opened" => model_file = Empty
    /\ step[p] \in {"written", "resealing"} => model_file = pipeline[p]

\* What is kept is disturbed by every save().
KeptInv == kept # NoModel => \A p \in Processes : step[p] \notin Saving

\* A save() under way is of the model its process has trained.
SavingInv == \A p \in Processes :
    step[p] \in Saving => origin[p] = "trained" /\ pipeline[p] \in Models

\* Every checksum that is read or that may come back is that of a model saved.
ChecksumsSealed ==
    /\ checksum_file \in sealed \cup {Absent, Empty}
    /\ held.checksum \subseteq sealed \cup {Absent, Empty}
    /\ \A p \in Processes : expected[p] \in sealed \cup {Absent, Empty}

StoreIInv == StoreInv /\ SavingInv /\ ChecksumsSealed /\ AloneInv /\ KeptInv
=============================================================================
