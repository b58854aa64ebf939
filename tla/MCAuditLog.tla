----------------------------- MODULE MCAuditLog -----------------------------
(* A small instance of AuditLog.                                           *)
EXTENDS AuditLog, TLC

\* A tuple is written as a JSON array and read back as a list.
TupleToList(d) == IF d = "tuple" THEN "list" ELSE d

SmallGarbage == {Genesis, <<"list">>}

Symmetry == Permutations(Procs)
=============================================================================
