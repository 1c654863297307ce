------------------------- MODULE MCArtifactAssembly -------------------------
(* Two artifacts, the first of two fragments and the second of one. *)
EXTENDS ArtifactAssembly, TLC

MCOutputs == <<"api", "schema">>
MCFragments == <<"f1", "f2", "f3">>
MCFragmentsOf == [o \in {"api", "schema"} |-> IF o = "api" THEN <<"f1", "f2">> ELSE <<"f3">>]

\* Runs differ by name only.
RunSymmetry == Permutations(Runs)
=============================================================================
