--------------------------- MODULE MCSchemaCache ----------------------------
(* One updater schema, a cover request and response with the catalogue they  *)
(* refer to and a preparation request.                                       *)
EXTENDS SchemaCache

MCUpdaterFiles == <<"desired">>
MCCoverFiles == <<"catalog", "request", "response">>
MCEmbeddedFiles == <<"catalog", "preparation", "request", "response", "desired">>
MCUpdaterKinds == <<"desired">>
MCCoverKinds == <<"request", "response">>
MCPreparationKinds == <<"preparation">>

MCSound(file) ==
  [json |-> TRUE, compiles |-> TRUE,
   id |-> IF file \in {"request", "response"} THEN Canonical(file) ELSE NoId]

MCFaulty(file) ==
  {[MCSound(file) EXCEPT !.json = FALSE], [MCSound(file) EXCEPT !.compiles = FALSE]}
    \cup { [MCSound(file) EXCEPT !.id = id] :
           id \in {Named(file), Canonical(file), Canonical("catalog")} }

\* A build is sound but for at most one file.
MCBuilds ==
  LET sound == [f \in ToSet(MCEmbeddedFiles) |-> MCSound(f)]
  IN UNION { { [sound EXCEPT ![f] = x] : x \in MCFaulty(f) } : f \in DOMAIN sound }
=============================================================================
