--------------------------- MODULE MCCoverRuntime ---------------------------
(* One stream that is started twice at most. *)
EXTENDS CoverRuntime

MCAttempts == {1, 2}

\* The second attempt is made for the same epoch.
MCEpoch == <<1, 1>>

MCStartCovers == {[active |-> TRUE, revision |-> 1, variant |-> "picture"]}

MCIdentifiers == {"stream", "picture", "logo"}
=============================================================================
