-------------------------- MODULE MCReleasePipeline --------------------------
(* Two commits, of which CI has passed one, and the ways to start a run.  *)
EXTENDS ReleasePipeline, TLC

MCTriggers == AnyTrigger

\* The two ways a version is released; a dispatch on a tag behaves as a push.
MCReleasing ==
  {[event |-> "push", onTag |-> TRUE, pushRelease |-> FALSE],
   [event |-> "dispatch", onTag |-> FALSE, pushRelease |-> TRUE]}

\* The same and a dry run.
MCRetried ==
  MCReleasing \cup {[event |-> "dispatch", onTag |-> FALSE, pushRelease |-> FALSE]}

MCSymmetry == Permutations(Runs)
=============================================================================
