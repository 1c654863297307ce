--------------------------- MODULE TrustedRelease ---------------------------
(***************************************************************************)
(* What the release workflow promises of one version, seen from outside:   *)
(* what is shown under the version may change until it is sealed, and only *)
(* a sealed, complete release of a tested commit is ever called verified.  *)
(***************************************************************************)
CONSTANTS
  Commits,        \* commits of the repository
  Tested,         \* the commits CI has passed for
  Builds,         \* builds whose files may be attached to a release
  Nothing         \* no release is shown under the version

VARIABLES
  shown,          \* the public release of the version
  attested,       \* the builds whose files are attested
  trusted         \* the builds reported as verified

vars == <<shown, attested, trusted>>

\* Whose files the release has, whether exactly those and tagged with the commit
\* they were built from, that tag's commit, and whether it can still change.
Shown ==
  [build: Builds, commit: Commits, complete: BOOLEAN, sealed: BOOLEAN]

TypeOK ==
  /\ shown \in Shown \cup {Nothing}
  /\ attested \subseteq Builds
  /\ trusted \subseteq Builds

Sealed == shown # Nothing /\ shown.sealed

Init == shown = Nothing /\ attested = {} /\ trusted = {}

\* While it is not sealed, anything may be shown.
Show ==
  /\ ~Sealed
  /\ shown' \in Shown \cup {Nothing}
  /\ UNCHANGED <<attested, trusted>>

Attest ==
  /\ \E build \in Builds : attested' = attested \cup {build}
  /\ UNCHANGED <<shown, trusted>>

Trust ==
  /\ Sealed
  /\ shown.complete
  /\ shown.commit \in Tested
  /\ shown.build \in attested
  /\ trusted' = trusted \cup {shown.build}
  /\ UNCHANGED <<shown, attested>>

Next == Show \/ Attest \/ Trust

Spec == Init /\ [][Next]_vars

-----------------------------------------------------------------------------
\* What a consumer may rely on: what was verified is what is shown, for good.
TrustedIsShown ==
  trusted # {} =>
    /\ Sealed
    /\ trusted = {shown.build}
    /\ shown.complete
    /\ shown.commit \in Tested
    /\ shown.build \in attested
=============================================================================
