--------------------------- MODULE PolicySnapshot ---------------------------
(***************************************************************************)
(* What the Control Panel stores of a host before it makes a plan: the     *)
(* source policy, the bindings, the states of the targets and the root     *)
(* policy, read separately and validated together.  From                   *)
(* ValidateSystemUpdatePortPolicySnapshot of system_update_port_policy.go, *)
(* its identity in system_update_port_v2.go and the create request that    *)
(* names it in system_update_port_validation.go.                           *)
(*                                                                         *)
(* Rows are sequences, in the order they were read.  A target id is a      *)
(* number, for its place in the order of identifiers.  Hosts, which are    *)
(* sets treated as bindings are, credential references, database names     *)
(* and the fields every row repeats (updater, host) are left out.          *)
(***************************************************************************)
EXTENDS PolicyDelta, Sequences, FiniteSets

CONSTANTS
  NoPort          \* the nil pointer of an optional port

\* Lengths agree, so rows without repetition match the source targets one by one.
Unrepeated(rows) ==
  \A i, j \in DOMAIN rows : rows[i].target = rows[j].target => i = j

RowOf(rows, target) == { i \in DOMAIN rows : rows[i].target = target }

ModeOf(row) == IF row.docker = NoDocker THEN "systemd" ELSE "docker"

ValidEndpoint(endpoint) == ValidPort(endpoint.port, MinPort)

-----------------------------------------------------------------------------
\* The source policy and the root policy name each other's revisions.
PoliciesAgree(source, root) ==
  /\ source.revision = root.sourceRev
  /\ source.projectionRev = root.projectionRev
  /\ source.executorRev = root.policyRev
  /\ source.executorSHA = Sha256(root)

\* Mutant of BindingOfRevision: bindings of any revision are taken.
BindingOfAnyRevision(binding, source) == TRUE

BindingOfRevision(binding, source) == binding.revision = source.revision

\* Mutant of Settled: a state whose desired endpoint is not applied yet is taken.
SettledOrNot(row) == TRUE

\* No endpoint is in transition.
Settled(row) == row.desired = row.applied

ValidTargetState(row) ==
  /\ row.type \in ServiceTypes
  /\ ValidRevision(row.endpointRev)
  /\ ValidRevision(row.appliedEndpointRev)
  /\ row.appliedEndpointRev <= row.endpointRev
  /\ ValidRevision(row.configRev)
  /\ ValidDigest(row.configSHA)
  /\ ValidPort(row.localPort, MinLocalPort)
  /\ ValidEndpoint(row.desired)
  /\ ValidEndpoint(row.applied)
  /\ Settled(row)
  /\ row.docker # NoDocker => ValidDockerSnapshot(row.docker, row.localPort)

\* Only the listener of a systemd target is bound by the binding table.
BindsListener(binding, row) ==
  CASE row.type = "control_panel"  -> binding.localPort \in {NoPort, 0}
    [] row.type # "control_panel" /\ row.docker # NoDocker -> binding.localPort = NoPort
    [] OTHER                       -> binding.localPort = row.localPort

\* The fields of a target state that portRootTargetMatchesRef compares.
RefOf(row) ==
  [appliedEndpointRev |-> row.appliedEndpointRev, configRev |-> row.configRev,
   configSHA |-> row.configSHA, localPort |-> row.localPort, docker |-> row.docker]

\* What the four documents say of one target of the source policy.
TargetAgrees(entry, binding, row, root) ==
  /\ entry.service \in Services
  /\ entry.service = row.service
  /\ entry.service = binding.service
  /\ entry.type = row.type
  /\ entry.mode = ModeOf(row)
  /\ root.targets[entry.service].type = entry.type
  /\ BindsListener(binding, row)
  /\ RootTargetMatchesRef(root.targets[entry.service], RefOf(row))

\* ValidateSystemUpdatePortPolicySnapshot.
ValidPolicySnapshot(snapshot) ==
  LET source == snapshot.source
      root   == snapshot.root
  IN /\ ValidRevision(snapshot.epoch)
     /\ ValidRootPolicy(root)
     /\ PoliciesAgree(source, root)
     /\ Len(source.targets) = Len(snapshot.targets)
     /\ Len(source.targets) = Len(snapshot.bindings)
     /\ Len(source.targets) = Cardinality(Services)
     /\ Unrepeated(source.targets) /\ Unrepeated(snapshot.bindings)
     /\ Unrepeated(snapshot.targets)
     /\ \A i \in DOMAIN snapshot.bindings : BindingOfRevision(snapshot.bindings[i], source)
     /\ \A i \in DOMAIN snapshot.targets : ValidTargetState(snapshot.targets[i])
     /\ \A e \in DOMAIN source.targets :
          LET target == source.targets[e].target
          IN /\ RowOf(snapshot.bindings, target) # {}
             /\ \A b \in RowOf(snapshot.bindings, target),
                   t \in RowOf(snapshot.targets, target) :
                  TargetAgrees(source.targets[e], snapshot.bindings[b],
                               snapshot.targets[t], root)
             /\ RowOf(snapshot.targets, target) # {}

-----------------------------------------------------------------------------
\* The rows of a valid snapshot in the order of their targets, which differ.
ByTarget(rows) ==
  CHOOSE sorted \in [DOMAIN rows -> { rows[i] : i \in DOMAIN rows }] :
    \A i, j \in DOMAIN rows : i < j => sorted[i].target < sorted[j].target

\* Mutant of Normalized: the bindings stay in the order they were read in.
NormalizedButBindings(snapshot) ==
  [snapshot EXCEPT !.targets = ByTarget(@), !.source.targets = ByTarget(@)]

\* normalizeSystemUpdatePortPolicySnapshot of a valid snapshot: what is stored.
Normalized(snapshot) ==
  [snapshot EXCEPT !.bindings = ByTarget(@), !.targets = ByTarget(@),
                   !.source.targets = ByTarget(@)]

\* "ps1:" and the digest of the canonical form, or nothing.
SnapshotIdentity(snapshot) ==
  IF ValidPolicySnapshot(snapshot) THEN Sha256(Normalized(snapshot)) ELSE NoDigest

\* Mutant of EqualPolicySnapshots: the policies are compared, not the bindings.
EqualPolicies(left, right) ==
  left.source = right.source /\ left.root = right.root

\* The complete snapshots are compared, by the identity of each.
EqualPolicySnapshots(left, right) ==
  /\ ValidDigest(SnapshotIdentity(left))
  /\ SnapshotIdentity(left) = SnapshotIdentity(right)

-----------------------------------------------------------------------------
\* ValidateSystemUpdatePortCreate: a request names the snapshot it was made
\* from and either a local port or the two ports of a container.
ValidCreate(request) ==
  /\ request.mode \in Modes
  /\ ValidDigest(request.snapshot)
  /\ ValidRevision(request.endpointRev)
  /\ IF request.localPort # NoPort
       THEN /\ ValidPort(request.localPort, MinLocalPort)
            /\ request.published = NoPort /\ request.container = NoPort
       ELSE /\ request.published # NoPort /\ ValidPort(request.published, MinLocalPort)
            /\ request.container # NoPort /\ ValidPort(request.container, MinLocalPort)
  /\ IF request.mode = "local_only"
       THEN request.advertised = NoPort
       ELSE request.advertised # NoPort /\ ValidPort(request.advertised, MinPort)
=============================================================================
