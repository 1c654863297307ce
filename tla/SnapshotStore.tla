--------------------------- MODULE SnapshotStore ----------------------------
(***************************************************************************)
(* Policy snapshots of a host whose policy is changed by the requests made *)
(* from them.  Each accepted request makes a world: a root policy and the  *)
(* endpoints and containers that go with it.  The Control Panel keeps the  *)
(* source policy, the bindings, the target states and a copy of the root   *)
(* policy apart, so each may still be of an earlier world when it is read, *)
(* and the four are read one after the other.  What is read is stored if   *)
(* it is a valid snapshot.  How the tables are written is the Control      *)
(* Panel's affair and outside the repository: the model lets every table   *)
(* lag as it likes, and only never go back.                                *)
(***************************************************************************)
EXTENDS PolicySnapshot, SequencesExt

CONSTANTS
  InitWorlds,     \* the worlds a host may be enrolled with
  IdOf,           \* the target id of each service
  Orders,         \* the orders a table may be read in, sequences of services
  LocalPorts,     \* ports a request may name
  ContainerPorts, \* ports a request may name for a container
  AdvertisedPorts,\* ports a request may advertise
  MaxWorlds       \* bound: how often the policy changes, plus one

\* A host is enrolled with a policy that can be decoded, and an endpoint and
\* a container, or none, for each of its services.
ASSUME InitWorldsAssumption ==
  \A w \in InitWorlds :
    /\ w.policy.sourceRev \in Revision
    /\ DOMAIN w.policy.targets = Services
    /\ DOMAIN w.endpoints = Services
    /\ DOMAIN w.dockers = Services
    /\ \A s \in Services : w.policy.targets[s].configRev \in Revision

ASSUME IdOfAssumption == IdOf \in [Services -> Nat]

\* A table has a row for each service.
ASSUME OrdersAssumption ==
  \A order \in Orders : order \in Seq(Services) /\ ToSet(order) = Services

VARIABLES
  worlds,         \* every world so far, the last is the host's
  versions,       \* the world each table was of when it was last read
  desired,        \* the world whose endpoints were desired at that time
  read,           \* the tables read for the next snapshot
  stored          \* the stored snapshots

vars == <<worlds, versions, desired, read, stored>>

Tables == {"root", "source", "bindings", "targets"}

-----------------------------------------------------------------------------
(* The rows of a world.                                                    *)

SourceRow(world, s) ==
  LET target == world.policy.targets[s]
  IN [target |-> IdOf[s], service |-> s, type |-> target.type, mode |-> ModeOf(target)]

BindingRow(world, s) ==
  LET target == world.policy.targets[s]
  IN [target |-> IdOf[s], service |-> s, revision |-> world.policy.sourceRev,
      localPort |-> IF target.type = "control_panel" \/ target.docker # NoDocker
                    THEN NoPort ELSE target.localPort]

\* A target state tells the endpoint that is desired from the one applied.
TargetRow(world, wanted, s) ==
  LET target == world.policy.targets[s]
  IN [target |-> IdOf[s], service |-> s, type |-> target.type,
      desired |-> wanted.endpoints[s], applied |-> world.endpoints[s],
      endpointRev |-> wanted.policy.targets[s].endpointRev,
      appliedEndpointRev |-> target.endpointRev, configRev |-> target.configRev,
      configSHA |-> target.configSHA, localPort |-> target.localPort,
      docker |-> world.dockers[s]]

InOrder(order, Row(_)) == [i \in DOMAIN order |-> Row(order[i])]

SourceOf(world, order) ==
  [revision |-> world.policy.sourceRev, projectionRev |-> world.policy.projectionRev,
   executorRev |-> world.policy.policyRev, executorSHA |-> Sha256(world.policy),
   targets |-> InOrder(order, LAMBDA s : SourceRow(world, s))]

World(table) == worlds[versions[table]]

\* What was read, each table in an order of its own.
Assembled(sourceOrder, bindingOrder, targetOrder) ==
  [epoch    |-> 1,
   source   |-> SourceOf(World("source"), sourceOrder),
   bindings |-> InOrder(bindingOrder, LAMBDA s : BindingRow(World("bindings"), s)),
   targets  |-> InOrder(targetOrder,
                        LAMBDA s : TargetRow(World("targets"), worlds[desired], s)),
   root     |-> World("root").policy]

Candidates ==
  { Assembled(o[1], o[2], o[3]) : o \in Orders \X Orders \X Orders }

\* A snapshot but for the order of its rows.
Content(snapshot) ==
  [snapshot EXCEPT !.bindings = ToSet(@), !.targets = ToSet(@), !.source.targets = ToSet(@)]

-----------------------------------------------------------------------------
Init ==
  /\ \E w \in InitWorlds : worlds = <<w>>
  /\ versions = [t \in Tables |-> 1]
  /\ desired = 1
  /\ read = {}
  /\ stored = {}

\* A table may lag behind by any number of worlds.
Read(table) ==
  /\ table \notin read
  /\ \E v \in versions[table] .. Len(worlds) : versions' = [versions EXCEPT ![table] = v]
  /\ desired' = IF table = "targets" THEN Len(worlds) ELSE desired
  /\ read' = read \cup {table}
  /\ UNCHANGED <<worlds, stored>>

\* MarshalSystemUpdatePortPolicySnapshot: the canonical bytes, and their name.
Store ==
  /\ read = Tables
  /\ \E snapshot \in { c \in Candidates : ValidPolicySnapshot(c) } :
       stored' = stored \cup {[content |-> Content(snapshot), kept |-> Normalized(snapshot),
                               identity |-> SnapshotIdentity(snapshot)]}
  /\ read' = {}
  /\ UNCHANGED <<worlds, versions, desired>>

Refuse ==
  /\ read = Tables
  /\ \A c \in Candidates : ~ValidPolicySnapshot(c)
  /\ read' = {}
  /\ UNCHANGED <<worlds, versions, desired, stored>>

-----------------------------------------------------------------------------
(* Requests.                                                               *)

StoredRow(snapshot, s) ==
  CHOOSE row \in ToSet(snapshot.targets) : row.service = s

BeforeRef(snapshot, row) ==
  [snapshot           |-> SnapshotIdentity(snapshot),
   sourceRev          |-> snapshot.source.revision,
   projectionRev      |-> snapshot.source.projectionRev,
   executorRev        |-> snapshot.source.executorRev,
   executorSHA        |-> snapshot.source.executorSHA,
   endpointRev        |-> row.endpointRev,
   appliedEndpointRev |-> row.appliedEndpointRev,
   configRev          |-> row.configRev,
   configSHA          |-> row.configSHA,
   advertisedPort     |-> row.applied.port,
   advertisedSHA      |-> Sha256(row.applied),
   localPort          |-> row.localPort,
   docker             |-> row.docker]

Requests(entry, row) ==
  [mode: Modes, snapshot: {entry.identity}, endpointRev: {row.endpointRev},
   localPort: LocalPorts \cup {NoPort}, published: LocalPorts \cup {NoPort},
   container: ContainerPorts \cup {NoPort}, advertised: AdvertisedPorts \cup {NoPort}]

\* The Control Panel takes a local port for a unit and two for a container.
Fits(request, row) == (request.localPort = NoPort) <=> (row.docker # NoDocker)

\* The listener a step leads to: the requested one, or back to the one before.
Listener(before, request, step) ==
  IF step = 2 THEN before.localPort
  ELSE IF before.docker = NoDocker THEN request.localPort ELSE request.published

MovedContainer(before, request, step) ==
  IF before.docker = NoDocker THEN NoDocker
  ELSE [before.docker EXCEPT
          !.published  = Listener(before, request, step),
          !.container  = IF step = 2 THEN @ ELSE request.container,
          !.composeRev = @ + step]

EndpointAfter(row, request, step) ==
  IF step = 2 \/ request.advertised = NoPort THEN row.applied
  ELSE [row.applied EXCEPT !.port = request.advertised]

\* Step 1 is the requested change, step 2 the rollback of one that never began.
AfterRef(before, row, request, step) ==
  LET advances == request.advertised \notin {NoPort, before.advertisedPort}
      wanted   == EndpointAfter(row, request, step)
      after    == [before EXCEPT
                     !.sourceRev          = @ + step,
                     !.projectionRev      = @ + step,
                     !.executorRev        = @ + step,
                     !.executorSHA        = NoDigest,
                     !.endpointRev        = IF advances THEN @ + step ELSE @,
                     !.appliedEndpointRev = IF advances THEN before.endpointRev + step ELSE @,
                     !.configRev          = @ + step,
                     !.advertisedPort     = wanted.port,
                     !.advertisedSHA      = Sha256(wanted),
                     !.localPort          = Listener(before, request, step),
                     !.docker             = MovedContainer(before, request, step)]
  IN [after EXCEPT !.configSHA = Sha256(ConfigOf(row.type, after))]

\* A request made from any stored snapshot, applied to the installed policy.
Change(entry, s) ==
  LET now    == Last(worlds)
      row    == StoredRow(entry.kept, s)
      before == BeforeRef(entry.kept, row)
  IN /\ Len(worlds) < MaxWorlds
     /\ \E request \in Requests(entry, row), step \in 1 .. 2 :
          LET after == AfterRef(before, row, request, step)
              next  == ApplyDelta(now.policy, s, before, after)
          IN /\ ValidCreate(request)
             /\ Fits(request, row)
             /\ next # NoPolicy
             /\ worlds' = Append(worlds,
                  [policy    |-> next,
                   endpoints |-> [now.endpoints EXCEPT ![s] = EndpointAfter(row, request, step)],
                   dockers   |-> [now.dockers EXCEPT ![s] = after.docker],
                   from      |-> entry.identity])
     /\ UNCHANGED <<versions, desired, read, stored>>

Next ==
  \/ \E table \in Tables : Read(table)
  \/ Store
  \/ Refuse
  \/ \E entry \in stored, s \in Services : Change(entry, s)

Spec == Init /\ [][Next]_vars

-----------------------------------------------------------------------------
(* Properties.                                                             *)

\* A target state but for the revision under which its endpoint was asked for,
\* which also counts endpoints that were desired and given up again.
StateAtRest(row) ==
  [f \in DOMAIN row \ {"endpointRev"} |-> row[f]]

\* The desired endpoint of each target is the one of that world, as the applied is.
TakenOf(snapshot, world) ==
  /\ snapshot.root = world.policy
  /\ ToSet(snapshot.source.targets) = { SourceRow(world, s) : s \in Services }
  /\ ToSet(snapshot.bindings) = { BindingRow(world, s) : s \in Services }
  /\ { StateAtRest(row) : row \in ToSet(snapshot.targets) } =
       { StateAtRest(TargetRow(world, world, s)) : s \in Services }

\* However far the four tables were apart when they were read, a snapshot that
\* was accepted shows the host as it was at one moment: its policy, bindings,
\* listeners and containers, and endpoints that are desired as they are applied
\* (ValidateSystemUpdatePortPolicySnapshot).
OneMoment ==
  \A entry \in stored : \E w \in DOMAIN worlds : TakenOf(entry.kept, worlds[w])

\* The identity names the content: the order rows were stored or read in does
\* not matter and everything else does (ComputeSystemUpdatePortSnapshotIdentity).
IdentityIsContent ==
  \A a, b \in stored : a.identity = b.identity <=> a.content = b.content

\* A stored snapshot is itself when it is restored, and with bindings that were
\* restored from elsewhere only if those are the same (EqualSystemUpdatePortPolicySnapshots).
RestoredIsStored ==
  \A a, b \in stored :
    LET restored == [a.kept EXCEPT !.bindings = Reverse(b.kept.bindings)]
    IN EqualPolicySnapshots(a.kept, restored) <=>
         a.content.bindings = b.content.bindings

\* Of the requests made from one snapshot at most one ever changes the policy,
\* also when the ports it moved have been moved back since.
OneChangePerSnapshot ==
  \A i, j \in 2 .. Len(worlds) : worlds[i].from = worlds[j].from => i = j

-----------------------------------------------------------------------------
(* Why all of this holds: the invariant the proofs rest on.                *)

\* A table that was read was of a world there had been.
Known == versions \in [Tables -> DOMAIN worlds]

\* Every change raises the source revision.
Ranked ==
  /\ \A i \in DOMAIN worlds : worlds[i].policy.sourceRev \in Revision
  /\ \A i, j \in DOMAIN worlds :
       i < j => worlds[i].policy.sourceRev < worlds[j].policy.sourceRev

\* A world was made from a stored snapshot of the source revision before it.
MadeFromStored ==
  \A i \in 2 .. Len(worlds) :
    \E entry \in stored :
      /\ worlds[i].from = entry.identity
      /\ worlds[i - 1].policy.sourceRev = entry.kept.source.revision

WholeWorld(world) ==
  /\ DOMAIN world.policy.targets = Services
  /\ DOMAIN world.endpoints = Services
  /\ DOMAIN world.dockers = Services
  /\ \A s \in Services : world.policy.targets[s].configRev \in Revision

SameService(left, right, s) ==
  /\ left.policy.targets[s] = right.policy.targets[s]
  /\ left.endpoints[s] = right.endpoints[s]
  /\ left.dockers[s] = right.dockers[s]

\* Nothing of a service changes but with its configuration revision, which grows.
Versioned ==
  /\ \A i \in DOMAIN worlds : WholeWorld(worlds[i])
  /\ \A i, j \in DOMAIN worlds, s \in Services :
       i < j => \/ SameService(worlds[i], worlds[j], s)
                \/ worlds[i].policy.targets[s].configRev < worlds[j].policy.targets[s].configRev

\* The fields of a snapshot, and no others.
HasFields(snapshot) ==
  snapshot = [epoch    |-> snapshot.epoch,
              source   |-> [revision      |-> snapshot.source.revision,
                            projectionRev |-> snapshot.source.projectionRev,
                            executorRev   |-> snapshot.source.executorRev,
                            executorSHA   |-> snapshot.source.executorSHA,
                            targets       |-> snapshot.source.targets],
              bindings |-> snapshot.bindings,
              targets  |-> snapshot.targets,
              root     |-> snapshot.root]

InTargetOrder(rows) ==
  /\ rows \in Seq(ToSet(rows))
  /\ \A i \in DOMAIN rows : rows[i].target \in Nat
  /\ \A i, j \in DOMAIN rows : i < j => rows[i].target < rows[j].target

InNormalForm(snapshot) ==
  /\ HasFields(snapshot)
  /\ ValidPolicySnapshot(snapshot)
  /\ InTargetOrder(snapshot.source.targets)
  /\ InTargetOrder(snapshot.bindings)
  /\ InTargetOrder(snapshot.targets)

\* A snapshot is stored in normal form, under the digest of what is kept of it.
NamedByContent ==
  \A entry \in stored :
    /\ InNormalForm(entry.kept)
    /\ entry.content = Content(entry.kept)
    /\ entry.identity = Sha256(entry.kept)

\* The invariant.
Inductive ==
  /\ worlds \in Seq(ToSet(worlds)) /\ Len(worlds) > 0
  /\ Known
  /\ Ranked
  /\ Versioned
  /\ MadeFromStored
  /\ NamedByContent
  /\ OneMoment
=============================================================================
