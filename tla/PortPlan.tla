------------------------------ MODULE PortPlan ------------------------------
(***************************************************************************)
(* The port reconfiguration contract of                                    *)
(* src/pkg/contracts/system_update_port_v2.go: snapshot references, the    *)
(* immutable Before/Target/Rollback plan and the result that observes it.  *)
(*                                                                         *)
(* Bytes are represented by what they encode and SHA-256 by an injective   *)
(* constructor, so two digests are equal exactly when the digested bytes   *)
(* are.  A reference's SnapshotID is "ps1:" and the hexadecimal of its     *)
(* SnapshotSHA256: the two are one field here.  Four Docker fields that    *)
(* the code only ever compares for equality (image, repository digest,     *)
(* version environment and the fixed loopback host) are one field, image,  *)
(* and HealthPort, which must equal PublishedPort, is that field.          *)
(***************************************************************************)
EXTENDS Integers

CONSTANTS
  MaxRevision,    \* updaterMaxJCSSafeInteger, 2^53 - 1 in the code
  Images,         \* identities of a container image and its version environment
  ComposePolicies,\* digests of a compose port policy
  Containers,     \* container identifiers
  NoDocker        \* the nil pointer of an optional Docker field

ASSUME MaxRevisionAssumption == MaxRevision \in Nat \ {0}

ASSUME NoDockerAssumption ==
  NoDocker \notin [published: Int, container: Int, composePolicy: ComposePolicies,
                   composeRev: Int, image: Images]

-----------------------------------------------------------------------------
\* The digest of some bytes, and the empty string a digest field may hold.
Sha256(bytes) == <<"sha256", bytes>>
NoDigest == <<>>
ValidDigest(d) == d # NoDigest

MinLocalPort == 1024
MinPort == 1
MaxPort == 65535

Revision == 1 .. MaxRevision
ValidRevision(value) == value > 0 /\ value <= MaxRevision
\* Mutant of ValidPort: the lower bound is one too low.
PortFromBelow(value, minimum) == minimum - 1 <= value /\ value <= MaxPort

ValidPort(value, minimum) == minimum <= value /\ value <= MaxPort

Modes == {"local_only", "local_and_advertised"}

\* The services of the application: what a port command or a policy may target.
ServiceTypes ==
  {"control_panel", "worker", "encoder_recorder", "discord_bot", "observability"}

DockerSnapshot ==
  [published: Int, container: Int, composePolicy: ComposePolicies,
   composeRev: Int, image: Images]

ValidDockerSnapshot(docker, localPort) ==
  /\ docker.published = localPort
  /\ ValidPort(docker.published, MinLocalPort)
  /\ ValidPort(docker.container, MinLocalPort)
  /\ ValidRevision(docker.composeRev)

ValidSnapshotRef(ref) ==
  /\ ValidDigest(ref.snapshot)
  /\ ValidRevision(ref.sourceRev)
  /\ ValidRevision(ref.projectionRev)
  /\ ValidRevision(ref.executorRev)
  /\ ValidRevision(ref.endpointRev)
  /\ ValidRevision(ref.appliedEndpointRev)
  /\ ref.appliedEndpointRev <= ref.endpointRev
  /\ ValidRevision(ref.configRev)
  /\ ValidDigest(ref.executorSHA)
  /\ ValidDigest(ref.configSHA)
  /\ ValidDigest(ref.advertisedSHA)
  /\ ValidPort(ref.advertisedPort, MinPort)
  /\ ValidPort(ref.localPort, MinLocalPort)
  /\ ref.docker # NoDocker => ValidDockerSnapshot(ref.docker, ref.localPort)

SameDeployment(left, right) == (left.docker = NoDocker) <=> (right.docker = NoDocker)

\* Mutant of LocalEqual: the container's own port is not compared.
PublishedEqual(left, right) ==
  left.localPort = right.localPort /\ SameDeployment(left, right)

\* Two references put the listener at the same place on the host.
LocalEqual(left, right) ==
  /\ left.localPort = right.localPort
  /\ SameDeployment(left, right)
  /\ left.docker # NoDocker =>
       /\ left.docker.published = right.docker.published
       /\ left.docker.container = right.docker.container

-----------------------------------------------------------------------------
\* A plan that changes nothing: it is still executed, and must be observed.
PlanIsNoOp(plan) == plan.before = plan.target /\ plan.before = plan.rollback

\* The plan digest is computed over the plan with its digest field emptied.
PlanSHA256(plan) == Sha256([plan EXCEPT !.planSHA256 = NoDigest])

\* The container the plan was made for is the one the Before reference names.
BaselineMatches(plan) ==
  IF plan.before.docker = NoDocker
    THEN plan.dockerBaseline = NoDocker
    ELSE /\ plan.dockerBaseline # NoDocker
         /\ plan.dockerBaseline.containerID \in Containers
         /\ plan.dockerBaseline.image = plan.before.docker.image
         /\ plan.dockerBaseline.composeRev = plan.before.docker.composeRev

\* A port move never changes the image or the compose policy of the container.
SameContainer(before, next) ==
  /\ SameDeployment(before, next)
  /\ before.docker # NoDocker =>
       /\ next.docker.image = before.docker.image
       /\ next.docker.composePolicy = before.docker.composePolicy

\* How many endpoint revisions one step of this plan takes.
AdvertisedDelta(plan) ==
  IF plan.target.advertisedPort # plan.before.advertisedPort THEN 1 ELSE 0

AdvertisedChange(plan) ==
  /\ plan.mode = "local_only" => AdvertisedDelta(plan) = 0
  /\ AdvertisedDelta(plan) = 0 <=> plan.target.advertisedSHA = plan.before.advertisedSHA

\* Mutant of Follows: the endpoint counters are not part of the step.
FollowsPolicyOnly(before, next, step, delta) ==
  /\ next.sourceRev = before.sourceRev + step
  /\ next.configRev = before.configRev + step
  /\ next.executorSHA # before.executorSHA
  /\ next.configSHA # before.configSHA

\* The reference "step" steps after the Before reference: the target is one
\* step away and the rollback, a new state and not a return, is two.
Follows(before, next, step, delta) ==
  /\ next.sourceRev = before.sourceRev + step
  /\ next.projectionRev = before.projectionRev + step
  /\ next.executorRev = before.executorRev + step
  /\ next.configRev = before.configRev + step
  /\ next.endpointRev = before.endpointRev + step * delta
  /\ next.appliedEndpointRev = IF delta = 0 THEN before.appliedEndpointRev
                                            ELSE before.endpointRev + step
  /\ next.executorSHA # before.executorSHA
  /\ next.configSHA # before.configSHA
  /\ next.snapshot # before.snapshot
  /\ before.docker # NoDocker => next.docker.composeRev = before.docker.composeRev + step

ChangesThenRestores(plan) ==
  LET b == plan.before
      t == plan.target
      r == plan.rollback
  IN /\ ~LocalEqual(b, t)
     /\ LocalEqual(b, r)
     /\ r.advertisedPort = b.advertisedPort
     /\ r.advertisedSHA = b.advertisedSHA
     /\ AdvertisedChange(plan)
     /\ Follows(b, t, 1, AdvertisedDelta(plan))
     /\ Follows(b, r, 2, AdvertisedDelta(plan))
     /\ t.configSHA # r.configSHA
     /\ t.executorSHA # r.executorSHA
     /\ t.snapshot # r.snapshot

ValidPlan(plan) ==
  /\ plan.mode \in Modes
  /\ ValidSnapshotRef(plan.before)
  /\ ValidSnapshotRef(plan.target)
  /\ ValidSnapshotRef(plan.rollback)
  /\ SameContainer(plan.before, plan.target)
  /\ SameContainer(plan.before, plan.rollback)
  /\ BaselineMatches(plan)
  /\ PlanIsNoOp(plan) \/ ChangesThenRestores(plan)
  /\ plan.planSHA256 = PlanSHA256(plan)

-----------------------------------------------------------------------------
\* Mutant of ObservationVerified: the Agent's projection is not looked at.
ObservationWithoutAgent(observation) ==
  /\ observation.policyDisk
  /\ observation.policyMemory
  /\ observation.listener

\* The four places a finished transition must have been seen in.
ObservationVerified(observation) ==
  /\ observation.policyDisk
  /\ observation.policyMemory
  /\ observation.agentProjection
  /\ observation.listener

\* What an executor reports about a reference it has observed.
Observes(result, ref) ==
  /\ result.snapshot = ref.snapshot
  /\ result.configRev = ref.configRev
  /\ result.configSHA = ref.configSHA
  /\ result.executorRev = ref.executorRev
  /\ result.executorSHA = ref.executorSHA

ObservesNothing(result) ==
  /\ result.snapshot = NoDigest
  /\ result.configRev = 0
  /\ result.configSHA = NoDigest
  /\ result.executorRev = 0
  /\ result.executorSHA = NoDigest
  /\ result.runtime = NoDocker

RuntimeMatches(plan, result, ref) ==
  IF ref.docker = NoDocker
    THEN result.runtime = NoDocker
    ELSE /\ result.runtime # NoDocker
         /\ result.runtime.containerID \in Containers
         /\ result.runtime.image = ref.docker.image
         /\ result.result = "unchanged" =>
              result.runtime.containerID = plan.dockerBaseline.containerID

\* The reference a result claims to have reached.
ClaimedRef(plan, result) ==
  CASE result.result = "applied"     -> plan.target
    [] result.result = "unchanged"   -> plan.before
    [] result.result = "rolled_back" -> plan.rollback

IsAcceptedResult(result) == result.result \in {"applied", "unchanged", "rolled_back"}

ValidResult(plan, result) ==
  /\ ValidPlan(plan)
  /\ result.observation.at # 0
  /\ \/ /\ result.result = "rollback_failed"
        /\ ObservesNothing(result)
        /\ ~PlanIsNoOp(plan)
        /\ ~ObservationVerified(result.observation)
     \/ /\ IsAcceptedResult(result)
        /\ result.result = "unchanged" <=> PlanIsNoOp(plan)
        /\ ObservationVerified(result.observation)
        /\ Observes(result, ClaimedRef(plan, result))
        /\ RuntimeMatches(plan, result, ClaimedRef(plan, result))
=============================================================================
