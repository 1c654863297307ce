----------------------------- MODULE RootPolicy -----------------------------
(***************************************************************************)
(* A host's installed root policy and the port plans made for it.          *)
(*                                                                         *)
(* The Control Panel reads the installed policy, derives the Target and    *)
(* Rollback of a plan with ApplyDelta (an after reference without its      *)
(* executor digest), validates the plan and publishes it.  Nothing stops   *)
(* it from publishing several plans for one policy, for one service or for *)
(* several; a plan stays published while the policy moves on.  An executor *)
(* may try, at any time and in any order, to move the policy between any   *)
(* two references of any published plan: late, repeated and reordered      *)
(* commands are all among its steps.  Neither program is part of the       *)
(* repository.  What they may do is bounded by its validators only, so     *)
(* every property below is a property of ValidPlan and ApplyDelta.         *)
(***************************************************************************)
EXTENDS PolicyDelta, FiniteSets

CONSTANTS
  InitPolicies,   \* the policies a host may be enrolled with
  LocalPorts,     \* ports a plan may move a listener to
  ContainerPorts, \* ports a plan may move a container's listener to
  Endpoints,      \* advertised endpoints, records with a port
  MaxPlans        \* bound: how many plans are ever published

VARIABLES
  root,           \* the installed policy
  plans,          \* the published plans, with the service each is for
  installed       \* every policy ever installed (observed by properties only)

vars == <<root, plans, installed>>

Target ==
  [type: ServiceTypes, endpointRev: Revision, configRev: Revision,
   configSHA: {"sha256"} \X Config, localPort: MinLocalPort .. MaxPort,
   docker: [composePolicy: ComposePolicies, composeRev: Revision] \cup {NoDocker}]

Policy ==
  [sourceRev: Revision, projectionRev: Revision, policyRev: Revision,
   targets: [Services -> Target]]

\* Snapshot references, bound to the bytes of a policy or not yet.
Ref ==
  [snapshot: ({"sha256"} \X (Policy \X Int \X Endpoints)) \cup {NoDigest},
   sourceRev: Int, projectionRev: Int, executorRev: Int,
   executorSHA: ({"sha256"} \X Policy) \cup {NoDigest},
   endpointRev: Int, appliedEndpointRev: Int,
   configRev: Int, configSHA: {"sha256"} \X Config,
   advertisedPort: Int, advertisedSHA: {"sha256"} \X Endpoints,
   localPort: Int, docker: DockerSnapshot \cup {NoDocker}]

\* The digest in a target is the digest of a configuration for its own type,
\* port and revision.
ConfigBoundTarget(target) ==
  IF target.docker = NoDocker
    THEN target.configSHA =
           Sha256(ListenerConfig(target.type, target.localPort, target.configRev))
    ELSE \E container \in MinLocalPort .. MaxPort :
           target.configSHA =
             Sha256(DockerConfig(target.type, target.localPort, container, target.configRev))

ASSUME InitPoliciesAssumption ==
  \A p \in InitPolicies :
    /\ p \in Policy
    /\ \A s \in Services : ConfigBoundTarget(p.targets[s])

ASSUME MaxPlansAssumption == MaxPlans \in Nat

ASSUME PortsAssumption ==
  /\ LocalPorts \subseteq Int
  /\ ContainerPorts \subseteq Int
  /\ \A e \in Endpoints : e.port \in Int

ASSUME NoPolicyAssumption == NoPolicy \notin Policy

-----------------------------------------------------------------------------
(* Deriving a plan.                                                        *)

\* The policy snapshot a reference names: the policy bytes and the endpoint
\* the Control Panel keeps for the service.
SnapshotSHA256(policy, endpointRev, endpoint) ==
  Sha256(<<policy, endpointRev, endpoint>>)

\* The policy does not hold the container port; the configuration whose digest
\* it holds does, and the Control Panel reads it from there.
BeforeDockers(target) ==
  IF target.docker = NoDocker THEN {NoDocker}
  ELSE { [published |-> target.localPort, container |-> c,
          composePolicy |-> target.docker.composePolicy,
          composeRev |-> target.docker.composeRev, image |-> i] :
         i \in Images,
         c \in { c \in ContainerPorts : target.configSHA =
                 Sha256(DockerConfig(target.type, target.localPort, c, target.configRev)) } }

\* A reference to service s as it is; the endpoint it advertises, and how far
\* the desired endpoint counter leads the applied one, are the Control Panel's.
BeforeRef(policy, s, endpoint, lead, docker) ==
  LET target == policy.targets[s]
  IN [snapshot           |-> SnapshotSHA256(policy, target.endpointRev + lead, endpoint),
      sourceRev          |-> policy.sourceRev,
      projectionRev      |-> policy.projectionRev,
      executorRev        |-> policy.policyRev,
      executorSHA        |-> Sha256(policy),
      endpointRev        |-> target.endpointRev + lead,
      appliedEndpointRev |-> target.endpointRev,
      configRev          |-> target.configRev,
      configSHA          |-> target.configSHA,
      advertisedPort     |-> endpoint.port,
      advertisedSHA      |-> Sha256(endpoint),
      localPort          |-> target.localPort,
      docker             |-> docker]

BeforeRefs(policy, s) ==
  { BeforeRef(policy, s, endpoint, lead, docker) :
      endpoint \in Endpoints, lead \in 0 .. 1, docker \in BeforeDockers(policy.targets[s]) }

\* What a plan may want of a reference.  The counters may take any step: it is
\* the validators that choose.
Wants(before) ==
  [step: 1 .. 2, endpointStep: 0 .. 2, endpoint: Endpoints, port: LocalPorts,
   container: IF before.docker = NoDocker THEN {MinLocalPort} ELSE ContainerPorts,
   appliesEndpoint: BOOLEAN]

WantedDocker(before, want) ==
  IF before.docker = NoDocker THEN NoDocker
  ELSE [before.docker EXCEPT !.published = want.port, !.container = want.container,
                             !.composeRev = @ + want.step]

\* The wanted reference, before it is bound to the bytes of a policy.
WantedRef(before, want) ==
  [before EXCEPT !.snapshot           = NoDigest,
                 !.sourceRev          = @ + want.step,
                 !.projectionRev      = @ + want.step,
                 !.executorRev        = @ + want.step,
                 !.executorSHA        = NoDigest,
                 !.endpointRev        = @ + want.endpointStep,
                 !.appliedEndpointRev = IF want.appliesEndpoint
                                        THEN before.endpointRev + want.endpointStep ELSE @,
                 !.configRev          = @ + want.step,
                 !.advertisedPort     = want.endpoint.port,
                 !.advertisedSHA      = Sha256(want.endpoint),
                 !.localPort          = want.port,
                 !.docker             = WantedDocker(before, want)]

\* The same with the digest of the configuration it asks for.
Configured(type, ref) == [ref EXCEPT !.configSHA = Sha256(ConfigOf(type, ref))]

\* The same bound to the bytes ApplyDelta returned for it.
Bound(policy, ref, endpoint) ==
  [ref EXCEPT !.executorSHA = Sha256(policy),
              !.snapshot    = SnapshotSHA256(policy, ref.endpointRev, endpoint)]

\* The references ApplyDelta can derive from before.
Derived(policy, s, before) ==
  UNION { LET ref    == Configured(policy.targets[s].type, WantedRef(before, want))
              result == ApplyDelta(policy, s, before, ref)
          IN IF result = NoPolicy THEN {} ELSE {Bound(result, ref, want.endpoint)} :
          want \in Wants(before) }

Baseline(before, container) ==
  IF before.docker = NoDocker THEN NoDocker
  ELSE [containerID |-> container, image |-> before.docker.image,
        composeRev |-> before.docker.composeRev]

Seal(plan) == [plan EXCEPT !.planSHA256 = PlanSHA256(plan)]

PlanOf(mode, before, target, rollback, container) ==
  Seal([mode |-> mode, before |-> before, target |-> target, rollback |-> rollback,
        dockerBaseline |-> Baseline(before, container), planSHA256 |-> NoDigest])

-----------------------------------------------------------------------------
Init ==
  /\ root \in InitPolicies
  /\ plans = {}
  /\ installed = {root}

Publish(s, plan) ==
  /\ ValidPlan(plan)
  /\ plans' = plans \cup {[service |-> s, plan |-> plan]}
  /\ UNCHANGED <<root, installed>>

\* A plan that moves service s.
PublishMove(s) ==
  /\ Cardinality(plans) < MaxPlans
  /\ \E before \in BeforeRefs(root, s) :
       \E target, rollback \in Derived(root, s, before) :
         \E mode \in Modes, container \in Containers :
           Publish(s, PlanOf(mode, before, target, rollback, container))

\* A plan that only verifies where service s is.
PublishNoOp(s) ==
  /\ Cardinality(plans) < MaxPlans
  /\ \E before \in BeforeRefs(root, s) :
       /\ ApplyDelta(root, s, before, before) # NoPolicy
       /\ \E mode \in Modes, container \in Containers :
            Publish(s, PlanOf(mode, before, before, before, container))

Refs(plan) == {plan.before, plan.target, plan.rollback}

\* An executor moves the policy between two references of a published plan.
Execute(job, s, from, to) ==
  LET policy == ApplyDelta(root, s, from, to)
  IN /\ policy # NoPolicy
     /\ root' = policy
     /\ installed' = installed \cup {policy}
     /\ UNCHANGED plans

Next ==
  \/ \E s \in Services : PublishMove(s) \/ PublishNoOp(s)
  \/ \E job \in plans, s \in Services :
       \E from, to \in Refs(job.plan) : Execute(job, s, from, to)

Spec == Init /\ [][Next]_vars
-----------------------------------------------------------------------------
(* Properties.                                                             *)

TypeOK ==
  /\ root \in Policy
  /\ installed \subseteq Policy
  /\ \A job \in plans :
       /\ job.service \in Services
       /\ Refs(job.plan) \subseteq Ref
       /\ ValidPlan(job.plan)
  /\ Cardinality(plans) <= MaxPlans

\* The digest a policy holds for a service is always the digest of the
\* configuration of that service's type, ports and revision: no sequence of
\* moves and rollbacks leaves a target bound to another target's bytes.
ConfigBound == \A s \in Services : ConfigBoundTarget(root.targets[s])

\* A policy digest is never installed twice: a rollback is a new policy with
\* the old ports, so no stale reference can come to match again (ABA).
NeverReinstalled == [][root' # root => root' \notin installed]_vars

\* A change touches one target that is not the control panel, whose type and
\* compose policy it keeps and whose endpoint revision it never lowers.
OnlyOneTargetChanges ==
  [][root' # root =>
       \E s \in Services :
         /\ root.targets[s].type # "control_panel"
         /\ \A other \in Services \ {s} : root'.targets[other] = root.targets[other]
         /\ root'.targets[s].type = root.targets[s].type
         /\ root'.targets[s].endpointRev >= root.targets[s].endpointRev
         /\ (root'.targets[s].docker = NoDocker) <=> (root.targets[s].docker = NoDocker)
         /\ root.targets[s].docker # NoDocker =>
              root'.targets[s].docker.composePolicy = root.targets[s].docker.composePolicy]_vars

Named(ref) == \E policy \in installed : Sha256(policy) = ref.executorSHA

\* Of the plans made for one policy at most one moves it: two whose targets
\* were both installed are plans for the same target bytes.
OneWinner ==
  \A p, q \in plans :
    /\ p.plan.before.executorSHA = q.plan.before.executorSHA
    /\ ~PlanIsNoOp(p.plan) /\ ~PlanIsNoOp(q.plan)
    /\ Named(p.plan.target) /\ Named(q.plan.target)
    => p.plan.target.executorSHA = q.plan.target.executorSHA

\* A published plan whose Before or Target is installed can always be rolled
\* back, right up to the revision limit, and both ways lead to the same bytes.
RollbackReady ==
  \A job \in plans :
    LET b == job.plan.before
        t == job.plan.target
        r == job.plan.rollback
    IN /\ Sha256(root) = b.executorSHA =>
            /\ ApplyDelta(root, job.service, b, t) # NoPolicy
            /\ ApplyDelta(root, job.service, b, r) # NoPolicy
            /\ ApplyDelta(ApplyDelta(root, job.service, b, t), job.service, t, r)
                 = ApplyDelta(root, job.service, b, r)
       /\ Sha256(root) = t.executorSHA =>
            ApplyDelta(root, job.service, t, r) # NoPolicy

\* A before reference whose container port is the one the policy's digest binds.
Describes(before, target) == target.configSHA = Sha256(ConfigOf(target.type, before))

DerivedFromInstalled(job) ==
  \E policy \in installed :
    /\ Describes(job.plan.before, policy.targets[job.service])
    /\ DeltaAllowed(policy, job.service, job.plan.before, job.plan.target)
    /\ DeltaAllowed(policy, job.service, job.plan.before, job.plan.rollback)

\* Why all of this holds: a source revision identifies an installed policy, the
\* last has the highest, and each plan was derived from a policy installed.
Inductive ==
  /\ TypeOK
  /\ ConfigBound
  /\ root \in installed
  /\ \A old \in installed : old.sourceRev <= root.sourceRev
  /\ \A x, y \in installed : x.sourceRev = y.sourceRev => x = y
  /\ \A job \in plans : DerivedFromInstalled(job)

\* Everything but the counters that say it is newer.
SamePlace(left, right) ==
  /\ left.type = right.type
  /\ left.localPort = right.localPort
  /\ left.configSHA[2] = [right.configSHA[2] EXCEPT !.revision = left.configRev]

\* A rolled back policy listens exactly where the plan's Before did, on every
\* service, although none of its revisions is an old one.
RollbackRestores ==
  \A job \in plans :
    \A old \in installed :
      /\ Sha256(old) = job.plan.before.executorSHA
      /\ Sha256(root) = job.plan.rollback.executorSHA
      => \A s \in Services : SamePlace(root.targets[s], old.targets[s])

\* A plan's Target is reached from its Before only: once the policy has moved
\* on, no late or repeated command of the plan can apply it again.
TargetOnlyFromBefore ==
  [][\A job \in plans :
       root' # root /\ ~PlanIsNoOp(job.plan)
         /\ Sha256(root') = job.plan.target.executorSHA
       => Sha256(root) = job.plan.before.executorSHA]_vars
=============================================================================
