---------------------------- MODULE PolicyDelta ----------------------------
(***************************************************************************)
(* The root policy an executor installs, and the one operation that may    *)
(* change it: ApplySystemUpdatePortPolicyDelta of                          *)
(* src/pkg/contracts/system_update_port_policy.go.                         *)
(*                                                                         *)
(* A policy value stands for its canonical bytes: the decoder refuses      *)
(* bytes that are not the canonical encoding of what they decode to.  The  *)
(* fields no operation of the contract reads or writes (host identity,     *)
(* account ids, socket path, deployment profiles) are left out; targets is *)
(* a function because the decoder refuses a repeated service id.           *)
(***************************************************************************)
EXTENDS PortPlan

CONSTANTS
  Services,       \* the service ids on the host
  NoPolicy        \* the nil result of an operation that returns an error

RootDocker == [composePolicy: ComposePolicies, composeRev: Int]

ASSUME NoRootDockerAssumption == NoDocker \notin RootDocker

-----------------------------------------------------------------------------
(* The configuration bytes a target's ConfigSHA256 binds.                  *)

\* Neither configuration can be made for the control panel.
Configurable(type) == type \in ServiceTypes \ {"control_panel"}

ListenerConfig(type, port, revision) ==
  [type |-> type, port |-> port, revision |-> revision]

DockerConfig(type, published, container, revision) ==
  [type |-> type, published |-> published, container |-> container,
   revision |-> revision]

Config ==
  [type: ServiceTypes, port: Int, revision: Int]
    \cup [type: ServiceTypes, published: Int, container: Int, revision: Int]

ConfigOf(type, ref) ==
  IF ref.docker # NoDocker
    THEN DockerConfig(type, ref.docker.published, ref.docker.container, ref.configRev)
    ELSE ListenerConfig(type, ref.localPort, ref.configRev)

-----------------------------------------------------------------------------
(* decodeSystemUpdatePortRootPolicy: the policies that can be decoded.     *)

ValidRootTarget(target) ==
  /\ target.type \in ServiceTypes
  /\ ValidRevision(target.endpointRev)
  /\ ValidRevision(target.configRev)
  /\ ValidDigest(target.configSHA)
  /\ ValidPort(target.localPort, MinLocalPort)

ValidRootPolicy(policy) ==
  /\ ValidRevision(policy.sourceRev)
  /\ ValidRevision(policy.projectionRev)
  /\ ValidRevision(policy.policyRev)
  /\ \A s \in Services : ValidRootTarget(policy.targets[s])

-----------------------------------------------------------------------------
RootTargetMatchesRef(target, ref) ==
  /\ target.endpointRev = ref.appliedEndpointRev
  /\ target.configRev = ref.configRev
  /\ target.configSHA = ref.configSHA
  /\ target.localPort = ref.localPort
  /\ (target.docker = NoDocker) <=> (ref.docker = NoDocker)
  /\ target.docker # NoDocker =>
       /\ target.docker.composeRev = ref.docker.composeRev
       /\ target.docker.composePolicy = ref.docker.composePolicy

\* The installed bytes are exactly those the before reference names.
PolicyMatchesRef(policy, ref) ==
  /\ Sha256(policy) = ref.executorSHA
  /\ policy.sourceRev = ref.sourceRev
  /\ policy.projectionRev = ref.projectionRev
  /\ policy.policyRev = ref.executorRev

DeltaStep(before, after) == after.sourceRev - before.sourceRev

\* Mutant of CountersAdvance: the lower bound of the step is missing.
CountersMove(before, after) ==
  LET step == DeltaStep(before, after)
  IN /\ step <= 2
     /\ after.configRev - before.configRev = step
     /\ after.executorRev - before.executorRev = step
     /\ after.endpointRev \in {before.endpointRev, before.endpointRev + step}
     /\ ValidRevision(after.sourceRev) /\ ValidRevision(after.configRev)
     /\ ValidRevision(after.executorRev) /\ ValidRevision(after.appliedEndpointRev)

\* The revision arithmetic of one delta.
CountersAdvance(before, after) ==
  LET step == DeltaStep(before, after)
  IN /\ step \in 0 .. 2
     /\ after.projectionRev - before.projectionRev = step
     /\ after.executorRev - before.executorRev = step
     /\ after.configRev - before.configRev = step
     /\ ValidRevision(after.sourceRev)
     /\ ValidRevision(after.projectionRev)
     /\ ValidRevision(after.executorRev)
     /\ ValidRevision(after.configRev)
     /\ ValidRevision(after.appliedEndpointRev)
     /\ after.endpointRev \in {before.endpointRev, before.endpointRev + step}
     /\ after.appliedEndpointRev \in {before.appliedEndpointRev, after.endpointRev}

\* One step moves the listener; two steps put it and its endpoint back.
MovesOrRestores(before, after) ==
  LET step == DeltaStep(before, after)
  IN /\ step = 1 => ~LocalEqual(before, after)
     /\ step = 2 => /\ after.advertisedPort = before.advertisedPort
                    /\ after.advertisedSHA = before.advertisedSHA
                    /\ LocalEqual(before, after)

DockerFollows(before, after) ==
  before.docker # NoDocker =>
    /\ ValidDockerSnapshot(after.docker, after.localPort)
    /\ after.docker.composeRev = before.docker.composeRev + DeltaStep(before, after)
    /\ after.docker.composePolicy = before.docker.composePolicy
    /\ after.docker.image = before.docker.image

MovedDocker(docker, after) ==
  IF docker = NoDocker THEN NoDocker
  ELSE [docker EXCEPT !.composeRev = after.docker.composeRev]

\* Mutant of MovedTarget: the digest of the old configuration is kept.
MovedTargetKeepsDigest(target, after) ==
  [target EXCEPT !.endpointRev = after.appliedEndpointRev,
                 !.configRev   = after.configRev,
                 !.localPort   = after.localPort,
                 !.docker      = MovedDocker(target.docker, after)]

MovedTarget(target, after) ==
  [target EXCEPT !.endpointRev = after.appliedEndpointRev,
                 !.configRev   = after.configRev,
                 !.configSHA   = after.configSHA,
                 !.localPort   = after.localPort,
                 !.docker      = MovedDocker(target.docker, after)]

\* Mutant of Rewritten: the loop does not skip the other services' targets.
RewrittenEverywhere(policy, service, after) ==
  [sourceRev     |-> after.sourceRev,
   projectionRev |-> after.projectionRev,
   policyRev     |-> after.executorRev,
   targets       |-> [s \in Services |->
                        IF SameDeployment(policy.targets[s], after)
                          THEN MovedTarget(policy.targets[s], after)
                          ELSE policy.targets[s]]]

\* The policy with one target, and only it, moved to the after reference.
Rewritten(policy, service, after) ==
  [sourceRev     |-> after.sourceRev,
   projectionRev |-> after.projectionRev,
   policyRev     |-> after.executorRev,
   targets       |-> [policy.targets EXCEPT
                        ![service] = MovedTarget(policy.targets[service], after)]]

\* The checks a delta of step 1 or 2 passes before it rewrites the policy.
MayRewrite(policy, service, before, after) ==
  /\ DeltaStep(before, after) # 0
  /\ MovesOrRestores(before, after)
  /\ Configurable(policy.targets[service].type)
  /\ after.configSHA = Sha256(ConfigOf(policy.targets[service].type, after))
  /\ DockerFollows(before, after)

\* Mutant of DeltaAllowed: the installed policy is not compared with Before.
DeltaAllowedUnmatched(policy, service, before, after) ==
  /\ ValidRootPolicy(policy)
  /\ CountersAdvance(before, after)
  /\ SameDeployment(before, after)
  /\ SameDeployment(policy.targets[service], before)
  /\ \/ before = after
     \/ /\ MayRewrite(policy, service, before, after)
        /\ after.executorSHA \in {NoDigest, Sha256(Rewritten(policy, service, after))}

\* Mutant of DeltaAllowed: of the installed policy only the listener is compared.
DeltaAllowedByListener(policy, service, before, after) ==
  /\ DeltaAllowedUnmatched(policy, service, before, after)
  /\ policy.targets[service].localPort = before.localPort

\* Every check of ApplySystemUpdatePortPolicyDelta.  An after reference
\* without an executor digest asks for the bytes to bind it to.
DeltaAllowed(policy, service, before, after) ==
  /\ ValidRootPolicy(policy)
  /\ service \in Services
  /\ PolicyMatchesRef(policy, before)
  /\ CountersAdvance(before, after)
  /\ ValidPort(after.localPort, MinLocalPort)
  /\ ValidDigest(after.configSHA)
  /\ SameDeployment(before, after)
  /\ policy.targets[service].type # "control_panel"
  /\ RootTargetMatchesRef(policy.targets[service], before)
  /\ \/ before = after
     \/ /\ MayRewrite(policy, service, before, after)
        /\ after.executorSHA \in {NoDigest, Sha256(Rewritten(policy, service, after))}

\* ApplySystemUpdatePortPolicyDelta: the new policy bytes, or NoPolicy.
ApplyDelta(policy, service, before, after) ==
  IF ~DeltaAllowed(policy, service, before, after) THEN NoPolicy
  ELSE IF before = after THEN policy
  ELSE Rewritten(policy, service, after)
=============================================================================
