-------------------------- MODULE RootPolicyProofs --------------------------
(***************************************************************************)
(* Proofs about ApplyDelta and about the installed root policy, for every  *)
(* host, every set of ports and every revision limit.                      *)
(***************************************************************************)
EXTENDS RootPolicy, FiniteSetTheorems, TLAPS

(* What one delta returns.                                                 *)

\* A delta the checks allow returns a policy and never an error, so the test
\* "result # NoPolicy" is the test of the checks.
LEMMA ApplyDeltaAllowed ==
  ASSUME NEW policy, NEW s, NEW before, NEW after,
         ApplyDelta(policy, s, before, after) # NoPolicy
  PROVE  /\ DeltaAllowed(policy, s, before, after)
         /\ ApplyDelta(policy, s, before, after) =
              IF before = after THEN policy ELSE Rewritten(policy, s, after)
BY DEF ApplyDelta

\* The types of the fields of a reference.
LEMMA RefFields ==
  ASSUME NEW ref \in Ref
  PROVE  /\ ref.sourceRev \in Int
         /\ ref.projectionRev \in Int
         /\ ref.executorRev \in Int
         /\ ref.endpointRev \in Int
         /\ ref.appliedEndpointRev \in Int
         /\ ref.configRev \in Int
         /\ ref.localPort \in Int
         /\ ref.docker \in DockerSnapshot \cup {NoDocker}
BY DEF Ref

\* What the checks leave of the after reference of a delta that changes
\* something: its type and the range of everything Rewritten copies.
LEMMA RewriteFacts ==
  ASSUME NEW policy \in Policy, NEW s, NEW before \in Ref, NEW after \in Ref,
         DeltaAllowed(policy, s, before, after), before # after
  PROVE  /\ s \in Services
         /\ MayRewrite(policy, s, before, after)
         /\ after.sourceRev \in Revision
         /\ after.projectionRev \in Revision
         /\ after.executorRev \in Revision
         /\ after.configRev \in Revision
         /\ after.appliedEndpointRev \in Revision
         /\ after.localPort \in MinLocalPort .. MaxPort
         /\ (policy.targets[s].docker = NoDocker) <=> (after.docker = NoDocker)
         /\ (policy.targets[s].docker = NoDocker) <=> (before.docker = NoDocker)
         /\ after.docker # NoDocker =>
              /\ after.docker \in DockerSnapshot
              /\ after.docker.composeRev \in Revision
              /\ after.docker.published = after.localPort
              /\ after.docker.container \in MinLocalPort .. MaxPort
<1>1. /\ s \in Services
      /\ MayRewrite(policy, s, before, after)
      /\ CountersAdvance(before, after)
      /\ ValidPort(after.localPort, MinLocalPort)
      /\ SameDeployment(before, after)
      /\ RootTargetMatchesRef(policy.targets[s], before)
  BY DEF DeltaAllowed
<1>2. /\ after.sourceRev \in Revision
      /\ after.projectionRev \in Revision
      /\ after.executorRev \in Revision
      /\ after.configRev \in Revision
      /\ after.appliedEndpointRev \in Revision
  BY <1>1, RefFields, MaxRevisionAssumption DEF CountersAdvance, ValidRevision, Revision
<1>3. after.localPort \in MinLocalPort .. MaxPort
  BY <1>1, RefFields DEF ValidPort
<1>4. /\ (policy.targets[s].docker = NoDocker) <=> (before.docker = NoDocker)
      /\ (policy.targets[s].docker = NoDocker) <=> (after.docker = NoDocker)
  BY <1>1 DEF RootTargetMatchesRef, SameDeployment
<1>5. ASSUME after.docker # NoDocker
      PROVE  /\ after.docker \in DockerSnapshot
             /\ after.docker.composeRev \in Revision
             /\ after.docker.published = after.localPort
             /\ after.docker.container \in MinLocalPort .. MaxPort
  <2>1. after.docker \in DockerSnapshot
    BY <1>5, RefFields
  <2>2. ValidDockerSnapshot(after.docker, after.localPort)
    BY <1>1, <1>4, <1>5 DEF MayRewrite, DockerFollows
  <2>3. QED
    BY <2>1, <2>2, MaxRevisionAssumption
       DEF ValidDockerSnapshot, ValidRevision, ValidPort, Revision, DockerSnapshot
<1>6. QED
  BY <1>1, <1>2, <1>3, <1>4, <1>5

\* The configuration a reference names is one whose digest a target may hold.
LEMMA ConfigOfType ==
  ASSUME NEW type \in ServiceTypes, NEW ref \in Ref
  PROVE  ConfigOf(type, ref) \in Config
BY DEF ConfigOf, Config, ListenerConfig, DockerConfig, Ref, DockerSnapshot

\* A target that moves, field by field.
LEMMA MovedTargetFields ==
  ASSUME NEW target \in Target, NEW after
  PROVE  /\ MovedTarget(target, after).type = target.type
         /\ MovedTarget(target, after).endpointRev = after.appliedEndpointRev
         /\ MovedTarget(target, after).configRev = after.configRev
         /\ MovedTarget(target, after).configSHA = after.configSHA
         /\ MovedTarget(target, after).localPort = after.localPort
         /\ MovedTarget(target, after).docker = MovedDocker(target.docker, after)
BY DEF MovedTarget, Target

\* Rewriting touches the service's target and the three revisions.
LEMMA RewrittenFields ==
  ASSUME NEW policy \in Policy, NEW s \in Services, NEW after
  PROVE  /\ Rewritten(policy, s, after).sourceRev = after.sourceRev
         /\ Rewritten(policy, s, after).projectionRev = after.projectionRev
         /\ Rewritten(policy, s, after).policyRev = after.executorRev
         /\ Rewritten(policy, s, after).targets[s] = MovedTarget(policy.targets[s], after)
         /\ \A other \in Services \ {s} :
              Rewritten(policy, s, after).targets[other] = policy.targets[other]
BY DEF Rewritten, Policy

\* A moved Docker target stays a Docker target of the same compose policy.
LEMMA MovedDockerType ==
  ASSUME NEW docker \in [composePolicy: ComposePolicies, composeRev: Revision],
         NEW after, after.docker.composeRev \in Revision
  PROVE  /\ docker # NoDocker
         /\ MovedDocker(docker, after) # NoDocker
         /\ MovedDocker(docker, after).composePolicy = docker.composePolicy
         /\ MovedDocker(docker, after).composeRev = after.docker.composeRev
         /\ MovedDocker(docker, after)
              \in [composePolicy: ComposePolicies, composeRev: Revision]
<1>1. /\ docker \in RootDocker
      /\ [docker EXCEPT !.composeRev = after.docker.composeRev] \in RootDocker
      /\ [docker EXCEPT !.composeRev = after.docker.composeRev]
           \in [composePolicy: ComposePolicies, composeRev: Revision]
  BY MaxRevisionAssumption DEF RootDocker, Revision
<1>2. QED
  BY <1>1, NoRootDockerAssumption DEF MovedDocker

\* A rewritten policy is a policy, and binds its target to its own bytes.
LEMMA RewrittenType ==
  ASSUME NEW policy \in Policy, NEW s, NEW before \in Ref, NEW after \in Ref,
         DeltaAllowed(policy, s, before, after), before # after
  PROVE  /\ Rewritten(policy, s, after) \in Policy
         /\ ConfigBoundTarget(Rewritten(policy, s, after).targets[s])
<1> DEFINE old == policy.targets[s]
           new == MovedTarget(old, after)
<1>1. /\ s \in Services
      /\ old \in Target
      /\ Rewritten(policy, s, after).targets[s] = new
  <2>1. s \in Services
    BY RewriteFacts
  <2>2. old \in Target
    BY <2>1 DEF Policy
  <2>3. QED
    BY <2>1, <2>2, RewrittenFields
<1>2. /\ old.type \in ServiceTypes
      /\ after.configSHA = Sha256(ConfigOf(old.type, after))
      /\ after.configSHA \in {"sha256"} \X Config
  <2>1. after.configSHA = Sha256(ConfigOf(old.type, after))
    BY RewriteFacts DEF MayRewrite
  <2>2. old.type \in ServiceTypes
    BY <1>1 DEF Target
  <2>3. QED
    BY <2>1, <2>2, ConfigOfType DEF Sha256
<1>3. new \in Target
  <2>1. MovedDocker(old.docker, after)
          \in [composePolicy: ComposePolicies, composeRev: Revision] \cup {NoDocker}
    <3>1. CASE old.docker = NoDocker
      BY <3>1 DEF MovedDocker
    <3>2. CASE old.docker # NoDocker
      <4>1. old.docker \in [composePolicy: ComposePolicies, composeRev: Revision]
        BY <1>1, <3>2 DEF Target
      <4>2. QED
        BY <3>2, <4>1, RewriteFacts, MovedDockerType
    <3>3. QED
      BY <3>1, <3>2
  <2>2. QED
    BY <1>1, <1>2, <2>1, RewriteFacts DEF Target, MovedTarget
<1>4. Rewritten(policy, s, after) \in Policy
  <2>1. [policy.targets EXCEPT ![s] = new] \in [Services -> Target]
    BY <1>1, <1>3 DEF Policy
  <2>2. QED
    BY <2>1, RewriteFacts DEF Policy, Rewritten
<1>5. ConfigBoundTarget(new)
  <2>1. /\ new.type = old.type
        /\ new.configRev = after.configRev
        /\ new.configSHA = after.configSHA
        /\ new.localPort = after.localPort
        /\ new.docker = MovedDocker(old.docker, after)
    BY <1>1, MovedTargetFields
  <2>2. CASE old.docker = NoDocker
    <3>1. after.docker = NoDocker /\ new.docker = NoDocker
      BY <2>1, <2>2, RewriteFacts DEF MovedDocker
    <3>2. QED
      BY <1>2, <2>1, <3>1 DEF ConfigBoundTarget, ConfigOf
  <2>3. CASE old.docker # NoDocker
    <3>1. /\ after.docker # NoDocker
          /\ after.docker.published = after.localPort
          /\ after.docker.container \in MinLocalPort .. MaxPort
          /\ after.docker.composeRev \in Revision
      BY <2>3, RewriteFacts
    <3>2. new.docker # NoDocker
      <4>1. old.docker \in [composePolicy: ComposePolicies, composeRev: Revision]
        BY <1>1, <2>3 DEF Target
      <4>2. QED
        BY <2>1, <3>1, <4>1, MovedDockerType
    <3>3. new.configSHA =
            Sha256(DockerConfig(new.type, new.localPort, after.docker.container, new.configRev))
      BY <1>2, <2>1, <3>1 DEF ConfigOf
    <3>4. QED
      BY <3>1, <3>2, <3>3 DEF ConfigBoundTarget
  <2>4. QED
    BY <2>2, <2>3
<1>6. QED
  BY <1>1, <1>4, <1>5
-----------------------------------------------------------------------------
(* What one delta does to the policy.                                      *)

\* A delta returns a policy.
LEMMA ApplyDeltaType ==
  ASSUME NEW policy \in Policy, NEW s, NEW before \in Ref, NEW after \in Ref,
         ApplyDelta(policy, s, before, after) # NoPolicy
  PROVE  ApplyDelta(policy, s, before, after) \in Policy
BY ApplyDeltaAllowed, RewrittenType

\* Either nothing changes or the three revisions advance by the same one step
\* or two and exactly the named target moves.
LEMMA ApplyDeltaMoves ==
  ASSUME NEW policy \in Policy, NEW s, NEW before \in Ref, NEW after \in Ref,
         ApplyDelta(policy, s, before, after) # NoPolicy,
         ApplyDelta(policy, s, before, after) # policy
  PROVE  /\ before # after
         /\ s \in Services
         /\ ApplyDelta(policy, s, before, after) = Rewritten(policy, s, after)
         /\ \E step \in 1 .. 2 :
              /\ after.sourceRev = policy.sourceRev + step
              /\ after.projectionRev = policy.projectionRev + step
              /\ after.executorRev = policy.policyRev + step
<1>1. /\ DeltaAllowed(policy, s, before, after)
      /\ before # after
      /\ ApplyDelta(policy, s, before, after) = Rewritten(policy, s, after)
  BY ApplyDeltaAllowed
<1>2. /\ s \in Services
      /\ PolicyMatchesRef(policy, before)
      /\ CountersAdvance(before, after)
      /\ MayRewrite(policy, s, before, after)
  BY <1>1 DEF DeltaAllowed
<1>3. DeltaStep(before, after) \in 1 .. 2
  BY <1>2, RefFields DEF MayRewrite, CountersAdvance, DeltaStep
<1>4. /\ after.sourceRev = policy.sourceRev + DeltaStep(before, after)
      /\ after.projectionRev = policy.projectionRev + DeltaStep(before, after)
      /\ after.executorRev = policy.policyRev + DeltaStep(before, after)
  BY <1>2, RefFields DEF CountersAdvance, PolicyMatchesRef, DeltaStep
<1>5. QED
  BY <1>1, <1>2, <1>3, <1>4

\* The bytes a reference names determine the policy, since the digest does.
LEMMA SameDigest ==
  ASSUME NEW left, NEW right, Sha256(left) = Sha256(right)
  PROVE  left = right
BY DEF Sha256

\* A delta that was allowed for a reference with a digest returns that digest.
LEMMA ApplyDeltaDigest ==
  ASSUME NEW policy \in Policy, NEW s, NEW before \in Ref, NEW after \in Ref,
         ValidDigest(after.executorSHA),
         DeltaAllowed(policy, s, before, after)
  PROVE  /\ Sha256(ApplyDelta(policy, s, before, after)) = after.executorSHA
         /\ Sha256(policy) = before.executorSHA
         /\ policy.sourceRev = before.sourceRev
         /\ ApplyDelta(policy, s, before, after) # NoPolicy
<1>1. PolicyMatchesRef(policy, before)
  BY DEF DeltaAllowed
<1>2. CASE before = after
  BY <1>1, <1>2, NoPolicyAssumption DEF ApplyDelta, PolicyMatchesRef
<1>3. CASE before # after
  <2>1. after.executorSHA = Sha256(Rewritten(policy, s, after))
    BY <1>3 DEF DeltaAllowed, ValidDigest
  <2>2. Rewritten(policy, s, after) \in Policy
    BY <1>3, RewrittenType
  <2>3. QED
    BY <1>1, <1>3, <2>1, <2>2, NoPolicyAssumption DEF ApplyDelta, PolicyMatchesRef
<1>4. QED
  BY <1>2, <1>3

-----------------------------------------------------------------------------
(* The two ways to roll back.                                              *)

\* A digest of something is not the empty string.
LEMMA DigestIsNotEmpty ==
  ASSUME NEW S, NEW digest \in {"sha256"} \X S
  PROVE  digest # NoDigest
BY DEF NoDigest

\* Every policy of the model can be decoded: the types say what the decoder does.
LEMMA PolicyDecodes ==
  ASSUME NEW policy \in Policy
  PROVE  ValidRootPolicy(policy)
<1>1. /\ ValidRevision(policy.sourceRev)
      /\ ValidRevision(policy.projectionRev)
      /\ ValidRevision(policy.policyRev)
  BY MaxRevisionAssumption DEF Policy, Revision, ValidRevision
<1>2. ASSUME NEW x \in Services
      PROVE  ValidRootTarget(policy.targets[x])
  <2>1. policy.targets[x] \in Target
    BY DEF Policy
  <2>2. /\ policy.targets[x].configSHA \in {"sha256"} \X Config
        /\ policy.targets[x].type \in ServiceTypes
        /\ policy.targets[x].localPort \in MinLocalPort .. MaxPort
        /\ policy.targets[x].endpointRev \in Revision
        /\ policy.targets[x].configRev \in Revision
    BY <2>1 DEF Target
  <2>3. policy.targets[x].configSHA # NoDigest
    BY <2>2, DigestIsNotEmpty
  <2>4. /\ ValidRevision(policy.targets[x].endpointRev)
        /\ ValidRevision(policy.targets[x].configRev)
    BY <2>2, MaxRevisionAssumption DEF ValidRevision, Revision
  <2>5. ValidPort(policy.targets[x].localPort, MinLocalPort)
    BY <2>2 DEF ValidPort
  <2>6. QED
    BY <2>2, <2>3, <2>4, <2>5 DEF ValidRootTarget, ValidDigest
<1>3. QED
  BY <1>1, <1>2 DEF ValidRootPolicy

\* The second of two rewrites of one target erases the first.
LEMMA RewrittenTwice ==
  ASSUME NEW policy \in Policy, NEW s \in Services, NEW first, NEW second,
         Rewritten(policy, s, first) \in Policy,
         policy.targets[s].docker # NoDocker => first.docker.composeRev \in Revision
  PROVE  Rewritten(Rewritten(policy, s, first), s, second) = Rewritten(policy, s, second)
<1> DEFINE target == policy.targets[s]
           mid == Rewritten(policy, s, first)
<1>1. target \in Target /\ policy.targets \in [Services -> Target]
  BY DEF Policy
<1>2. mid.targets[s] = MovedTarget(target, first)
  BY RewrittenFields
<1>3. MovedTarget(target, first) \in Target
  <2>1. mid.targets[s] \in Target
    BY DEF Policy
  <2>2. QED
    BY <1>2, <2>1
<1>4. MovedDocker(MovedDocker(target.docker, first), second) = MovedDocker(target.docker, second)
  <2>1. CASE target.docker = NoDocker
    BY <2>1 DEF MovedDocker
  <2>2. CASE target.docker # NoDocker
    <3>1. target.docker \in [composePolicy: ComposePolicies, composeRev: Revision]
      BY <1>1, <2>2 DEF Target
    <3>2. /\ MovedDocker(target.docker, first) =
               [target.docker EXCEPT !.composeRev = first.docker.composeRev]
          /\ MovedDocker(target.docker, first) # NoDocker
      BY <2>2, <3>1, MovedDockerType DEF MovedDocker
    <3>3. QED
      BY <2>2, <3>1, <3>2 DEF MovedDocker
  <2>3. QED
    BY <2>1, <2>2
<1>5. MovedTarget(MovedTarget(target, first), second) = MovedTarget(target, second)
  BY <1>1, <1>3, <1>4 DEF MovedTarget, Target
<1>6. mid.targets = [policy.targets EXCEPT ![s] = MovedTarget(target, first)]
  BY DEF Rewritten
<1>7. [mid.targets EXCEPT ![s] = MovedTarget(mid.targets[s], second)]
        = [policy.targets EXCEPT ![s] = MovedTarget(target, second)]
  BY <1>1, <1>2, <1>5, <1>6
<1>8. QED
  BY <1>7 DEF Rewritten

\* What ValidPlan says of a plan's references, in the form the proofs use.
LEMMA PlanFacts ==
  ASSUME NEW plan, ValidPlan(plan), Refs(plan) \subseteq Ref
  PROVE  /\ plan.before \in Ref /\ plan.target \in Ref /\ plan.rollback \in Ref
         /\ ValidDigest(plan.target.executorSHA)
         /\ ValidDigest(plan.rollback.executorSHA)
         /\ ValidDigest(plan.before.executorSHA)
         /\ PlanIsNoOp(plan) \/ ChangesThenRestores(plan)
         /\ AdvertisedDelta(plan) \in {0, 1}
BY DEF ValidPlan, ValidSnapshotRef, Refs, AdvertisedDelta

\* From the policy a plan's target delta leaves, its rollback delta is allowed
\* and leads to the bytes that a rollback straight from Before leads to.
LEMMA RollbackFromTarget ==
  ASSUME NEW policy \in Policy, NEW s, NEW plan,
         ValidPlan(plan), Refs(plan) \subseteq Ref, ChangesThenRestores(plan),
         DeltaAllowed(policy, s, plan.before, plan.target),
         DeltaAllowed(policy, s, plan.before, plan.rollback)
  PROVE  /\ DeltaAllowed(Rewritten(policy, s, plan.target), s, plan.target, plan.rollback)
         /\ ApplyDelta(Rewritten(policy, s, plan.target), s, plan.target, plan.rollback)
              = ApplyDelta(policy, s, plan.before, plan.rollback)
<1> DEFINE b == plan.before
           t == plan.target
           r == plan.rollback
           delta == AdvertisedDelta(plan)
           old == policy.targets[s]
           mid == Rewritten(policy, s, t)
<1>1. /\ b \in Ref /\ t \in Ref /\ r \in Ref
      /\ ValidDigest(t.executorSHA) /\ ValidDigest(r.executorSHA)
      /\ delta \in {0, 1}
  BY PlanFacts
<1>2. Follows(b, t, 1, delta) /\ Follows(b, r, 2, delta)
  BY DEF ChangesThenRestores
<1>3. /\ t.sourceRev = b.sourceRev + 1 /\ r.sourceRev = b.sourceRev + 2
      /\ t.projectionRev = b.projectionRev + 1 /\ r.projectionRev = b.projectionRev + 2
      /\ t.executorRev = b.executorRev + 1 /\ r.executorRev = b.executorRev + 2
      /\ t.configRev = b.configRev + 1 /\ r.configRev = b.configRev + 2
  BY <1>2 DEF Follows
<1>4. b # t /\ b # r /\ t # r
  BY <1>1, <1>3, RefFields
<1>5. /\ MayRewrite(policy, s, b, t) /\ MayRewrite(policy, s, b, r)
      /\ s \in Services
      /\ CountersAdvance(b, r)
      /\ ValidPort(r.localPort, MinLocalPort)
      /\ ValidDigest(r.configSHA)
      /\ old.type # "control_panel"
      /\ RootTargetMatchesRef(old, b)
      /\ r.executorSHA \in {NoDigest, Sha256(Rewritten(policy, s, r))}
      /\ t.executorSHA \in {NoDigest, Sha256(mid)}
  BY <1>4 DEF DeltaAllowed
<1>6. /\ t.executorSHA = Sha256(mid)
      /\ r.executorSHA = Sha256(Rewritten(policy, s, r))
  BY <1>1, <1>5 DEF ValidDigest
<1>7. mid \in Policy
  BY <1>1, <1>4, RewrittenType
<1>8. /\ mid.sourceRev = t.sourceRev
      /\ mid.projectionRev = t.projectionRev
      /\ mid.policyRev = t.executorRev
      /\ mid.targets[s] = MovedTarget(old, t)
  BY <1>5, RewrittenFields
<1>9. old \in Target
  BY <1>5 DEF Policy
<1>10. /\ (old.docker = NoDocker) <=> (b.docker = NoDocker)
       /\ (old.docker = NoDocker) <=> (t.docker = NoDocker)
       /\ (old.docker = NoDocker) <=> (r.docker = NoDocker)
       /\ old.docker # NoDocker => t.docker.composeRev \in Revision
  BY <1>1, <1>4, RewriteFacts
<1>11. Rewritten(mid, s, r) = Rewritten(policy, s, r)
  BY <1>5, <1>7, <1>10, RewrittenTwice
<1>12. CountersAdvance(t, r)
  <2>1. /\ ValidRevision(r.sourceRev) /\ ValidRevision(r.projectionRev)
        /\ ValidRevision(r.executorRev) /\ ValidRevision(r.configRev)
        /\ ValidRevision(r.appliedEndpointRev)
    BY <1>5 DEF CountersAdvance
  <2>2. DeltaStep(t, r) = 1
    BY <1>1, <1>3, RefFields DEF DeltaStep
  <2>3. /\ r.projectionRev - t.projectionRev = 1
        /\ r.executorRev - t.executorRev = 1
        /\ r.configRev - t.configRev = 1
    BY <1>1, <1>3, RefFields
  <2>4. r.endpointRev \in {t.endpointRev, t.endpointRev + 1}
    <3>1. /\ t.endpointRev = b.endpointRev + 1 * delta
          /\ r.endpointRev = b.endpointRev + 2 * delta
      BY <1>2 DEF Follows
    <3>2. CASE delta = 0
      BY <1>1, <3>1, <3>2, RefFields
    <3>3. CASE delta = 1
      BY <1>1, <3>1, <3>3, RefFields
    <3>4. QED
      BY <1>1, <3>2, <3>3
  <2>5. r.appliedEndpointRev \in {t.appliedEndpointRev, r.endpointRev}
    <3>1. /\ t.appliedEndpointRev = IF delta = 0 THEN b.appliedEndpointRev
                                    ELSE b.endpointRev + 1
          /\ r.appliedEndpointRev = IF delta = 0 THEN b.appliedEndpointRev
                                    ELSE b.endpointRev + 2
          /\ r.endpointRev = b.endpointRev + 2 * delta
      BY <1>2 DEF Follows
    <3>2. CASE delta = 0
      BY <3>1, <3>2
    <3>3. CASE delta = 1
      BY <1>1, <3>1, <3>3, RefFields
    <3>4. QED
      BY <1>1, <3>2, <3>3
  <2>6. QED
    BY <2>1, <2>2, <2>3, <2>4, <2>5 DEF CountersAdvance
<1>13. RootTargetMatchesRef(mid.targets[s], t)
  <2>1. /\ mid.targets[s].endpointRev = t.appliedEndpointRev
        /\ mid.targets[s].configRev = t.configRev
        /\ mid.targets[s].configSHA = t.configSHA
        /\ mid.targets[s].localPort = t.localPort
        /\ mid.targets[s].docker = MovedDocker(old.docker, t)
    BY <1>8, <1>9, MovedTargetFields
  <2>2. CASE old.docker = NoDocker
    BY <1>10, <2>1, <2>2 DEF RootTargetMatchesRef, MovedDocker
  <2>3. CASE old.docker # NoDocker
    <3>1. old.docker \in [composePolicy: ComposePolicies, composeRev: Revision]
      BY <1>9, <2>3 DEF Target
    <3>2. /\ mid.targets[s].docker # NoDocker
          /\ mid.targets[s].docker.composePolicy = old.docker.composePolicy
          /\ mid.targets[s].docker.composeRev = t.docker.composeRev
      BY <1>10, <2>1, <2>3, <3>1, MovedDockerType
    <3>3. old.docker.composePolicy = b.docker.composePolicy
      BY <1>5, <2>3 DEF RootTargetMatchesRef
    <3>4. t.docker.composePolicy = b.docker.composePolicy
      BY <1>5, <1>10, <2>3 DEF MayRewrite, DockerFollows
    <3>5. QED
      BY <1>10, <2>1, <2>3, <3>2, <3>3, <3>4 DEF RootTargetMatchesRef
  <2>4. QED
    BY <2>2, <2>3
<1>14. MayRewrite(mid, s, t, r)
  <2>1. DeltaStep(t, r) = 1
    BY <1>1, <1>3, RefFields DEF DeltaStep
  <2>2. ~LocalEqual(t, r)
    <3>1. ~LocalEqual(b, t) /\ LocalEqual(b, r)
      BY DEF ChangesThenRestores
    <3>2. QED
      BY <3>1 DEF LocalEqual, SameDeployment
  <2>3. mid.targets[s].type = old.type
    BY <1>8, <1>9, MovedTargetFields
  <2>4. /\ Configurable(old.type)
        /\ r.configSHA = Sha256(ConfigOf(old.type, r))
    BY <1>5 DEF MayRewrite
  <2>5. DockerFollows(t, r)
    <3>1. DockerFollows(b, t) /\ DockerFollows(b, r)
      BY <1>5 DEF MayRewrite
    <3>2. CASE t.docker = NoDocker
      BY <3>2 DEF DockerFollows
    <3>3. CASE t.docker # NoDocker
      <4>1. /\ t.docker \in DockerSnapshot /\ r.docker \in DockerSnapshot
            /\ b.docker \in DockerSnapshot
        BY <1>1, <1>10, <3>3, RefFields
      <4>2. /\ ValidDockerSnapshot(r.docker, r.localPort)
            /\ t.docker.composeRev = b.docker.composeRev + DeltaStep(b, t)
            /\ r.docker.composeRev = b.docker.composeRev + DeltaStep(b, r)
            /\ r.docker.composePolicy = t.docker.composePolicy
            /\ r.docker.image = t.docker.image
        BY <1>10, <3>1, <3>3 DEF DockerFollows
      <4>3. DeltaStep(b, t) = 1 /\ DeltaStep(b, r) = 2
        BY <1>1, <1>3, RefFields DEF DeltaStep
      <4>4. r.docker.composeRev = t.docker.composeRev + 1
        BY <4>1, <4>2, <4>3 DEF DockerSnapshot
      <4>5. QED
        BY <2>1, <4>2, <4>4 DEF DockerFollows
    <3>4. QED
      BY <3>2, <3>3
  <2>6. QED
    BY <2>1, <2>2, <2>3, <2>4, <2>5 DEF MayRewrite, MovesOrRestores
<1>15. PolicyMatchesRef(mid, t)
  BY <1>6, <1>8 DEF PolicyMatchesRef
<1>16. /\ SameDeployment(t, r)
       /\ mid.targets[s].type # "control_panel"
  BY <1>5, <1>8, <1>9, <1>10, MovedTargetFields DEF SameDeployment
<1>17. ValidRootPolicy(mid)
  BY <1>7, PolicyDecodes
<1>18. DeltaAllowed(mid, s, t, r)
  BY <1>5, <1>6, <1>11, <1>12, <1>13, <1>14, <1>15, <1>16, <1>17 DEF DeltaAllowed
<1>19. QED
  BY <1>4, <1>11, <1>18 DEF ApplyDelta
-----------------------------------------------------------------------------
(* Deriving a plan.                                                        *)

\* The references the Control Panel describes a service with are references.
LEMMA BeforeRefType ==
  ASSUME NEW policy \in Policy, NEW s \in Services, NEW before \in BeforeRefs(policy, s)
  PROVE  before \in Ref
<1> DEFINE target == policy.targets[s]
<1>1. target \in Target
  BY DEF Policy
<1>2. PICK endpoint \in Endpoints, lead \in 0 .. 1, docker \in BeforeDockers(target) :
        before = BeforeRef(policy, s, endpoint, lead, docker)
  BY DEF BeforeRefs
<1>3. docker \in DockerSnapshot \cup {NoDocker}
  <2>1. CASE target.docker = NoDocker
    BY <2>1 DEF BeforeDockers
  <2>2. CASE target.docker # NoDocker
    <3>1. target.docker \in [composePolicy: ComposePolicies, composeRev: Revision]
      BY <1>1, <2>2 DEF Target
    <3>2. PICK c \in ContainerPorts, i \in Images :
            docker = [published |-> target.localPort, container |-> c,
                      composePolicy |-> target.docker.composePolicy,
                      composeRev |-> target.docker.composeRev, image |-> i]
      BY <2>2 DEF BeforeDockers
    <3>3. target.localPort \in Int
      BY <1>1 DEF Target
    <3>4. QED
      BY <3>1, <3>2, <3>3, PortsAssumption, MaxRevisionAssumption DEF DockerSnapshot, Revision
  <2>3. QED
    BY <2>1, <2>2
<1>4. /\ target.endpointRev + lead \in Int
      /\ target.endpointRev \in Int
      /\ target.configRev \in Int
      /\ target.localPort \in Int
      /\ target.configSHA \in {"sha256"} \X Config
      /\ endpoint.port \in Int
  BY <1>1, PortsAssumption, MaxRevisionAssumption DEF Target, Revision
<1>5. /\ policy.sourceRev \in Int
      /\ policy.projectionRev \in Int
      /\ policy.policyRev \in Int
  BY MaxRevisionAssumption DEF Policy, Revision
<1>6. /\ Sha256(policy) \in {"sha256"} \X Policy
      /\ Sha256(endpoint) \in {"sha256"} \X Endpoints
      /\ SnapshotSHA256(policy, target.endpointRev + lead, endpoint)
           \in {"sha256"} \X (Policy \X Int \X Endpoints)
  BY <1>4 DEF Sha256, SnapshotSHA256
<1>7. QED
  BY <1>2, <1>3, <1>4, <1>5, <1>6 DEF BeforeRef, Ref

\* They name the container port the target's configuration digest binds.
LEMMA BeforeRefDescribes ==
  ASSUME NEW policy \in Policy, NEW s \in Services, NEW before \in BeforeRefs(policy, s),
         ConfigBoundTarget(policy.targets[s])
  PROVE  Describes(before, policy.targets[s])
<1> DEFINE target == policy.targets[s]
<1>1. target \in Target
  BY DEF Policy
<1>2. PICK endpoint \in Endpoints, lead \in 0 .. 1, docker \in BeforeDockers(target) :
        before = BeforeRef(policy, s, endpoint, lead, docker)
  BY DEF BeforeRefs
<1>3. /\ before.docker = docker
      /\ before.localPort = target.localPort
      /\ before.configRev = target.configRev
  BY <1>2 DEF BeforeRef
<1>4. CASE target.docker = NoDocker
  <2>1. docker = NoDocker
    BY <1>2, <1>4 DEF BeforeDockers
  <2>2. QED
    BY <1>3, <1>4, <2>1 DEF ConfigBoundTarget, Describes, ConfigOf
<1>5. CASE target.docker # NoDocker
  <2>1. PICK c \in ContainerPorts, i \in Images :
          /\ docker = [published |-> target.localPort, container |-> c,
                       composePolicy |-> target.docker.composePolicy,
                       composeRev |-> target.docker.composeRev, image |-> i]
          /\ target.configSHA =
               Sha256(DockerConfig(target.type, target.localPort, c, target.configRev))
    BY <1>2, <1>5 DEF BeforeDockers
  <2>2. docker \in DockerSnapshot
    <3>1. /\ target.docker \in [composePolicy: ComposePolicies, composeRev: Revision]
          /\ target.localPort \in Int
      BY <1>1, <1>5 DEF Target
    <3>2. QED
      BY <2>1, <3>1, PortsAssumption, MaxRevisionAssumption DEF DockerSnapshot, Revision
  <2>3. docker # NoDocker
    BY <2>2, NoDockerAssumption DEF DockerSnapshot
  <2>4. QED
    BY <1>3, <2>1, <2>3 DEF Describes, ConfigOf
<1>6. QED
  BY <1>4, <1>5

\* A wanted reference is a reference, later than the one it was derived from
\* and without an executor digest.
LEMMA WantedRefType ==
  ASSUME NEW before \in Ref, NEW type \in ServiceTypes, NEW want \in Wants(before)
  PROVE  /\ Configured(type, WantedRef(before, want)) \in Ref
         /\ Configured(type, WantedRef(before, want)).executorSHA = NoDigest
         /\ Configured(type, WantedRef(before, want)).sourceRev # before.sourceRev
<1> DEFINE ref == WantedRef(before, want)
<1>1. /\ want.step \in 1 .. 2 /\ want.endpointStep \in 0 .. 2
      /\ want.endpoint \in Endpoints /\ want.port \in LocalPorts
      /\ before.docker # NoDocker => want.container \in ContainerPorts
  BY DEF Wants
<1>2. /\ want.step \in Int /\ want.step # 0 /\ want.endpointStep \in Int
  BY <1>1
<1>3. /\ want.port \in Int /\ want.endpoint.port \in Int
      /\ before.docker # NoDocker => want.container \in Int
  BY <1>1, PortsAssumption
<1>4. WantedDocker(before, want) \in DockerSnapshot \cup {NoDocker}
  <2>1. CASE before.docker = NoDocker
    BY <2>1 DEF WantedDocker
  <2>2. CASE before.docker # NoDocker
    <3>1. before.docker \in DockerSnapshot
      BY <2>2, RefFields
    <3>2. /\ want.port \in Int /\ want.container \in Int
          /\ before.docker.composeRev + want.step \in Int
      BY <1>2, <1>3, <2>2, <3>1 DEF DockerSnapshot
    <3>3. QED
      BY <2>2, <3>1, <3>2 DEF WantedDocker, DockerSnapshot
  <2>3. QED
    BY <2>1, <2>2
<1>5. /\ before.sourceRev + want.step \in Int
      /\ before.sourceRev + want.step # before.sourceRev
      /\ before.projectionRev + want.step \in Int
      /\ before.executorRev + want.step \in Int
      /\ before.endpointRev + want.endpointStep \in Int
      /\ before.configRev + want.step \in Int
      /\ want.endpoint.port \in Int
      /\ want.port \in Int
      /\ before.appliedEndpointRev \in Int
  BY <1>2, <1>3, RefFields
<1>6. Sha256(want.endpoint) \in {"sha256"} \X Endpoints
  BY <1>1 DEF Sha256
<1>7. /\ ref \in Ref
      /\ ref.executorSHA = NoDigest
      /\ ref.sourceRev # before.sourceRev
  BY <1>4, <1>5, <1>6 DEF WantedRef, Ref
<1>8. Sha256(ConfigOf(type, ref)) \in {"sha256"} \X Config
  BY <1>7, ConfigOfType DEF Sha256
<1>9. QED
  BY <1>7, <1>8 DEF Configured, Ref

\* Binding a derived reference to the bytes of its policy changes no check.
LEMMA BoundAllowed ==
  ASSUME NEW policy \in Policy, NEW s, NEW before \in Ref, NEW ref \in Ref,
         NEW endpoint \in Endpoints,
         ref.executorSHA = NoDigest, ref.sourceRev # before.sourceRev,
         DeltaAllowed(policy, s, before, ref)
  PROVE  LET bound == Bound(Rewritten(policy, s, ref), ref, endpoint)
         IN /\ bound \in Ref
            /\ DeltaAllowed(policy, s, before, bound)
<1> DEFINE result == Rewritten(policy, s, ref)
           bound == Bound(result, ref, endpoint)
<1>1. before # ref
  OBVIOUS
<1>2. result \in Policy
  BY <1>1, RewrittenType
<1>3. /\ Sha256(result) \in {"sha256"} \X Policy
      /\ SnapshotSHA256(result, ref.endpointRev, endpoint)
           \in {"sha256"} \X (Policy \X Int \X Endpoints)
  BY <1>2, RefFields DEF Sha256, SnapshotSHA256
<1>4. bound \in Ref
  BY <1>3 DEF Bound, Ref
<1>5. /\ bound.sourceRev = ref.sourceRev
      /\ bound.projectionRev = ref.projectionRev
      /\ bound.executorRev = ref.executorRev
      /\ bound.endpointRev = ref.endpointRev
      /\ bound.appliedEndpointRev = ref.appliedEndpointRev
      /\ bound.configRev = ref.configRev
      /\ bound.configSHA = ref.configSHA
      /\ bound.advertisedPort = ref.advertisedPort
      /\ bound.advertisedSHA = ref.advertisedSHA
      /\ bound.localPort = ref.localPort
      /\ bound.docker = ref.docker
      /\ bound.executorSHA = Sha256(result)
  BY DEF Bound, Ref
<1>6. Rewritten(policy, s, bound) = result
  BY <1>5 DEF Rewritten, MovedTarget, MovedDocker
<1>7. CountersAdvance(before, bound) /\ DeltaStep(before, bound) = DeltaStep(before, ref)
  BY <1>5 DEF DeltaAllowed, CountersAdvance, DeltaStep
<1>8. MayRewrite(policy, s, before, ref)
  BY <1>1 DEF DeltaAllowed
<1>9. LocalEqual(before, bound) <=> LocalEqual(before, ref)
  BY <1>5 DEF LocalEqual, SameDeployment
<1>10. MovesOrRestores(before, bound) /\ DockerFollows(before, bound)
  BY <1>5, <1>7, <1>8, <1>9 DEF MayRewrite, MovesOrRestores, DockerFollows
<1>11. ConfigOf(policy.targets[s].type, bound) = ConfigOf(policy.targets[s].type, ref)
  BY <1>5 DEF ConfigOf
<1>12. MayRewrite(policy, s, before, bound)
  BY <1>5, <1>7, <1>8, <1>10, <1>11 DEF MayRewrite
<1>13. DeltaAllowed(policy, s, before, bound)
  BY <1>5, <1>6, <1>7, <1>12 DEF DeltaAllowed, SameDeployment
<1>14. QED
  BY <1>4, <1>13

\* Every derived reference can be reached from the policy it was derived from.
LEMMA DerivedAllowed ==
  ASSUME NEW policy \in Policy, NEW s \in Services, NEW before \in Ref,
         NEW after \in Derived(policy, s, before)
  PROVE  after \in Ref /\ DeltaAllowed(policy, s, before, after)
<1> DEFINE type == policy.targets[s].type
           ref(want) == Configured(type, WantedRef(before, want))
<1>1. PICK want \in Wants(before) :
        /\ ApplyDelta(policy, s, before, ref(want)) # NoPolicy
        /\ after = Bound(ApplyDelta(policy, s, before, ref(want)), ref(want), want.endpoint)
  BY DEF Derived
<1>2. type \in ServiceTypes
  <2>1. policy.targets[s] \in Target
    BY DEF Policy
  <2>2. QED
    BY <2>1 DEF Target
<1>3. /\ ref(want) \in Ref
      /\ ref(want).executorSHA = NoDigest
      /\ ref(want).sourceRev # before.sourceRev
  BY <1>2, WantedRefType
<1>4. DeltaAllowed(policy, s, before, ref(want))
  BY <1>1, ApplyDeltaAllowed
<1>5. ApplyDelta(policy, s, before, ref(want)) = Rewritten(policy, s, ref(want))
  BY <1>1, <1>3, ApplyDeltaAllowed
<1>6. want.endpoint \in Endpoints
  BY DEF Wants
<1>7. QED
  BY <1>1, <1>3, <1>4, <1>5, <1>6, BoundAllowed
-----------------------------------------------------------------------------
(* The inductive invariant.                                                *)

\* What a published job adds to the plans: it is valid and derived from the
\* installed policy.
PublishedFacts(job) ==
  /\ job.service \in Services
  /\ Refs(job.plan) \subseteq Ref
  /\ ValidPlan(job.plan)
  /\ Describes(job.plan.before, root.targets[job.service])
  /\ DeltaAllowed(root, job.service, job.plan.before, job.plan.target)
  /\ DeltaAllowed(root, job.service, job.plan.before, job.plan.rollback)

\* Sealing a plan with its digest leaves its references alone.
LEMMA PlanOfRefs ==
  ASSUME NEW mode, NEW before, NEW target, NEW rollback, NEW container
  PROVE  LET plan == PlanOf(mode, before, target, rollback, container)
         IN /\ plan.before = before
            /\ plan.target = target
            /\ plan.rollback = rollback
BY DEF PlanOf, Seal

\* Publishing adds one job with these facts and leaves the policy as it is.
LEMMA PublishAdds ==
  ASSUME root \in Policy, ConfigBound, NEW s \in Services, PublishMove(s) \/ PublishNoOp(s)
  PROVE  /\ Cardinality(plans) < MaxPlans
         /\ UNCHANGED <<root, installed>>
         /\ \E job : plans' = plans \cup {job} /\ PublishedFacts(job)
<1>1. CASE PublishMove(s)
  <2>1. PICK before \in BeforeRefs(root, s) :
          \E target, rollback \in Derived(root, s, before) :
            \E mode \in Modes, container \in Containers :
              Publish(s, PlanOf(mode, before, target, rollback, container))
    BY <1>1 DEF PublishMove
  <2>2. PICK target \in Derived(root, s, before), rollback \in Derived(root, s, before),
             mode \in Modes, container \in Containers :
          Publish(s, PlanOf(mode, before, target, rollback, container))
    BY <2>1
  <2>3. /\ before \in Ref
        /\ Describes(before, root.targets[s])
        /\ target \in Ref /\ DeltaAllowed(root, s, before, target)
        /\ rollback \in Ref /\ DeltaAllowed(root, s, before, rollback)
    BY BeforeRefType, BeforeRefDescribes, DerivedAllowed DEF ConfigBound
  <2>4. PublishedFacts([service |-> s, plan |-> PlanOf(mode, before, target, rollback, container)])
    BY <2>2, <2>3, PlanOfRefs DEF PublishedFacts, Publish, Refs
  <2>5. QED
    BY <1>1, <2>2, <2>4 DEF PublishMove, Publish
<1>2. CASE PublishNoOp(s)
  <2>1. PICK before \in BeforeRefs(root, s), mode \in Modes, container \in Containers :
          /\ ApplyDelta(root, s, before, before) # NoPolicy
          /\ Publish(s, PlanOf(mode, before, before, before, container))
    BY <1>2 DEF PublishNoOp
  <2>2. /\ before \in Ref /\ DeltaAllowed(root, s, before, before)
        /\ Describes(before, root.targets[s])
    BY <2>1, BeforeRefType, BeforeRefDescribes, ApplyDeltaAllowed DEF ConfigBound
  <2>3. PublishedFacts([service |-> s, plan |-> PlanOf(mode, before, before, before, container)])
    BY <2>1, <2>2, PlanOfRefs DEF PublishedFacts, Publish, Refs
  <2>4. QED
    BY <1>2, <2>1, <2>3 DEF PublishNoOp, Publish
<1>3. QED
  BY <1>1, <1>2

\* An executor's step of a published plan either changes nothing or is a
\* rewrite of one target.
LEMMA ExecuteMoves ==
  ASSUME root \in Policy, NEW job, Refs(job.plan) \subseteq Ref, NEW s,
         NEW from \in Refs(job.plan), NEW to \in Refs(job.plan),
         Execute(job, s, from, to), root' # root
  PROVE  /\ s \in Services
         /\ DeltaAllowed(root, s, from, to)
         /\ from \in Ref /\ to \in Ref /\ from # to
         /\ root' = Rewritten(root, s, to)
         /\ \E step \in 1 .. 2 :
              /\ root'.sourceRev = root.sourceRev + step
              /\ root'.projectionRev = root.projectionRev + step
              /\ root'.policyRev = root.policyRev + step
<1>1. from \in Ref /\ to \in Ref
  OBVIOUS
<1>2. root' = ApplyDelta(root, s, from, to) /\ root' # NoPolicy
  BY DEF Execute
<1>3. /\ s \in Services
      /\ from # to
      /\ DeltaAllowed(root, s, from, to)
      /\ root' = Rewritten(root, s, to)
      /\ \E step \in 1 .. 2 :
           /\ to.sourceRev = root.sourceRev + step
           /\ to.projectionRev = root.projectionRev + step
           /\ to.executorRev = root.policyRev + step
  BY <1>1, <1>2, ApplyDeltaAllowed, ApplyDeltaMoves
<1>4. /\ root'.sourceRev = to.sourceRev
      /\ root'.projectionRev = to.projectionRev
      /\ root'.policyRev = to.executorRev
  BY <1>3, RewrittenFields
<1>5. QED
  BY <1>1, <1>3, <1>4

\* The strengthening: Inductive, of which only a finite set of plans is missing
\* for its cardinality to mean anything.
IInv == Inductive /\ IsFiniteSet(plans)

\* Every host is enrolled with a policy that is typed and bound.
LEMMA InitInductive == Init => IInv
<1>1. SUFFICES ASSUME Init PROVE IInv
  OBVIOUS
<1>2. root \in Policy /\ ConfigBound /\ plans = {} /\ installed = {root}
  BY <1>1, InitPoliciesAssumption DEF Init, ConfigBound
<1>3. IsFiniteSet(plans) /\ Cardinality(plans) = 0
  BY <1>2, FS_EmptySet
<1>4. root.sourceRev \in Nat
  BY <1>2, MaxRevisionAssumption DEF Policy, Revision
<1>5. QED
  BY <1>2, <1>3, <1>4, MaxPlansAssumption DEF IInv, Inductive, TypeOK

\* Publishing a plan keeps the invariant: the plan was derived from root.
LEMMA PublishInductive ==
  ASSUME IInv, NEW s \in Services, PublishMove(s) \/ PublishNoOp(s)
  PROVE  IInv'
<1>1. /\ root \in Policy /\ root \in installed /\ ConfigBound
      /\ \A job \in plans :
           /\ job.service \in Services /\ Refs(job.plan) \subseteq Ref
           /\ ValidPlan(job.plan) /\ DerivedFromInstalled(job)
  BY DEF IInv, Inductive, TypeOK
<1>2. /\ Cardinality(plans) < MaxPlans
      /\ UNCHANGED <<root, installed>>
  BY <1>1, PublishAdds
<1>3. PICK job : plans' = plans \cup {job} /\ PublishedFacts(job)
  BY <1>1, PublishAdds
<1>4. IsFiniteSet(plans') /\ Cardinality(plans') <= MaxPlans
  <2>1. IsFiniteSet(plans)
    BY DEF IInv
  <2>2. /\ IsFiniteSet(plans \cup {job})
        /\ Cardinality(plans \cup {job}) =
             IF job \in plans THEN Cardinality(plans) ELSE Cardinality(plans) + 1
    BY <2>1, FS_AddElement
  <2>3. Cardinality(plans) \in Nat
    BY <2>1, FS_CardinalityType
  <2>4. QED
    BY <1>2, <1>3, <2>2, <2>3, MaxPlansAssumption
<1>5. \A new \in plans' :
        /\ new.service \in Services /\ Refs(new.plan) \subseteq Ref
        /\ ValidPlan(new.plan) /\ DerivedFromInstalled(new)
  BY <1>1, <1>3 DEF PublishedFacts, DerivedFromInstalled
<1>6. TypeOK'
  BY <1>2, <1>4, <1>5 DEF IInv, Inductive, TypeOK
<1>7. ConfigBound'
  BY <1>2 DEF IInv, Inductive, ConfigBound
<1>8. \A new \in plans' : DerivedFromInstalled(new)'
  BY <1>2, <1>5 DEF DerivedFromInstalled
<1>9. QED
  BY <1>2, <1>4, <1>6, <1>7, <1>8 DEF IInv, Inductive

\* Executing any delta of any published plan keeps the invariant: the new
\* policy is typed, bound, and later than every policy installed before.
LEMMA ExecuteInductive ==
  ASSUME IInv, NEW job \in plans, NEW s \in Services,
         NEW from \in Refs(job.plan), NEW to \in Refs(job.plan),
         Execute(job, s, from, to)
  PROVE  IInv'
<1>1. /\ root \in Policy /\ root \in installed /\ installed \subseteq Policy
      /\ Refs(job.plan) \subseteq Ref
      /\ ConfigBound
      /\ \A old \in installed : old.sourceRev <= root.sourceRev
      /\ \A x, y \in installed : x.sourceRev = y.sourceRev => x = y
  BY DEF IInv, Inductive, TypeOK
<1>2. UNCHANGED plans /\ installed' = installed \cup {root'}
  BY DEF Execute
<1>3. CASE root' = root
  <2>1. installed' = installed
    BY <1>1, <1>2, <1>3
  <2>2. QED
    BY <1>2, <1>3, <2>1
       DEF IInv, Inductive, TypeOK, ConfigBound, DerivedFromInstalled
<1>4. CASE root' # root
  <2>1. /\ DeltaAllowed(root, s, from, to)
        /\ from \in Ref /\ to \in Ref /\ from # to
        /\ root' = Rewritten(root, s, to)
        /\ \E step \in 1 .. 2 : root'.sourceRev = root.sourceRev + step
    BY <1>1, <1>4, ExecuteMoves
  <2>2. root' \in Policy /\ ConfigBoundTarget(root'.targets[s])
    BY <1>1, <2>1, RewrittenType
  <2>3. ConfigBound'
    <3>1. \A other \in Services \ {s} :
            Rewritten(root, s, to).targets[other] = root.targets[other]
      BY <1>1, RewrittenFields
    <3>2. \A other \in Services \ {s} : root'.targets[other] = root.targets[other]
      BY <2>1, <3>1
    <3>3. QED
      BY <1>1, <2>2, <3>2 DEF ConfigBound
  <2>4. \A old \in installed : old.sourceRev \in Int /\ old.sourceRev < root'.sourceRev
    <3>1. \A old \in installed : old.sourceRev \in Int
      BY <1>1, MaxRevisionAssumption DEF Policy, Revision
    <3>2. root.sourceRev < root'.sourceRev /\ root'.sourceRev \in Int
      BY <1>1, <2>1, <3>1
    <3>3. QED
      BY <1>1, <3>1, <3>2
  <2>5. root'.sourceRev \in Int
    BY <2>2, MaxRevisionAssumption DEF Policy, Revision
  <2>6. /\ root' \in installed'
        /\ \A old \in installed' : old.sourceRev <= root'.sourceRev
        /\ \A x, y \in installed' : x.sourceRev = y.sourceRev => x = y
    BY <1>1, <1>2, <2>4, <2>5
  <2>7. TypeOK'
    BY <1>1, <1>2, <2>2 DEF IInv, Inductive, TypeOK
  <2>8. \A new \in plans' : DerivedFromInstalled(new)'
    BY <1>2 DEF IInv, Inductive, DerivedFromInstalled
  <2>9. QED
    BY <1>2, <2>3, <2>6, <2>7, <2>8 DEF IInv, Inductive
<1>5. QED
  BY <1>3, <1>4

\* Every step, and every stutter, keeps the invariant.
LEMMA NextInductive == IInv /\ [Next]_vars => IInv'
<1>1. SUFFICES ASSUME IInv, [Next]_vars PROVE IInv'
  OBVIOUS
<1>2. CASE UNCHANGED vars
  BY <1>1, <1>2
     DEF vars, IInv, Inductive, TypeOK, ConfigBound, DerivedFromInstalled
<1>3. CASE \E s \in Services : PublishMove(s) \/ PublishNoOp(s)
  BY <1>1, <1>3, PublishInductive
<1>4. CASE \E job \in plans, s \in Services :
             \E from, to \in Refs(job.plan) : Execute(job, s, from, to)
  BY <1>1, <1>4, ExecuteInductive
<1>5. QED
  BY <1>1, <1>2, <1>3, <1>4 DEF Next

\* The inductive invariant holds of every reachable state: the policy is typed
\* and bound to its configurations, a source revision identifies an installed
\* policy, and every published plan was derived from one that was installed.
THEOREM RootPolicyInductive == Spec => []Inductive
<1>1. IInv => Inductive
  BY DEF IInv
<1>2. QED
  BY <1>1, InitInductive, NextInductive, PTL DEF Spec

\* The policy, the policies before it and every published reference have their
\* types, whatever sequence of moves and rollbacks led there.
THEOREM RootPolicyTypeOK == Spec => []TypeOK
<1>1. Inductive => TypeOK
  BY DEF Inductive
<1>2. QED
  BY <1>1, RootPolicyInductive, PTL

\* No sequence of moves and rollbacks leaves a target with the digest of a
\* configuration that is not its own.
THEOREM RootPolicyConfigBound == Spec => []ConfigBound
<1>1. Inductive => ConfigBound
  BY DEF Inductive
<1>2. QED
  BY <1>1, RootPolicyInductive, PTL

-----------------------------------------------------------------------------
(* The properties.                                                         *)

\* Every step that changes the policy is an executor's delta.
LEMMA ChangeIsExecute ==
  ASSUME Inductive, [Next]_vars, root' # root
  PROVE  \E job \in plans, s \in Services :
           \E from, to \in Refs(job.plan) : Execute(job, s, from, to)
<1>1. root \in Policy /\ ConfigBound
  BY DEF Inductive, TypeOK
<1>2. Next
  BY DEF vars
<1>3. ASSUME NEW s \in Services, PublishMove(s) \/ PublishNoOp(s)
      PROVE  FALSE
  BY <1>1, <1>3, PublishAdds
<1>4. QED
  BY <1>2, <1>3 DEF Next

\* What such a step does, gathered for the properties below.
LEMMA ChangeFacts ==
  ASSUME Inductive, [Next]_vars, root' # root
  PROVE  \E s \in Services, from \in Ref, to \in Ref :
           /\ DeltaAllowed(root, s, from, to) /\ from # to
           /\ ValidSnapshotRef(from)
           /\ root' = Rewritten(root, s, to)
           /\ \E step \in 1 .. 2 :
                /\ root'.sourceRev = root.sourceRev + step
                /\ root'.projectionRev = root.projectionRev + step
                /\ root'.policyRev = root.policyRev + step
<1>1. root \in Policy
      /\ \A job \in plans : Refs(job.plan) \subseteq Ref /\ ValidPlan(job.plan)
  BY DEF Inductive, TypeOK
<1>2. PICK job \in plans, s \in Services :
        \E from, to \in Refs(job.plan) : Execute(job, s, from, to)
  BY ChangeIsExecute
<1>3. PICK from \in Refs(job.plan), to \in Refs(job.plan) : Execute(job, s, from, to)
  BY <1>2
<1>4. ValidSnapshotRef(from)
  BY <1>1, <1>3 DEF ValidPlan, Refs
<1>5. QED
  BY <1>1, <1>3, <1>4, ExecuteMoves

\* A policy that was ever installed is never installed again.
THEOREM RootPolicyNeverReinstalled == Spec => NeverReinstalled
<1>1. ASSUME Inductive, [Next]_vars, root' # root
      PROVE  root' \notin installed
  <2>1. \A old \in installed : old.sourceRev <= root.sourceRev /\ old.sourceRev \in Int
    BY <1>1, MaxRevisionAssumption DEF Inductive, TypeOK, Policy, Revision
  <2>2. root \in installed
    BY <1>1 DEF Inductive
  <2>3. \E step \in 1 .. 2 : root'.sourceRev = root.sourceRev + step
    BY <1>1, ChangeFacts
  <2>4. QED
    BY <2>1, <2>2, <2>3
<1>2. Inductive /\ [Next]_vars => [root' # root => root' \notin installed]_vars
  BY <1>1
<1>3. QED
  BY <1>2, RootPolicyInductive, PTL DEF Spec, NeverReinstalled

\* A change moves one target that is not the control panel and never lowers
\* the endpoint revision of any.
THEOREM RootPolicyOnlyOneTargetChanges == Spec => OnlyOneTargetChanges
<1> DEFINE OnlyOne ==
      \E s \in Services :
        /\ root.targets[s].type # "control_panel"
        /\ \A other \in Services \ {s} : root'.targets[other] = root.targets[other]
        /\ root'.targets[s].type = root.targets[s].type
        /\ root'.targets[s].endpointRev >= root.targets[s].endpointRev
        /\ (root'.targets[s].docker = NoDocker) <=> (root.targets[s].docker = NoDocker)
        /\ root.targets[s].docker # NoDocker =>
             root'.targets[s].docker.composePolicy = root.targets[s].docker.composePolicy
<1>1. ASSUME Inductive, [Next]_vars, root' # root
      PROVE  OnlyOne
  <2>1. root \in Policy
    BY <1>1 DEF Inductive, TypeOK
  <2>2. PICK s \in Services, from \in Ref, to \in Ref :
          /\ DeltaAllowed(root, s, from, to) /\ from # to
          /\ ValidSnapshotRef(from)
          /\ root' = Rewritten(root, s, to)
    BY <1>1, ChangeFacts
  <2>3. root.targets[s] \in Target
    BY <2>1 DEF Policy
  <2>4. /\ root'.targets[s] = MovedTarget(root.targets[s], to)
        /\ \A other \in Services \ {s} : root'.targets[other] = root.targets[other]
    <3>1. /\ Rewritten(root, s, to).targets[s] = MovedTarget(root.targets[s], to)
          /\ \A other \in Services \ {s} :
               Rewritten(root, s, to).targets[other] = root.targets[other]
      BY <2>1, RewrittenFields
    <3>2. QED
      BY <2>2, <3>1
  <2>5. /\ root'.targets[s].type = root.targets[s].type
        /\ root'.targets[s].endpointRev = to.appliedEndpointRev
        /\ root'.targets[s].docker = MovedDocker(root.targets[s].docker, to)
    BY <2>3, <2>4, MovedTargetFields
  <2>6. to.appliedEndpointRev >= root.targets[s].endpointRev
    <3>1. root.targets[s].endpointRev = from.appliedEndpointRev
      BY <2>2 DEF DeltaAllowed, RootTargetMatchesRef
    <3>2. /\ DeltaStep(from, to) \in 0 .. 2
          /\ to.endpointRev \in {from.endpointRev, from.endpointRev + DeltaStep(from, to)}
          /\ to.appliedEndpointRev \in {from.appliedEndpointRev, to.endpointRev}
      BY <2>2 DEF DeltaAllowed, CountersAdvance
    <3>3. from.appliedEndpointRev <= from.endpointRev
      BY <2>2 DEF ValidSnapshotRef
    <3>4. to.endpointRev >= from.endpointRev
      BY <2>2, <3>2, RefFields
    <3>5. QED
      BY <2>2, <3>1, <3>2, <3>3, <3>4, RefFields
  <2>7. /\ (root'.targets[s].docker = NoDocker) <=> (root.targets[s].docker = NoDocker)
        /\ root.targets[s].docker # NoDocker =>
             root'.targets[s].docker.composePolicy = root.targets[s].docker.composePolicy
    <3>1. CASE root.targets[s].docker = NoDocker
      BY <2>5, <3>1 DEF MovedDocker
    <3>2. CASE root.targets[s].docker # NoDocker
      <4>1. root.targets[s].docker \in [composePolicy: ComposePolicies, composeRev: Revision]
        BY <2>3, <3>2 DEF Target
      <4>2. to.docker.composeRev \in Revision
        BY <2>1, <2>2, <3>2, RewriteFacts
      <4>3. QED
        BY <2>5, <4>1, <4>2, MovedDockerType
    <3>3. QED
      BY <3>1, <3>2
  <2>8. root.targets[s].type # "control_panel"
    BY <2>2 DEF DeltaAllowed
  <2>9. QED
    BY <2>4, <2>5, <2>6, <2>7, <2>8
<1>2. Inductive /\ [Next]_vars => [root' # root => OnlyOne]_vars
  BY <1>1
<1>3. QED
  BY <1>2, RootPolicyInductive, PTL DEF Spec, OnlyOneTargetChanges

-----------------------------------------------------------------------------
(* Plans and the policies they were made for.                              *)

\* The policy a published plan was made for: the only one its Before names,
\* whose rewrite is the only one its Target names.
LEMMA PlanOrigin ==
  ASSUME Inductive, NEW job \in plans
  PROVE  \E policy \in installed :
           /\ policy \in Policy
           /\ Describes(job.plan.before, policy.targets[job.service])
           /\ DeltaAllowed(policy, job.service, job.plan.before, job.plan.target)
           /\ DeltaAllowed(policy, job.service, job.plan.before, job.plan.rollback)
           /\ \A x : Sha256(x) = job.plan.before.executorSHA <=> x = policy
           /\ \A x : Sha256(x) = job.plan.target.executorSHA =>
                x = ApplyDelta(policy, job.service, job.plan.before, job.plan.target)
           /\ \A x : Sha256(x) = job.plan.rollback.executorSHA =>
                x = ApplyDelta(policy, job.service, job.plan.before, job.plan.rollback)
<1> DEFINE b == job.plan.before
           t == job.plan.target
           r == job.plan.rollback
           s == job.service
<1>1. /\ ValidPlan(job.plan) /\ Refs(job.plan) \subseteq Ref
      /\ installed \subseteq Policy
      /\ DerivedFromInstalled(job)
  BY DEF Inductive, TypeOK
<1>2. PICK policy \in installed :
        /\ DeltaAllowed(policy, s, b, t) /\ DeltaAllowed(policy, s, b, r)
        /\ Describes(b, policy.targets[s])
  BY <1>1 DEF DerivedFromInstalled
<1>3. policy \in Policy
  BY <1>1
<1>4. /\ b \in Ref /\ t \in Ref /\ ValidDigest(t.executorSHA)
      /\ r \in Ref /\ ValidDigest(r.executorSHA)
  BY <1>1, PlanFacts
<1>5. /\ Sha256(ApplyDelta(policy, s, b, t)) = t.executorSHA
      /\ Sha256(ApplyDelta(policy, s, b, r)) = r.executorSHA
      /\ Sha256(policy) = b.executorSHA
  BY <1>2, <1>3, <1>4, ApplyDeltaDigest
<1>6. QED
  BY <1>2, <1>3, <1>5, SameDigest

\* The Target of a plan that moves something is one source revision later.
LEMMA TargetIsNext ==
  ASSUME NEW policy \in Policy, NEW plan, NEW s,
         ValidPlan(plan), Refs(plan) \subseteq Ref, ~PlanIsNoOp(plan),
         DeltaAllowed(policy, s, plan.before, plan.target)
  PROVE  /\ ApplyDelta(policy, s, plan.before, plan.target)
              = Rewritten(policy, s, plan.target)
         /\ ApplyDelta(policy, s, plan.before, plan.target).sourceRev
              = policy.sourceRev + 1
<1>1. /\ plan.before \in Ref /\ plan.target \in Ref
      /\ ChangesThenRestores(plan)
  BY PlanFacts
<1>2. plan.target.sourceRev = plan.before.sourceRev + 1
  BY <1>1 DEF ChangesThenRestores, Follows
<1>3. plan.before # plan.target
  BY <1>1, <1>2, RefFields
<1>4. /\ policy.sourceRev = plan.before.sourceRev
      /\ s \in Services
  BY DEF DeltaAllowed, PolicyMatchesRef
<1>5. ApplyDelta(policy, s, plan.before, plan.target) = Rewritten(policy, s, plan.target)
  BY <1>3 DEF ApplyDelta
<1>6. Rewritten(policy, s, plan.target).sourceRev = plan.target.sourceRev
  BY <1>4, RewrittenFields
<1>7. QED
  BY <1>2, <1>4, <1>5, <1>6

\* From the Before and from the Target of every published plan the rollback is
\* a delta that will be allowed, and both lead to the same policy bytes.
THEOREM RootPolicyRollbackReady == Spec => []RollbackReady
<1>1. ASSUME Inductive PROVE RollbackReady
  <2>1. SUFFICES ASSUME NEW job \in plans
        PROVE  LET b == job.plan.before
                   t == job.plan.target
                   r == job.plan.rollback
               IN /\ Sha256(root) = b.executorSHA =>
                       /\ ApplyDelta(root, job.service, b, t) # NoPolicy
                       /\ ApplyDelta(root, job.service, b, r) # NoPolicy
                       /\ ApplyDelta(ApplyDelta(root, job.service, b, t), job.service, t, r)
                            = ApplyDelta(root, job.service, b, r)
                  /\ Sha256(root) = t.executorSHA =>
                       ApplyDelta(root, job.service, t, r) # NoPolicy
    BY DEF RollbackReady
  <2> DEFINE b == job.plan.before
             t == job.plan.target
             r == job.plan.rollback
             s == job.service
  <2>2. PICK policy \in installed :
          /\ policy \in Policy
          /\ DeltaAllowed(policy, s, b, t)
          /\ DeltaAllowed(policy, s, b, r)
          /\ \A x : Sha256(x) = b.executorSHA <=> x = policy
          /\ \A x : Sha256(x) = t.executorSHA => x = ApplyDelta(policy, s, b, t)
    BY <1>1, PlanOrigin
  <2>3. /\ ValidPlan(job.plan) /\ Refs(job.plan) \subseteq Ref
    BY <1>1 DEF Inductive, TypeOK
  <2>4. /\ b \in Ref /\ t \in Ref /\ r \in Ref
        /\ ValidDigest(t.executorSHA) /\ ValidDigest(r.executorSHA)
        /\ PlanIsNoOp(job.plan) \/ ChangesThenRestores(job.plan)
    BY <2>3, PlanFacts
  <2>5. /\ ApplyDelta(policy, s, b, t) # NoPolicy
        /\ ApplyDelta(policy, s, b, r) # NoPolicy
    BY <2>2, <2>4, ApplyDeltaDigest
  <2>6. CASE PlanIsNoOp(job.plan)
    <3>1. b = t /\ b = r
      BY <2>6 DEF PlanIsNoOp
    <3>2. ApplyDelta(policy, s, b, b) = policy
      BY <2>2, <3>1 DEF ApplyDelta
    <3>3. QED
      BY <2>2, <2>5, <3>1, <3>2
  <2>7. CASE ~PlanIsNoOp(job.plan)
    <3>1. /\ ChangesThenRestores(job.plan)
          /\ ApplyDelta(policy, s, b, t) = Rewritten(policy, s, t)
      BY <2>2, <2>3, <2>4, <2>7, TargetIsNext
    <3>2. /\ DeltaAllowed(Rewritten(policy, s, t), s, t, r)
          /\ ApplyDelta(Rewritten(policy, s, t), s, t, r) = ApplyDelta(policy, s, b, r)
      BY <2>2, <2>3, <3>1, RollbackFromTarget
    <3>3. QED
      BY <2>2, <2>5, <3>1, <3>2
  <2>8. QED
    BY <2>6, <2>7
<1>2. QED
  BY <1>1, RootPolicyInductive, PTL

\* Competing plans made for one policy have at most one winner.
THEOREM RootPolicyOneWinner == Spec => []OneWinner
<1>1. ASSUME Inductive PROVE OneWinner
  <2>1. SUFFICES ASSUME NEW p \in plans, NEW q \in plans,
                        p.plan.before.executorSHA = q.plan.before.executorSHA,
                        ~PlanIsNoOp(p.plan), ~PlanIsNoOp(q.plan),
                        Named(p.plan.target), Named(q.plan.target)
                 PROVE  p.plan.target.executorSHA = q.plan.target.executorSHA
    BY DEF OneWinner
  <2>2. \A job \in plans : ValidPlan(job.plan) /\ Refs(job.plan) \subseteq Ref
    BY <1>1 DEF Inductive, TypeOK
  <2>3. ASSUME NEW job \in plans, NEW winner \in installed, ~PlanIsNoOp(job.plan),
               Sha256(winner) = job.plan.target.executorSHA
        PROVE  \E policy \in installed :
                 /\ Sha256(policy) = job.plan.before.executorSHA
                 /\ winner.sourceRev = policy.sourceRev + 1
    <3>1. PICK policy \in installed :
            /\ policy \in Policy
            /\ DeltaAllowed(policy, job.service, job.plan.before, job.plan.target)
            /\ Sha256(policy) = job.plan.before.executorSHA
            /\ winner = ApplyDelta(policy, job.service, job.plan.before, job.plan.target)
      BY <1>1, <2>3, PlanOrigin
    <3>2. ApplyDelta(policy, job.service, job.plan.before, job.plan.target).sourceRev
            = policy.sourceRev + 1
      BY <2>2, <2>3, <3>1, TargetIsNext
    <3>3. QED
      BY <3>1, <3>2
  <2>4. PICK x \in installed : Sha256(x) = p.plan.target.executorSHA
    BY <2>1 DEF Named
  <2>5. PICK y \in installed : Sha256(y) = q.plan.target.executorSHA
    BY <2>1 DEF Named
  <2>6. PICK base \in installed :
          /\ Sha256(base) = p.plan.before.executorSHA
          /\ x.sourceRev = base.sourceRev + 1
    BY <2>1, <2>3, <2>4
  <2>7. PICK other \in installed :
          /\ Sha256(other) = q.plan.before.executorSHA
          /\ y.sourceRev = other.sourceRev + 1
    BY <2>1, <2>3, <2>5
  <2>8. base = other
    BY <2>1, <2>6, <2>7, SameDigest
  <2>9. x = y
    BY <1>1, <2>6, <2>7, <2>8 DEF Inductive
  <2>10. QED
    BY <2>4, <2>5, <2>9
<1>2. QED
  BY <1>1, RootPolicyInductive, PTL

\* A plan's Target is installed from the plan's own Before and from no other
\* policy: a late or repeated command cannot apply it again.
THEOREM RootPolicyTargetOnlyFromBefore == Spec => TargetOnlyFromBefore
<1> DEFINE FromBefore ==
      \A job \in plans :
        root' # root /\ ~PlanIsNoOp(job.plan)
          /\ Sha256(root') = job.plan.target.executorSHA
        => Sha256(root) = job.plan.before.executorSHA
<1>1. ASSUME Inductive, [Next]_vars, NEW job \in plans,
             root' # root, ~PlanIsNoOp(job.plan),
             Sha256(root') = job.plan.target.executorSHA
      PROVE  Sha256(root) = job.plan.before.executorSHA
  <2>1. PICK policy \in installed :
          /\ policy \in Policy
          /\ DeltaAllowed(policy, job.service, job.plan.before, job.plan.target)
          /\ Sha256(policy) = job.plan.before.executorSHA
          /\ root' = ApplyDelta(policy, job.service, job.plan.before, job.plan.target)
    BY <1>1, PlanOrigin
  <2>2. ValidPlan(job.plan) /\ Refs(job.plan) \subseteq Ref
    BY <1>1 DEF Inductive, TypeOK
  <2>3. ApplyDelta(policy, job.service, job.plan.before, job.plan.target).sourceRev
          = policy.sourceRev + 1
    BY <1>1, <2>1, <2>2, TargetIsNext
  <2>4. root'.sourceRev = policy.sourceRev + 1
    BY <2>1, <2>3
  <2>5. \E step \in 1 .. 2 : root'.sourceRev = root.sourceRev + step
    BY <1>1, ChangeFacts
  <2>6. /\ policy.sourceRev <= root.sourceRev
        /\ root \in installed
        /\ root.sourceRev \in Int /\ policy.sourceRev \in Int
    BY <1>1, <2>1, MaxRevisionAssumption DEF Inductive, TypeOK, Policy, Revision
  <2>7. root.sourceRev = policy.sourceRev
    BY <2>4, <2>5, <2>6
  <2>8. root = policy
    BY <1>1, <2>6, <2>7 DEF Inductive
  <2>9. QED
    BY <2>1, <2>8
<1>2. Inductive /\ [Next]_vars => [FromBefore]_vars
  BY <1>1
<1>3. QED
  BY <1>2, RootPolicyInductive, PTL DEF Spec, TargetOnlyFromBefore

\* A target whose digest binds a revision of its own is in its own place.
LEMMA SamePlaceReflexive ==
  ASSUME NEW target \in Target, ConfigBoundTarget(target)
  PROVE  SamePlace(target, target)
<1>1. CASE target.docker = NoDocker
  BY <1>1 DEF ConfigBoundTarget, SamePlace, Sha256, ListenerConfig
<1>2. CASE target.docker # NoDocker
  <2>1. PICK c : target.configSHA =
          Sha256(DockerConfig(target.type, target.localPort, c, target.configRev))
    BY <1>2 DEF ConfigBoundTarget
  <2>2. QED
    BY <2>1 DEF SamePlace, Sha256, DockerConfig
<1>3. QED
  BY <1>1, <1>2

\* Equal ports put two configurations of one type in one place.
LEMMA SamePlaceOfRefs ==
  ASSUME NEW target \in Target, NEW before, NEW after,
         Describes(before, target), LocalEqual(before, after),
         (target.docker = NoDocker) <=> (before.docker = NoDocker),
         target.localPort = before.localPort,
         target.docker # NoDocker => /\ after.docker.published = after.localPort
                                     /\ before.docker # NoDocker,
         after.configSHA = Sha256(ConfigOf(target.type, after))
  PROVE  SamePlace(MovedTarget(target, after), target)
<1> DEFINE new == MovedTarget(target, after)
<1>1. /\ new.type = target.type
      /\ new.configRev = after.configRev
      /\ new.configSHA = after.configSHA
      /\ new.localPort = after.localPort
  BY MovedTargetFields
<1>2. after.localPort = before.localPort
  BY DEF LocalEqual
<1>3. ConfigOf(target.type, after)
        = [ConfigOf(target.type, before) EXCEPT !.revision = after.configRev]
  <2>1. CASE target.docker = NoDocker
    <3>1. before.docker = NoDocker /\ after.docker = NoDocker
      BY <2>1 DEF LocalEqual, SameDeployment
    <3>2. QED
      BY <1>2, <3>1 DEF ConfigOf, ListenerConfig
  <2>2. CASE target.docker # NoDocker
    <3>1. /\ before.docker # NoDocker /\ after.docker # NoDocker
          /\ after.docker.published = before.docker.published
          /\ after.docker.container = before.docker.container
      BY <2>2 DEF LocalEqual, SameDeployment
    <3>2. QED
      BY <3>1 DEF ConfigOf, DockerConfig
  <2>3. QED
    BY <2>1, <2>2
<1>4. /\ target.configSHA[2] = ConfigOf(target.type, before)
      /\ new.configSHA[2] = ConfigOf(target.type, after)
  BY <1>1 DEF Describes, Sha256
<1>5. QED
  BY <1>1, <1>2, <1>3, <1>4 DEF SamePlace

\* A rolled back host listens where the plan's Before did, on every service.
THEOREM RootPolicyRollbackRestores == Spec => []RollbackRestores
<1>1. ASSUME Inductive PROVE RollbackRestores
  <2>1. SUFFICES ASSUME NEW job \in plans, NEW old \in installed,
                        Sha256(old) = job.plan.before.executorSHA,
                        Sha256(root) = job.plan.rollback.executorSHA,
                        NEW x \in Services
                 PROVE  SamePlace(root.targets[x], old.targets[x])
    BY DEF RollbackRestores
  <2> DEFINE b == job.plan.before
             r == job.plan.rollback
             s == job.service
  <2>2. /\ old \in Policy
        /\ Describes(b, old.targets[s])
        /\ DeltaAllowed(old, s, b, r)
        /\ root = ApplyDelta(old, s, b, r)
    BY <1>1, <2>1, PlanOrigin
  <2>3. /\ ValidPlan(job.plan) /\ Refs(job.plan) \subseteq Ref
        /\ root \in Policy /\ ConfigBound
    BY <1>1 DEF Inductive, TypeOK
  <2>4. b \in Ref /\ r \in Ref /\ s \in Services
    BY <2>2, <2>3, PlanFacts DEF DeltaAllowed
  <2>5. SamePlace(root.targets[x], root.targets[x])
    BY <2>3, SamePlaceReflexive DEF ConfigBound, Policy
  <2>6. CASE b = r
    <3>1. root = old
      BY <2>2, <2>6 DEF ApplyDelta
    <3>2. QED
      BY <2>5, <3>1
  <2>7. CASE b # r
    <3>1. root = Rewritten(old, s, r)
      BY <2>2, <2>7 DEF ApplyDelta
    <3>2. /\ Rewritten(old, s, r).targets[s] = MovedTarget(old.targets[s], r)
          /\ \A other \in Services \ {s} :
               Rewritten(old, s, r).targets[other] = old.targets[other]
      <4>1. old \in Policy /\ s \in Services
        BY <2>2, <2>4
      <4> HIDE DEF r, s
      <4>2. QED
        BY <4>1, RewrittenFields
    <3>3. CASE x # s
      BY <2>5, <3>1, <3>2, <3>3
    <3>4. CASE x = s
      <4>1. LocalEqual(b, r)
        BY <2>3, <2>7, PlanFacts DEF PlanIsNoOp, ChangesThenRestores
      <4>2. /\ (old.targets[s].docker = NoDocker) <=> (b.docker = NoDocker)
            /\ (old.targets[s].docker = NoDocker) <=> (r.docker = NoDocker)
            /\ r.docker # NoDocker => r.docker.published = r.localPort
            /\ r.configSHA = Sha256(ConfigOf(old.targets[s].type, r))
        BY <2>2, <2>4, <2>7, RewriteFacts DEF MayRewrite
      <4>3. /\ old.targets[s] \in Target
            /\ old.targets[s].localPort = b.localPort
        BY <2>2, <2>4 DEF Policy, DeltaAllowed, RootTargetMatchesRef
      <4>4. SamePlace(MovedTarget(old.targets[s], r), old.targets[s])
        BY <2>2, <4>1, <4>2, <4>3, SamePlaceOfRefs
      <4>5. QED
        BY <3>1, <3>2, <3>4, <4>4
    <3>5. QED
      BY <3>3, <3>4
  <2>8. QED
    BY <2>6, <2>7
<1>2. QED
  BY <1>1, RootPolicyInductive, PTL
=============================================================================
