-------------------------- MODULE UpdaterProtocol --------------------------
(***************************************************************************)
(* Version 2 of the Updater protocol: the envelopes of                     *)
(* src/pkg/contracts/types_updater_protocol.go and what                    *)
(* updater_runtime_validation.go requires of them.                         *)
(*                                                                         *)
(* An identifier, nonce, key or version is a member of Names and NoName is *)
(* the empty string, the one value that no pattern matches.  Times are     *)
(* naturals and 0 is Go's zero time.  The three constants of an issuer are *)
(* one field, and so are a safe error's code and its message, of which     *)
(* there is one per code.  Fields that a message only repeats from its     *)
(* lease are gathered in a record of their own, "bound".                   *)
(***************************************************************************)
EXTENDS PortPlan, FiniteSets

CONSTANTS
  Names,    \* well-formed identifiers, nonces, keys and versions
  NoName,   \* the empty string
  Nil       \* the nil pointer

ASSUME NoNameAssumption == NoName \notin Names

Time == Nat
Revisions == 0 .. MaxRevision

-----------------------------------------------------------------------------
(* The closed vocabularies.                                                *)

Capabilities ==
  {"host.systemd", "host.docker", "host.update", "host.bootstrap", "host.port",
   "host.self_update"}

Operations == {"software_update", "bootstrap", "port_reconfigure", "host_self_update"}

Mutations ==
  {"apply", "reconcile", "port_reconfigure", "port_reconfigure_reconcile", "bootstrap",
   "bootstrap_reconcile", "host_self_update_stage", "host_self_update_activate",
   "host_self_update_reconcile"}

Outcomes == {"succeeded", "failed", "rolled_back", "ambiguous", "canceled"}

Statuses ==
  {"queued", "claimed", "downloading", "verifying", "staging", "stopping", "installing",
   "starting", "health_checking", "reconciling", "rolling_back", "succeeded",
   "rolled_back", "failed", "canceled"}

Phases ==
  {"accepted", "journaled", "preparing", "executing", "verifying", "rolling_back",
   "reconciling"}

EvidenceCodes ==
  {"command_accepted", "phase_observed", "application_probe_verified",
   "host_runtime_verified", "rollback_verified", "outcome_ambiguous"}

\* The codes that have a canonical message, the only one they may carry.
SafeErrorCodes ==
  {"protocol_version_unsupported", "issuer_authentication_failed",
   "updater_identity_mismatch", "authorization_expired", "authorization_replayed",
   "idempotency_payload_conflict", "capability_missing", "revision_conflict",
   "stale_fence", "command_expired", "outcome_ambiguous", "local_journal_unavailable",
   "execution_failed"}

TargetKinds == {"application", "update_agent", "host_runtime"}

DeploymentModes == {"systemd", "docker"}

TargetTypes == ServiceTypes \cup {"update_agent"}

-----------------------------------------------------------------------------
(* The envelopes.                                                          *)

Target ==
  [kind: TargetKinds, service: Names, type: TargetTypes, deployment: DeploymentModes,
   expectedConfigRev: Revisions, executionHost: Names \cup {NoName}]

SoftwareUpdate ==
  [expectedVersion: Names, targetVersion: Names, strategy: {"when_idle", "maintenance"}]

Bootstrap == [expectedState: {"absent"}, targetVersion: Names]

\* The flat fields of a saved legacy plan; which of them are set is what the
\* validators look at.
LegacyDocker ==
  [oldPublished: Int, newPublished: Int, oldHealth: Int, newHealth: Int]

\* version is port_contract_version; result belongs to legacy plans only.
ValidPortPayload(plan) ==
  \/ /\ plan.version = 2
     /\ ValidPlan(plan.plan)
  \/ /\ plan.version = 0
     /\ plan.result = ""
     /\ plan.oldPort # plan.newPort

Evidence ==
  [code: EvidenceCodes, at: Time, rev: Revisions]

SafeError == [code: SafeErrorCodes, correlation: Names \cup {NoName}]

\* What a progress report, and what a result, repeats of its lease.
ProgressBinding(lease) ==
  LET auth == lease.command.authorization
  IN [command |-> lease.command.id, job |-> auth.job, updater |-> auth.updater,
      host |-> auth.host, leaseID |-> lease.id, generation |-> lease.generation,
      desiredRev |-> auth.desiredRev, fence |-> auth.fence,
      correlation |-> lease.command.correlation]

\* Mutant of ResultBinding: a result is not bound to the generation of its lease.
ResultBindingOfAnyLease(lease) ==
  [progress |-> [ProgressBinding(lease) EXCEPT !.generation = 0],
   key |-> lease.command.key, digest |-> lease.command.digest,
   authorization |-> lease.command.authorization.id]

ResultBinding(lease) ==
  [progress |-> ProgressBinding(lease),
   key |-> lease.command.key, digest |-> lease.command.digest,
   authorization |-> lease.command.authorization.id]

-----------------------------------------------------------------------------
(* Commands.                                                               *)

\* The JCS digest covers the target, the revision, the fence and the desired
\* operation; JCS refuses numbers beyond the safe integers.
CanonicalDigest(target, desiredRev, fence, desired) ==
  IF ValidRevision(desiredRev) /\ ValidRevision(fence)
    THEN Sha256([target |-> target, desiredRev |-> desiredRev, fence |-> fence,
                 desired |-> desired])
    ELSE NoDigest

CapabilityFor(operation) ==
  CASE operation = "software_update"  -> "host.update"
    [] operation = "bootstrap"        -> "host.bootstrap"
    [] operation = "port_reconfigure" -> "host.port"
    [] operation = "host_self_update" -> "host.self_update"

\* Each desired operation is executed and reconciled by mutations of its own.
MutationsFor(operation) ==
  CASE operation = "software_update"  -> {"apply", "reconcile"}
    [] operation = "port_reconfigure" -> {"port_reconfigure", "port_reconfigure_reconcile"}
    [] operation = "bootstrap"        -> {"bootstrap", "bootstrap_reconcile"}
    [] operation = "host_self_update" ->
         {"host_self_update_stage", "host_self_update_activate",
          "host_self_update_reconcile"}

\* Exactly the payload of the operation is present, and it asks for a change.
ValidDesired(desired) ==
  /\ desired.operation \in Operations
  /\ \A op \in Operations : desired.payload[op] # Nil <=> op = desired.operation
  /\ LET payload == desired.payload[desired.operation]
     IN CASE desired.operation = "software_update" ->
               payload \in SoftwareUpdate /\ payload.expectedVersion # payload.targetVersion
          [] desired.operation = "bootstrap" -> payload \in Bootstrap
          [] desired.operation = "port_reconfigure" -> ValidPortPayload(payload)
          [] OTHER -> TRUE

ValidTarget(target, operation, host) ==
  /\ target.service \in Names
  /\ target.deployment \in DeploymentModes
  /\ \/ /\ target.kind = "application"
        /\ operation \in {"software_update", "port_reconfigure"}
        /\ target.type \in ServiceTypes
        /\ target.expectedConfigRev >= 1
        /\ target.executionHost = NoName
     \/ /\ \/ target.kind = "update_agent" /\ operation = "bootstrap"
           \/ target.kind = "host_runtime" /\ operation = "host_self_update"
        /\ target.type = "update_agent"
        /\ target.deployment = "systemd"
        /\ target.expectedConfigRev = 0
        /\ target.executionHost \in Names
        /\ target.executionHost = host

\* A port plan fits the target it is sent to.
ValidPortTarget(target, plan) ==
  IF plan.version = 2
    THEN /\ target.type \notin {"control_panel", "update_agent"}
         /\ target.deployment = "docker" <=> plan.plan.dockerBaseline # NoDocker
         /\ ValidDigest(plan.plan.planSHA256)
    ELSE /\ ValidDigest(plan.planSHA256)
         /\ IF target.deployment = "systemd"
              THEN plan.docker = Nil /\ plan.oldPort >= 1024 /\ plan.newPort >= 1024
              ELSE /\ plan.docker \in LegacyDocker
                   /\ plan.docker.oldHealth = plan.docker.oldPublished
                   /\ plan.docker.newHealth = plan.docker.newPublished

PortPlanOf(command) == command.desired.payload["port_reconfigure"]

IsPortV2(command) == PortPlanOf(command) # Nil /\ PortPlanOf(command).version = 2

\* The revisions a version 2 command authorizes are those of its plan.
RevisionsOfPlan(command) ==
  IsPortV2(command) =>
    /\ command.authorization.desiredRev = PortPlanOf(command).plan.target.configRev
    /\ command.authorization.target.expectedConfigRev =
         PortPlanOf(command).plan.before.configRev

ValidAuthorization(auth) ==
  /\ {auth.id, auth.nonce, auth.job, auth.updater, auth.host} \subseteq Names
  /\ auth.desiredRev >= 1
  /\ auth.fence >= 1
  /\ auth.expires # 0
  /\ auth.oneTime

ValidUpdaterCommand(command) ==
  LET auth == command.authorization
  IN /\ command.version = 2
     /\ {command.id, command.key, command.correlation} \subseteq Names
     /\ command.issuer = "control_panel"
     /\ ValidAuthorization(auth)
     /\ ValidDesired(command.desired)
     /\ auth.action = CapabilityFor(command.desired.operation)
     /\ auth.required = CapabilityFor(command.desired.operation)
     /\ ValidTarget(auth.target, command.desired.operation, auth.host)
     /\ command.desired.operation = "port_reconfigure" =>
          ValidPortTarget(auth.target, PortPlanOf(command))
     /\ RevisionsOfPlan(command)
     /\ ValidDigest(command.digest)
     /\ command.digest = auth.digest
     /\ command.digest = CanonicalDigest(auth.target, auth.desiredRev, auth.fence,
                                         command.desired)

\* What the panel authorizes for a job: one use of one mutation, until expires.
Authorize(job, host, target, desired, desiredRev, fence, expires) ==
  [id |-> job, nonce |-> job, job |-> job, updater |-> host, host |-> host,
   action |-> CapabilityFor(desired.operation), target |-> target,
   digest |-> CanonicalDigest(target, desiredRev, fence, desired),
   desiredRev |-> desiredRev, fence |-> fence, expires |-> expires,
   required |-> CapabilityFor(desired.operation), oneTime |-> TRUE]

CommandFor(job, desired, authorization) ==
  [version |-> 2, id |-> job, issuer |-> "control_panel", key |-> job,
   digest |-> authorization.digest, authorization |-> authorization,
   desired |-> desired, correlation |-> job]

Desired(operation, payload) ==
  [operation |-> operation,
   payload |-> [op \in Operations |-> IF op = operation THEN payload ELSE Nil]]

-----------------------------------------------------------------------------
(* Leases and grants.                                                      *)

\* Mutant of ValidLeaseStatic: the lease may outlive the authorization.
ValidLeaseBeyondAuthorization(lease) ==
  /\ lease.version = 2
  /\ lease.id \in Names
  /\ lease.generation >= 1
  /\ lease.expires # 0
  /\ ValidUpdaterCommand(lease.command)

ValidLeaseStatic(lease) ==
  /\ lease.version = 2
  /\ lease.id \in Names
  /\ lease.generation >= 1
  /\ lease.expires # 0
  /\ lease.expires <= lease.command.authorization.expires
  /\ ValidUpdaterCommand(lease.command)

ValidUpdaterLease(now, lease) ==
  /\ now # 0
  /\ now < lease.expires
  /\ ValidLeaseStatic(lease)

ValidGrantBinding(now, binding) ==
  /\ binding.session \in Names
  /\ ValidUpdaterLease(now, binding.lease)
  /\ binding.operation \in MutationsFor(binding.lease.command.desired.operation)

\* The opaque token is left out; its length is all that is checked of it.
ValidGrantResponse(now, response) == now # 0 /\ now < response.expires

ValidGrantResponseForLease(now, lease, response) ==
  /\ ValidGrantResponse(now, response)
  /\ response.expires <= lease.expires
  /\ response.expires <= lease.command.authorization.expires
  /\ ValidUpdaterLease(now, lease)

-----------------------------------------------------------------------------
(* Progress and results.                                                   *)

ValidUpdaterProgress(lease, progress) ==
  /\ progress.version = 2
  /\ progress.bound = ProgressBinding(lease)
  /\ progress.sequence >= 0
  /\ progress.progress \in 0 .. 100
  /\ progress.phase \in Phases
  /\ progress.at # 0
  /\ progress.at <= lease.expires
  /\ ValidLeaseStatic(lease)

ValidEvidence(evidence, lease) ==
  /\ Cardinality(evidence) \in 1 .. 32
  /\ \A item \in evidence :
       /\ item.code \in EvidenceCodes
       /\ item.at # 0
       /\ item.at <= lease.expires
       /\ item.rev >= 1

HasEvidence(evidence, code) == \E item \in evidence : item.code = code

HasEvidenceAt(evidence, code, rev) ==
  \E item \in evidence : item.code = code /\ item.rev = rev

ValidSafeError(error, correlation) ==
  /\ error # Nil
  /\ error.code \in SafeErrorCodes
  /\ error.correlation \in {NoName, correlation}

\* What a result says of a port move agrees with its outcome and its evidence.
PortResultFits(lease, result) ==
  IF ~IsPortV2(lease.command)
    THEN result.port = Nil
  ELSE IF result.port = Nil
    THEN /\ result.appliedRev = 0
         /\ result.outcome \in {"failed", "ambiguous"} \/ result.status = "canceled"
  ELSE LET plan == PortPlanOf(lease.command).plan
           port == result.port
       IN /\ ValidResult(plan, port)
          /\ port.observation.at <= lease.expires
          /\ CASE port.result \in {"applied", "unchanged"} ->
                    /\ result.outcome = "succeeded"
                    /\ result.status = "succeeded"
                    /\ result.appliedRev = port.configRev
               [] port.result = "rolled_back" ->
                    /\ result.outcome = "rolled_back"
                    /\ result.status = "rolled_back"
                    /\ result.appliedRev = plan.rollback.configRev
                    /\ HasEvidenceAt(result.evidence, "rollback_verified", result.appliedRev)
                    /\ HasEvidenceAt(result.evidence, "application_probe_verified",
                                     result.appliedRev)
               [] port.result = "rollback_failed" ->
                    /\ result.outcome = "failed"
                    /\ result.status = "failed"
                    /\ result.appliedRev = 0

\* What each outcome must come with.
OutcomeJustified(lease, result) ==
  LET command == lease.command
  IN \/ /\ result.outcome = "succeeded"
        /\ result.status = "succeeded"
        /\ result.safeError = Nil
        /\ result.appliedRev = result.bound.progress.desiredRev
        /\ command.authorization.target.kind = "application" =>
             HasEvidenceAt(result.evidence, "application_probe_verified", result.appliedRev)
        /\ command.desired.operation = "host_self_update" =>
             HasEvidenceAt(result.evidence, "host_runtime_verified", result.appliedRev)
     \/ /\ result.outcome = "rolled_back"
        /\ result.status = "rolled_back"
        /\ HasEvidence(result.evidence, "rollback_verified")
     \/ /\ result.outcome = "failed"
        /\ result.status = "failed"
        /\ result.safeError # Nil
     \/ /\ result.outcome = "ambiguous"
        /\ result.status = "reconciling"
        /\ result.safeError # Nil
        /\ result.safeError.code = "outcome_ambiguous"
        /\ HasEvidence(result.evidence, "outcome_ambiguous")
     \/ /\ result.outcome = "canceled"
        /\ IsPortV2(command)
        /\ result.status = "canceled"
        /\ result.port = Nil
        /\ result.appliedRev = 0

ValidUpdaterResult(lease, result) ==
  /\ result.version = 2
  /\ result.bound = ResultBinding(lease)
  /\ ~result.resend
  /\ OutcomeJustified(lease, result)
  /\ ValidEvidence(result.evidence, lease)
  /\ result.safeError # Nil => ValidSafeError(result.safeError, lease.command.correlation)
  /\ PortResultFits(lease, result)
  /\ ValidLeaseStatic(lease)

-----------------------------------------------------------------------------
(* The documents on the wire: encoding drops the omitempty fields that are *)
(* zero, and the raw validators look at which members are present.         *)

\* zeros gives the zero value of each field that may be omitted.
Encode(record, zeros) ==
  [field \in {f \in DOMAIN record : f \in DOMAIN zeros => record[f] # zeros[f]} |->
     record[field]]

Decode(document, zeros) ==
  [field \in DOMAIN document \cup DOMAIN zeros |->
     IF field \in DOMAIN document THEN document[field] ELSE zeros[field]]

HasFields(document, fields) == fields \subseteq DOMAIN document

PortResultZeros ==
  [snapshot |-> NoDigest, configRev |-> 0, configSHA |-> NoDigest, executorRev |-> 0,
   executorSHA |-> NoDigest, runtime |-> NoDocker]

ResultZeros == [appliedRev |-> 0, safeError |-> Nil, port |-> Nil]

TargetZeros == [expectedConfigRev |-> 0, executionHost |-> NoName]

\* Mutant of EqualPortResults: the time of the observation is not compared.
EqualPortResultsAtAnyTime(left, right) ==
  Encode([left EXCEPT !.observation.at = 0], PortResultZeros) =
    Encode([right EXCEPT !.observation.at = 0], PortResultZeros)

\* Two port results are the same when their encodings are.
EqualPortResults(left, right) ==
  Encode(left, PortResultZeros) = Encode(right, PortResultZeros)

\* Mutant of PortResultDocument: a failed rollback must carry an observation.
PortResultDocumentObserved(port) ==
  HasFields(port, {"result", "observation", "snapshot", "configRev", "configSHA",
                   "executorRev", "executorSHA"})

PortResultDocument(port) ==
  /\ HasFields(port, {"result", "observation"})
  /\ HasFields(port.observation,
       {"policyDisk", "policyMemory", "agentProjection", "listener", "at"})
  /\ IF port.result = "rollback_failed"
       THEN DOMAIN port = {"result", "observation"}
       ELSE HasFields(port, {"snapshot", "configRev", "configSHA", "executorRev",
                             "executorSHA"})

ResultDocument(document) ==
  /\ HasFields(document, {"version", "bound", "outcome", "status", "resend", "evidence"})
  /\ document.outcome = "succeeded" => HasFields(document, {"appliedRev"})
  /\ document.outcome \in {"failed", "ambiguous"} => HasFields(document, {"safeError"})
  /\ HasFields(document, {"port"}) => PortResultDocument(document.port)
  /\ Cardinality(document.evidence) \in 1 .. 32

ProgressDocument(document) ==
  HasFields(document, {"version", "bound", "sequence", "phase", "progress", "at"})

TargetDocument(target) ==
  /\ HasFields(target, {"kind", "service", "type", "deployment"})
  /\ IF target.kind = "application"
       THEN HasFields(target, {"expectedConfigRev"}) /\ ~HasFields(target, {"executionHost"})
       ELSE HasFields(target, {"executionHost"}) /\ ~HasFields(target, {"expectedConfigRev"})

LeaseDocument(lease) ==
  /\ HasFields(lease, {"version", "id", "generation", "expires", "command"})
  /\ HasFields(lease.command, {"version", "id", "issuer", "key", "digest", "authorization",
                               "desired", "correlation"})
  /\ HasFields(lease.command.authorization,
       {"id", "nonce", "job", "updater", "host", "action", "target", "digest",
        "desiredRev", "fence", "expires", "required", "oneTime"})
  /\ TargetDocument(lease.command.authorization.target)

EncodeLease(lease) ==
  [lease EXCEPT !.command.authorization.target = Encode(@, TargetZeros)]

DecodeLease(document) ==
  [document EXCEPT !.command.authorization.target = Decode(@, TargetZeros)]

EncodeResult(result) ==
  Encode([result EXCEPT !.port = IF @ = Nil THEN Nil ELSE Encode(@, PortResultZeros)],
         ResultZeros)

DecodeResult(document) ==
  [Decode(document, ResultZeros) EXCEPT
     !.port = IF @ = Nil THEN Nil ELSE Decode(@, PortResultZeros)]

\* The network entry points: first what is present, then what it says.
ValidLeaseEnvelope(now, document) ==
  LeaseDocument(document) /\ ValidUpdaterLease(now, DecodeLease(document))

ValidProgressEnvelope(lease, document) ==
  ProgressDocument(document) /\ ValidUpdaterProgress(lease, document)

ValidResultEnvelope(lease, document) ==
  ResultDocument(document) /\ ValidUpdaterResult(lease, DecodeResult(document))

ValidGrantRequest(now, request) ==
  /\ HasFields(request, {"lease", "operation", "session"})
  /\ LeaseDocument(request.lease)
  /\ ValidGrantBinding(now, [request EXCEPT !.lease = DecodeLease(@)])
=============================================================================
