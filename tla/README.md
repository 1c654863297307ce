# Verification of Autostream-Contracts

`src/` is the shared contract library of the Autostream services: JSON schemas
and OpenAPI documents, the Go package `pkg/contracts` that validates what the
services exchange, the scripts that assemble the published artifacts and the
workflow that releases them. The services themselves (Control Panel, Updater,
Executor, Worker, Encoder) live elsewhere. The verification therefore asks two
kinds of question:

- of a **validator**: which behaviours does it still allow when the programs on
  both sides do anything they please as long as every document they exchange is
  valid? Those programs are nondeterministic in the models. In `RootPolicy` they
  are bound by the validators and by what a plan is made from (an installed policy
  and its container port), and in `SnapshotStore` by that no table goes back in
  time. A lease protocol cannot be judged that way: `UpdaterJob` and `CoverRuntime`
  also assume things of the programs, which are listed with these modules, and what
  holds there is a property of the validators and of programs that keep to that;
- of a **procedure** in the repository (the release workflow, artifact assembly,
  a parser): does it reach what it promises whatever fails or interferes?

## Inventory

| Component | Source | State | Operations | Hard behaviour | What makes it correct |
| --- | --- | --- | --- | --- | --- |
| Port reconfiguration contract v2 | `pkg/contracts/system_update_port_v2.go`, `system_update_port_policy.go`, `system_update_port_validation.go` | the host's root policy; published Before/Target/Rollback plans; results | `ValidateSystemUpdatePortPlan`, `ApplySystemUpdatePortPolicyDelta`, `ValidateSystemUpdatePortResult`, config and digest derivation | several plans for one policy, late, repeated and reordered deltas, rollbacks at the revision limit, no-op plans, off-by-one ports | one winner per policy, no policy bytes ever installed twice (no ABA), rollback always possible and restoring, only one target touched |
| Policy snapshot | same files | source policy, root policy, bindings and target states taken together | `ValidateSystemUpdatePortPolicySnapshot`, snapshot identity, comparison, storage | four documents read one after the other while the policy changes; identity independent of order; a request made twice | a valid snapshot shows one moment and has one identity, and is good for one change |
| Updater protocol v2 | `updater_runtime_validation.go`, `types_updater_protocol.go`, `types_system_updates.go` | command, lease with generation, progress, result, mutation grant | `ValidateUpdaterCommand`, `…Lease`, `…Progress`, `…Result`, `…MutationGrant…` | late results of older leases, retries with a new generation, grants used after authorization expired, crashes of the Updater and of the executor, an Agent that follows late | an accepted verdict is true of the host and stays true; no mutation without a live grant |
| Video cover | `visual_runtime_validation.go`, `types_visual.go` | desired and applied cover with job generation, graph generation and revision; the last witness | request, response and runtime validators | graphs that are replaced, switch late or interrupt the audio; stale witnesses; late requests | what is believed shown was shown; an honest Encoder can always report |
| Encoder start preparation | `encoder_start_preparation.go` | attempts that are prepared, committed, aborted, expired | document validators | commands of one attempt that reach another | an attempt believed to run has shown its cover |
| Node listener configuration | `node_listener_config.go` | none | `Parse`, `Marshal` | almost-canonical input | not modelled: byte layout of one document |
| Strict JSON, canonical JSON | `updater_runtime_validation.go`, `visual_runtime_validation.go` | a token scanner | decode, duplicate-member scan, JCS | members omitted by one side and required by the other | what one side marshals the other accepts |
| Compiled schema caches | three `sync.Once` users | compiled schemas, sticky error | first use | concurrent first use, an error half way | nobody sees a half-built cache, every call returns |
| Release manifest, permission catalogue | `release_manifest.go`, `permissions.go` | tables | marshal | none | not modelled: nothing a model would add |
| Data transfer types | `types_*.go` | none | none | none | not modelled: declarations |
| JSON Schemas, OpenAPI | `schemas/`, `openapi/`, `authoring/` | none | none | none | not modelled: declarative; the Go validators beside them are |
| Artifact assembly, source integrity | `scripts/` | fragments and generated outputs | assemble, verify, write | a script that dies between two writes or within one, fragments that change meanwhile | what is reported as verified was assembled from one moment; `--write` repairs |
| Release workflow | `.github/workflows/release-contracts.yml` | a draft release, its assets, tags, run outputs | reserve, upload, verify, attest, publish, verify, recover | failures between any two API calls, lost responses, other writers of the same releases and tags | what is reported as released is immutable, attested, tagged and has the run's own assets |
| CI workflows, characterization | `ci.yml`, `characterization-update.yml`, `scripts/*.mjs` | none | none | none | not modelled: linear jobs |

How they interact: the Control Panel takes a **policy snapshot** of a host, a
**request** names it, and a **plan** is derived with
`ApplySystemUpdatePortPolicyDelta`; the plan travels in an **updater command**
under a **lease**; the executor moves the policy with the same function under a
**grant** and reports a **result**, which must observe the reference the plan
names. The digest in each reference is what ties the pieces together, which is why
digests are part of the model (below) and not left out. A **cover** is first asked
for by the **start preparation** of a stream and changed by apply requests
afterwards; both are answered with the same runtime state.

## Plan

In order of importance. All of it is on disk, and every safety property a passing run
checks is the subject of a theorem.

1. `PortPlan`, `PolicyDelta`, `RootPolicy`, `RootPolicyProofs` - the policy a
   host installs under any plans (**checked and proved**).
2. `TrustedRelease`, `ReleasePipeline`, `ReleasePipelineProofs`,
   `ReleaseTrustProofs` - the release workflow against failures and other writers,
   shown to implement what it promises its consumers (**checked; safety, the
   report of unverified releases and the refinement proved**).
3. `UpdaterProtocol`, `JobVerdict`, `UpdaterJob`, `UpdaterJobProofs` - every
   validator of the Updater protocol, composed into a job over an unreliable network
   and shown to implement an abstract verdict (**checked; the inductive invariant,
   the refinement, the verdict, its finality, the bound by the authorization and the
   readability of what is sent proved**).
4. `VideoCover`, `StartPreparation`, `CoverRuntime`, `CoverRuntimeProofs` - covers
   and prepared starts (**checked and proved**).
5. `PolicySnapshot`, `SnapshotStore`, `SnapshotStoreProofs` - snapshots taken while
   the policy changes (**checked and proved**).
6. `ArtifactAssembly`, `ArtifactAssemblyProofs` - the scripts that write and verify
   generated files (**checked and proved**).
7. `SchemaCache`, `SchemaCacheProofs` - the schema loaders under concurrent first use
   (**checked; safety proved**).

Composition: `PortPlan` is extended by `PolicyDelta` (and `RootPolicy`,
`PolicySnapshot`, `SnapshotStore`) and by `UpdaterProtocol` (and `UpdaterJob`);
`VideoCover` by `StartPreparation` and `CoverRuntime`. `UpdaterJob` instantiates
`JobVerdict`, `ReleasePipeline` instantiates `TrustedRelease`.

## Modules

### PortPlan (operators)

`system_update_port_v2.go`: what a reference, a plan and a result must satisfy.
`ValidSnapshotRef`, `ValidPlan`, `ValidResult` are the three validators; `Follows`
is the revision arithmetic of lines 270-283; `LocalEqual` is
`systemUpdatePortLocalEqual`.

*Digests.* Bytes are represented by what they encode and SHA-256 by an injective
constructor: two digests are equal exactly when the bytes are. The two empty
digest fields the code uses (`ExecutorPolicySHA256` of a reference not yet bound,
the plan's own digest while it is computed) are `NoDigest`. This abstraction
assumes that SHA-256 does not collide and nothing else.

*Data left out.* Four Docker fields only ever compared for equality are one field
(`image`); `HealthPort`, which must equal `PublishedPort`, is that field; a
`SnapshotID` is determined by its `SnapshotSHA256`. `ValidResult` is checked as
part of the results of `UpdaterJob`.

### PolicyDelta (operators)

`ApplySystemUpdatePortPolicyDelta`: `DeltaAllowed` is every check in it,
`ApplyDelta` the bytes it returns. The policy's fields that no operation of the
contract reads or writes are left out; `targets` is a function because the
decoder refuses repeated service ids.

### RootPolicy (state machine)

| TLA+ | Code |
| --- | --- |
| `root` | the executor's installed root policy |
| `plans` | plans that passed `ValidateSystemUpdatePortPlan` and were published, with their service |
| `installed` | history: every policy ever installed; read by properties only |
| `PublishMove`, `PublishNoOp` | the Control Panel reads the policy, derives Target and Rollback with `ApplySystemUpdatePortPolicyDelta` and validates the plan |
| `Execute` | the executor applies the delta between **any** two references of **any** published plan, to **any** service |

`Execute` is deliberately wider than any sane executor: late, repeated, reordered
and misdirected commands are all steps. `WantedRef` lets the planner take any
counter steps, so the validators, not the model, choose the legal ones.

### TrustedRelease (abstract specification)

What a consumer of a version sees: `shown`, the public release; `attested`, the
builds with attestations; `trusted`, the builds reported as verified. `Show`
changes what is shown until it is sealed; `Trust` is possible only for a sealed,
complete release of a tested commit.

### ReleasePipeline (state machine)

`.github/workflows/release-contracts.yml` for one version. Every step that talks
to GitHub is an action of its own, so that everything can change between two API
calls, even inside one shell step.

| TLA+ | Workflow |
| --- | --- |
| `releases`, `tags`, `setting`, `attested` | GitHub's state: the draft of each run and one by hand, the commit of each tag, the immutable-releases setting, attestations |
| `jobs[r].pc` | the step that is next in run attempt `r` |
| `jobs[r].known`, `.verified`, `.report` | outputs `create-draft.release_id` and `publish.verification_state`; what the recovery step says |
| `Start` | the concurrency group admits a run (25-27) |
| `RequireCI` ... `RequireFreeStagingTag` | metadata, CI, setting and namespace checks (36-184) |
| `CreateDraft`, `UploadArchive`, `UploadChecksum` | the staging release and its two files (228-298) |
| `VerifyDraft`, `VerifyDraftAssets`, `Attest` | 300-349 |
| `RecheckNamespace` ... `CheckFinalTag` | every call of the publish step before the PATCH (370-513) |
| `PublishRelease` | the PATCH (515-521) |
| `VerifyPublished` ... `DeleteStagingTag` | what is checked afterwards (523-580) |
| `AfterFailure`, `Recover` | the `always()` condition and the recovery step (581-617) |
| `Answer`, `Fail`, `Lose` | a response lost after its call took effect, a step that fails or is cancelled, a runner that vanishes |
| `EditTag` ... `ToggleSetting` | maintainers and administrators |

*Assumed of GitHub* (section External, and the guards of the calls): creating an
existing ref fails; publishing makes a missing tag; a tag has at most one public
release; a release that is published while the setting is on is immutable; of an
immutable release only the notes can be edited, and its tag can be neither moved
nor deleted. Excluded: deleting an immutable release or renaming a public one,
paging and delays of listings, more than eight nested annotated tags.

### UpdaterProtocol (operators)

`updater_runtime_validation.go` and `types_updater_protocol.go`: every validator of
a command, lease, progress report, result and grant, with the raw entry points that
look at which members a document has. Fields that a message only repeats from its
lease are one field, `bound`: the lease id and generation in it are what fences old
messages. `Encode` stands for `encoding/json`: it drops the members whose struct tag
says `omitempty` when they are zero, and `Decode` puts them back, so that "what the
Updater marshals, the raw validator accepts" is a question and not an assumption
(`WireRoundTrip`). No member of a progress report is `omitempty`. Where one check of the code is
implied by another (the authorization in `ValidGrantResponseForLease`), both are
kept.

### JobVerdict (abstract specification)

What the Control Panel may believe: a command holds the host, the host changes, a
verdict is given. `Decide` is possible only for what is so; `Work` leaves a host
alone on which a success or a rollback was settled.

### UpdaterJob (state machine)

| TLA+ | Code or program |
| --- | --- |
| `lease`, `sequence`, `verdict` (of the commands that have one) | Control Panel: `Claim` leases, `AcceptProgress` renews, `AcceptResult` and `AcceptAgain` decide, by the validators alone |
| `held`, `sent` | Updater: works under the lease whose answer it got; `UpdaterCrash` forgets it |
| `grants`, `session` | mutation grants and the executor's session: `IssueGrant`, `Consume`, `Write`, `TurnBack`, `Probe`, `ExecutorCrash` |
| `host` | the configuration revision at each of the four places of an observation; `AgentFollows` moves the Agent's in its own time |
| `progress`, `results` | every document ever sent: it may be lost, late, repeated and reordered; the answer to a claim or a report may be lost as well |

The actions of the Control Panel, the Updater and the Executor are external: the
repository has the documents they exchange and the validators that judge them, not the
programs. What is translated from the source are the validators in their guards.
`Reports` is every result the Updater could make up, with the evidence its session
really saw; the validators choose among them. *Assumed of the programs, which are
in other repositories:* the executor carries out one session at a time; what it saw
before a write is not evidence after it; the Updater sends a result only when no
grant of the lease is outstanding, ends the session with it and asks for no further
grant under that lease; evidence is honest, claims are not; the Control Panel leases
one job of a host at a time, renews claims for the active job only, lets a grant be
used only for the current generation of an undecided job, and extends only valid
leases. An ambiguous outcome and a failed rollback decide nothing
(`system_update_port_v2.go:83-85`, `openapi/control-api.yaml:5209`). Commands have
application targets: a bootstrap may succeed with any evidence
(`updater_runtime_validation.go:303`) and is left out of the composition.
The Updater may observe a port again and send the result of that, encoded anew
(`ResendResult`); it decides nothing any more, because of
`EqualSystemUpdatePortResults`. `AcceptResult` takes no current time because the validator is given none; a result
of an expired lease is safe because of its generation, not because of its date.

### VideoCover, StartPreparation (operators)

`visual_runtime_validation.go` and `encoder_start_preparation.go`. A document is what
the strict decoder makes of it. The conditions of the JSON Schemas are implied by
the Go code for cover documents and are part of the definitions for preparation
documents, where they say more. Capabilities, asset ids, file digests and request
ids, only ever copied, are left out.

### CoverRuntime (state machine)

| TLA+ | Code or program |
| --- | --- |
| `attempts` | the phase of each attempt to start the stream |
| `graph` | the Encoder's graph: its generation, what is desired and shown, the last witness, the last good state, audio interruptions |
| `wire` | every command ever sent, to be lost, late, repeated or sent to another attempt's path |
| `panel` | what valid answers made the Control Panel believe |
| `truths` | what graphs really showed; read by properties only |

The Encoder obeys the fences of valid requests and is honest about identity, the
pipeline, what is desired and the witness it holds. Everything else in an answer
(`StateClaims`) mixes what is, what was asked for and what an earlier graph
witnessed. *Limits.* A witness carries no job generation, so an Encoder must drop
its witnesses when it starts a stream: assumed, because each start is a new graph.
A start without prepare and commit has no last good state, so its first ambiguous
cover cannot be reported; such legacy starts are not modelled. `AlwaysReportable` is
about streams whose audio was never interrupted: after an interruption no state is
valid, which fails closed. The watermark is constant.

### PolicySnapshot (operators), SnapshotStore (state machine)

`ValidPolicySnapshot`, `Normalized`, `SnapshotIdentity`, `EqualPolicySnapshots` and
`ValidCreate` are the validators of the snapshot and of the create request. Sorting a
table by target (`ByTarget`) is the choice of the one order in which targets rise:
the validator has refused two rows of one target, so there is exactly one. In
`SnapshotStore` each accepted request makes a *world* (`worlds`); the four tables of
a snapshot are read one at a time (`Read`), each may lag any number of worlds behind
and only never goes back (`versions`); `Store` keeps what is valid and `Refuse`
needs that nothing was. How tables are written is the Control Panel's affair, hence
the width. `Change` carries out any request made from any stored snapshot, one or
two steps on (two is the rollback of a change that never began). Hosts and
credential references (sets treated as bindings are), database names and the size
limit are left out. The epoch is bound by nothing, and nothing promises that two
source targets do not name one service. `OneChangePerSnapshot` holds by the
executor's comparison with the installed policy, not by the request.

### SchemaCache (state machine)

The three loaders: who runs the `sync.Once`, which file is added, which schema is
compiled, which error ends it. `content` is what the embedded files were built with.
A build has at most one faulty file; `"$id"`s that are no strings are left out.
Giving the catalogue an `"$id"` of its own name breaks the cover and the preparation
loader and not the updater's. `sync.Once` and the compiler are library code and
external.

### ArtifactAssembly (state machine)

`artifact_assembly.py` with `--write`, without and of a `--tree`, and
`assemble-control-api.py`. A text is the number of edits its fragment has had; an
artifact is the texts it was assembled from.

| TLA+ | Code |
| --- | --- |
| `files` | fragments, whether there is one the manifest does not list, artifacts |
| `ReadFragment`, `EndAssembly` | `assemble`, one fragment at a time, and its last check |
| `OpenArtifact`, `FillArtifact` | `write_bytes`: the file is cut off, then filled |
| `Compare` | `verify`, one artifact at a time, after an assembly of its own |
| `Die`, `Edit` | a script that dies, the author |

One writer at a time is assumed: two could agree on artifacts torn between them. An
author never restores an earlier text. The manifest is fixed; checks of paths and
sizes, fragments that vanish while they are read, and `--check` of
`assemble-control-api.py` are left out; without `--check` that script reports
without verifying, so nothing is claimed of it.

## Runs

| Run | Configuration | Shows |
| --- | --- | --- |
| `root_policy` | `MCRootPolicy.cfg` | a systemd worker, a Dockerised encoder and the control panel, enrolled in two ways; two plans, revisions up to 5, two ports, two container ports, two endpoints: 63,782 states |
| `port_edges` | `MCRootPolicyEdges.cfg` | one plan over the local ports 1023, 1024, 65535, 65536, the advertised ports 0, 1, 65535, 65536 and an endpoint that changes host and keeps the port |
| `release_hostile` | `MCReleaseHostile.cfg` | two runs, each by a pushed tag or a dispatch on a branch, on either of two commits, one failure, three changes by maintainers: 3,110,772 states (runs are symmetric) |
| `release_retry` | `MCReleaseRetry.cfg` | three runs, two failures, nobody interferes: 288,238 states; safety and liveness |
| `release_dry_run` | `MCReleaseDryRun.cfg` | one dispatch on a tag with `push_release` false makes a release (see Findings) |
| `updater_job` | `MCUpdaterJob.cfg` | a Docker port move, two lease generations, two results: 37,237 states |
| `updater_next` | `MCUpdaterJobNext.cfg` | a port move and then a software update of the same host, a clock with two times, results sent again: 36,672 states |
| `updater_renewal` | `MCUpdaterJobRenewal.cfg` | a software update with a clock, two generations, renewal by progress: 47,835 states |
| `cover_runtime` | `MCCoverRuntime.cfg` | two attempts of one stream in one epoch, two revisions, two graphs: 133,715 states |
| `snapshot_store` | `MCSnapshotStore.cfg` | a unit, a container and the control panel, two changes of the policy: 73,082 states |
| `schema_cache` | `MCSchemaCache.cfg` | two goroutines, three loaders, every build with at most one fault: 104,473 states; safety and liveness |
| `artifact_assembly` | `MCArtifactAssembly.cfg` | two runs, two artifacts of three fragments, two edits, one death: 787,775 states (runs are symmetric) |

*Bounds, policy.* Two plans are what competition needs: `OneWinner` and
`TargetOnlyFromBefore` talk about one or two plans. Two ports allow a move and a
return; `MaxRevision` 5 leaves room for a plan, its rollback and a second plan and
is reached, so the limit itself is explored (the code's limit is 2^53 - 1; the
proofs hold for every positive value). Deadlock is not checked in the first two runs:
a host whose revisions have reached the limit rightly accepts no plan any more.

*Bounds, release.* A second run is the retry of the first (the concurrency
group admits one at a time, so they do not overlap); the third of `release_retry` allows a retry of a retry, each failing once. Two commits
are a tested and an untested one, and what a tag is moved away from. Three edits
are what the longest interference needs: draft by hand, toggle the setting and
publish by hand; a tag moved and moved back with a draft changed in between.
A dispatch on a tag behaves like a push of it and is left to `release_dry_run`;
dispatches that release nothing are among the runs of `release_retry`. A system
whose runs have all ended may stop, so deadlock is not checked.

*Bounds, updater.* Two generations are an old lease and a new one, and two results
one of each or the same one twice; `updater_job` needs no second clock value because
nothing it states is about time. `updater_next` has one generation per command and
the second command instead; `updater_renewal` the times, with the authorization
expiring one before the last. Jobs end and the clock stops, so deadlock is not checked.

*Bounds, cover.* The second attempt is of the same epoch, which is what a late
status could confuse. Two graphs and two revisions are an old witness and a new one.
Commands are never removed from the wire, so every delay and repetition is in the
graph.

*Bounds, snapshots.* Two changes are a move and its return, or two moves of
different targets; four tables over three worlds mix all of them. A request
that comes in again meets its own ports within this bound, after the rollback of a
change that never began; that it does so after a move and its return takes a third
change and is left to the proof (`OneChangeHolds`). Two orders of rows
differ in every position but one. `MaxRevision` is not reached.

*Bounds, loaders and scripts.* A third goroutine does what the second does. A faulty
file is one of each loader's own and one of another's. Two script runs are a writer
and a reader, or a writer and the one that repairs after it; an artifact of two
fragments can be torn; two edits reach a fragment before and after it was read.
Scripts end, so deadlock is not checked.

*Fairness.* `ReleasePipeline` has, in `FairSpec`, weak fairness of each run's `Step`:
a runner goes on with the next step as long as there is one, which is what Actions
does; the failures are bounded by `MaxFailures`. Nothing obliges anybody to start a
run, or maintainers to act. `SchemaCache` has weak fairness of each goroutine's
`Progress`: a goroutine that can run is scheduled in the end, as the Go scheduler
does; nobody is obliged to make a call.

*Properties, policy.*

- `Inductive` - types, `ConfigBound`, and the reason the rest holds: a source
  revision identifies an installed policy, the current one has the highest, every
  plan was derived from one that was installed.
- `ConfigBound` - the configuration digest of a target is always that of its own
  type, ports and revision (a conjunct of `Inductive`, proved on its own).
- `NeverReinstalled` - no policy bytes are installed twice, so a stale reference
  never matches again.
- `OneWinner` - of the plans for one policy at most one moves it.
- `TargetOnlyFromBefore` - a plan's Target is installed only on its own Before.
- `RollbackReady` - Before or Target installed: rollback is possible, right up to
  the revision limit, and both ways end in the same bytes.
- `RollbackRestores` - after a rollback every service listens where it did before.
- `OnlyOneTargetChanges` - a step touches one target, never the control panel.

*Properties, release.*

- `VerifiedForGood` - a run that has called its release verified is right and stays
  right: exactly its files, immutable, attested, tagged with a commit CI has passed.
- `Inductive` - what a run has established at each step, and what a seal keeps.
- `OnlyOwnChanges` - a run deletes no release, moves no tag of the version and
  touches nothing of another run.
- `ImplementsTrustedRelease` - the refinement of `TrustedRelease`; the abstract
  `shown` is the public release of the version with the commit of its tag.
- `UnverifiedIsReported` - published but not verified is always said, unless the
  runner is lost or the recovery step itself fails.
- `ReadyRunVerifies` - a run whose preconditions hold releases the version whatever
  drafts, tags and attestations earlier attempts have left, unless one of its own
  calls fails.

*Properties, updater.*

- `ImplementsJobVerdict` - the refinement of `JobVerdict`: an accepted success or
  rollback is true of all four places when it is accepted, and nothing that was
  delayed, repeated or begun earlier undoes it. `VerdictHolds` is its invariant.
- `Inductive` - why: nobody holds anything of a lease that was not given, what a
  session has seen still holds (but for the Agent), and a result of the current
  generation was sent when the work was over.
- `PortResultStands` - the first accepted observation is never rewritten.
- `AuthorizationBoundsWork` - no chain of claims, renewals and grants lets work begin
  after the authorization expired.
- `WireRoundTrip` - no valid result or report is refused by its own encoding. Its run
  sends results; that it holds of progress reports as well rests on the proof.

*Properties, cover.*

- `ShownIsTrue` - what a response, a status or a read made the Control Panel believe
  was shown, by that graph of that start, with the audio uninterrupted.
- `RunningHasShown` - an attempt believed to run has shown its own cover.
- `OnlyItsOwnCommands` - an attempt is committed or aborted only by its own commands.
- `AlwaysReportable` - an honest Encoder always has a valid state to report, and one
  valid answer with one status for every request, current or late.
- `Inductive` - the witness kept was given by a graph of the attempt that owns it,
  and the graph shows what was shown.

*Properties, snapshots.* `OneMoment` - an accepted snapshot shows the host as it was
at one moment: policy, bindings, listeners, containers, and endpoints that are desired
as they are applied (only the revision of a desired endpoint may be a later one, when
it was changed and changed back). `IdentityIsContent` - same identity,
same content, whatever the order of rows. `RestoredIsStored` - bindings restored from
elsewhere are noticed. `OneChangePerSnapshot` - of the requests made from one
snapshot at most one ever changes the policy. `Inductive` - why: revisions rise, and
each change was made from a stored snapshot of the revision before it.

*Properties, loaders and scripts.* `AnswersAreRight` - every call gets the schema or
an error, and an error exactly if one of the loader's own files is at fault.
`Inductive` - why: one goroutine loads, and what it has so far is right.
`EveryCallReturns` - also one that waits for a first use that fails. `ReportIsTrue` -
what is reported as verified was assembled from the fragments of one moment: the
commit of a `--tree`, the working directory if nobody touched it, and for `--write`
the moment between its two assemblies, whatever the author did. `FailureIsTrue` - a
script nobody disturbs fails only for a reason that was there when it began; in
particular `--write` repairs what a script that died has left. `Inductive` - what the
readings of each run so far tell of the files.

## Findings

`release_dry_run`: the dispatch input `push_release`, "Attach artifacts to a GitHub
Release", default false (`release-contracts.yml:13-17`), is ignored when the
workflow is dispatched on a tag: line 64 takes the tag branch and sets it to true,
so such a dispatch creates, and publishes, a release.

## Proofs

`RootPolicyProofs` proves, for every set of services, ports, endpoints, images,
every `MaxRevision` and `MaxPlans` and every enrolment that satisfies
`InitPoliciesAssumption`:

`RootPolicyInductive`, `RootPolicyTypeOK`, `RootPolicyConfigBound`,
`RootPolicyNeverReinstalled`, `RootPolicyOnlyOneTargetChanges`,
`RootPolicyTargetOnlyFromBefore`, `RootPolicyOneWinner`,
`RootPolicyRollbackReady`, `RootPolicyRollbackRestores`.

*Argument.* The invariant is `Inductive`. None of the properties is inductive
alone: `NeverReinstalled` needs that every installed policy has a source revision
not above the current one and that a delta that changes anything raises it;
`OneWinner` and `TargetOnlyFromBefore` need that a revision identifies a policy,
so that digests, and with them policies, cannot coincide; the rollback properties
need that the plan was derived from an installed policy (`DerivedFromInstalled`),
including that its container port is the one the digest binds, because the policy
itself does not hold that port. The module first proves what `ApplyDelta`
returns (types, revisions, the digest of the moved target), then what a published
plan satisfies, then one step per action.

`ReleasePipelineProofs` proves, for any sets of commits and runs, any triggers and
any number of failures and edits, `ReleaseInductive`, `ReleaseVerifiedForGood` and
`ReleaseUnverifiedIsReported`;
`ReleaseTrustProofs` proves `ReleaseOnlyOwnChanges`, the refinement
`ReleaseImplements`, and `ReleaseTrustedIsShown`, which the workflow inherits from
`TrustedRelease` by it.

*Argument.* `VerifiedForGood` is not inductive: that a verified release stays right
needs that a sealed release of the version stays sealed, that there is only one
public release of it and that its tag exists, so that it can no longer be made.
`Inductive` adds that, and `Established`, which says for each place of a run what its
checks have found and cannot be undone any more: before the seal this is little,
since drafts and tags change behind a run's back, which is why the checks after
publication carry the theorem. A step changes GitHub's state, a job, or both;
`Keeps` is what no change of GitHub's state may do to the release of a run, and
`EstablishedKept` carries everything a run has established across it. For the
refinement, `Effect` bounds what any step changes; a step that verifies maps to
`Trust`, one that attests to `Attest`, and every other one to `Show`, or to a stutter
if the release shown is sealed.

`ReleaseUnverifiedIsReported` is `edits = 0 => UnverifiedIsReported`, the property of
`release_retry`, where nobody interferes: a maintainer may publish a preserved draft
by hand long after its run has reported what it knew. The invariant is `LeftAlone`: as
long as only runs act, a run that is past its draft knows the id of what it made, a
release of a run is public only if the run has got to its PATCH, and a run that has
ended after that has said what it verified. The proof follows the one way from the
PATCH to the end: whatever fails on it, `AfterFailure` leads to the recovery step as
long as the id is known.

`CoverRuntimeProofs` proves, for any attempts, epochs, variants, start covers and
bounds, `InductiveHolds`, `ShownIsTrueHolds`, `RunningHasShownHolds`,
`OnlyItsOwnCommandsHolds` and `AlwaysReportableHolds`.

*Argument.* That an accepted state was shown is no property of the state alone: a
known state carries a witness, the validators compare it with the generation and the
layers of the state, and the invariant says that the witness the Encoder keeps was
given by a graph of the attempt that owns it now. The validators do not see whose
witness it is, so this is where the proof needs that a start drops earlier ones.

`AlwaysReportable` is the converse: the validators are not so strict that a truthful
Encoder is left without an answer. It needs `HasLastGood`: a stream runs only after
its first cover was witnessed, so there is a last good cover to fall back on whenever
the graph is not known. From there it is about documents only: `StatePasses` shows
that a state passes if what it says was applied is known from a witness of the very
graph, or unknown with a last good cover (`KnownStatePasses`, `UnknownStatePasses`);
`StatusFollowsOutcome`, that a response has one outcome and so at most one status; and
`ResponsePasses` goes through what may have become of a request. That a stale request
cannot pass as a graph failure, and the other way round, is that the two sets of error
codes have no member in common.

`ArtifactAssemblyProofs` proves, for every manifest and any number of runs, edits
and deaths, `InductiveHolds`, `ReportIsTrueHolds` and `FailureIsTrueHolds`.

*Argument.* A report of `--write` is true although it is made from two readings that
are each torn: texts only advance, so a text that is the same in the first reading
(it was written, so it is not ahead of the moment between the readings) and in the
second (it was read after that moment) is the text of that moment. That is
`TwiceCollected`; `Honest` is the part about runs nobody disturbs. The lemmas are
about one run and one directory: what each step makes of the run, and
`DisturbedKeeps`, what a change by somebody else does to it. `OneWriter` is why a
writer's own artifacts can only be broken, and never completed, by others.

`UpdaterJobProofs` proves, for any commands, lease ids, clock and any number of
leases, messages and crashes, `InductiveHolds`, `AcceptedIsTrue` (`VerdictHolds`),
`Implements` (`ImplementsJobVerdict`), `PortResultIsFinal` (`PortResultStands`),
`WorkIsBounded` (`AuthorizationBoundsWork`) and `ReportsAreReadable` (`WireRoundTrip`).

*Argument.* A lease generation fences everything that was given before it.
`NothingFromTheFuture` says that no document, grant or session carries a generation
that was not given; `SeenHolds`, that what the session has seen is still so;
`ResultsHold`, that when a success or a rollback of the current generation was sent or
accepted, the host is where it says and no grant or session of that generation is left
to move it; `VerdictOfPort`, that an accepted port result goes with its outcome and in
the form its encoding is read back in, so that sending it again changes nothing.
Then whatever arrives is either of an older
generation, and no validator takes it, or was sent at rest and is true. In the
refinement a claim of an undecided command maps to `Take`, the acceptance of a result
to `Decide`, a write and the Agent's move to `Work`, and the rest to stutters.

For `WireRoundTrip` the invariant `WireOK` adds that every result on the wire is read
back as a result with all its members (`WellFormed`), which is what one needs to encode
it again. `DecodedEncoding` is the fact about `encoding/json` with `omitempty` behind it:
a member left out because it is zero is zero again when it is read. `PortOnWire` and
`ResultPasses` are the rest: the members the raw entry points insist on are never zero
in a result that is valid (the revisions and digests of a reference are not, and the
applied revision of a success is the authorized one), so none of them is left out.

`SnapshotStoreProofs` proves, for any services, ports, orders of rows and number of
changes, `InductiveHolds`, `OneChangeHolds` (`OneChangePerSnapshot`), `OneMomentHolds`,
`IdentityHolds` (`IdentityIsContent`) and `RestoredHolds` (`RestoredIsStored`).

*Argument.* A world is made from a stored snapshot whose source revision is the one of
the world before it (`MadeFromStored`), because the delta compares them; source
revisions only rise (`Ranked`); a snapshot's name is the digest of what is kept of it
(`NamedByContent`). Two worlds made from one name therefore follow worlds of the same
revision, and these are one world.

`OneMoment` follows from the joint validation and not from how tables are read. The
source table carries the digest of the root policy and each binding the source
revision, and worlds of one source revision are one world (`RevisionTells`); a target
state carries only the revision of its own configuration, which is enough because
nothing of a service changes but with that revision, which grows (`Versioned`,
`ConfigTells`). The desired endpoint carries no revision the other tables could
contradict: that it is the applied one (`StateAtRestIs`) is the comparison of the two
in `ValidTargetState` and nothing else. `CandidateIsTaken` puts this together for what was read,
`InNormalForm` and `NormalForm` carry it over to what is stored.

`IdentityIsContent` and `RestoredIsStored` need what sorting does. There is exactly one
arrangement of rows with different targets in which the targets rise: `RankOrders` and
`PlaceIsCount` construct it from the number of smaller targets, and
`OrderedIsPermutation` says that it has the rows it was made of. So snapshots with the
same rows have the same normal form in whatever order they were read, and the normal
form of a normal form is itself (`NormalAgain`).

`SchemaCacheProofs` proves, for any goroutines, files, schemas and builds,
`InductiveHolds` and `AnswersAreRightHold`.

*Argument.* One goroutine is in the function of a loader (`OneRuns`), who has passed
the `sync.Once` agrees with it for ever (`AfterOnce`), and `SoFar` follows the loader
through its files and schemas: it has failed on something the build has wrong, or what
it has read and compiled is sound and no two files share a name. A loader that is done
without error has read everything, so the build is sound for it.

*Assumptions.* Exactly the named `ASSUME`s of the modules, which TLC evaluates on
each run: the revision limit is positive, the nil values are not values, ports are
integers and the enrolled policies are well typed with targets bound to their
configuration; for the release workflow, tested commits are commits, the nil values
are not values and the bounds are naturals; for covers, the same of nil values and
bounds, variants are identifiers and a start's cover has revision 1; for the scripts,
the manifest lists known fragments and no artifact twice; for the job, commands are
well formed, authorizations expire at times of the clock and no lease is the nil
value; for the caches, a loader reads and compiles nothing twice and compiles only
files that are embedded; hosts are enrolled with a valid source revision, valid
configuration revisions and an endpoint, and a container or none, for each service, a
table has a row for each service, and targets are numbered. The injectivity of the
digest is not an assumption but its definition.

*Only model-checked.* `ReadyRunVerifies` and `EveryCallReturns`, since liveness under
fairness is out of the prover's reach. The bounds named in the runs are not limits of
the proofs.

## Not modelled

See the table of components. Byte layout (number formatting, base64, key order) is
out: canonical encodings are represented by what they encode. For that reason the
node listener parser and the token scanner of the strict decoder have no module: both
are functions of one document, with no state and no other party, and what they decide
is layout. What decoding does to absent and zero members is in `UpdaterProtocol`. The
policy baseline report and the digest of the runtime plan are checks of single fields
that no other operation of the repository reads. Authentication and transport belong
to other repositories. Liveness is not stated for `RootPolicy`, `UpdaterJob`,
`CoverRuntime` and `SnapshotStore`: the programs that act there are not in this
repository, and nothing in it obliges them to act.

Hazards without a property, with their reasons in `PROJECT.json`: the container port
of a Before that nothing compares with its digest; evidence older than its command;
a runner lost between publication and recovery; the staging tag deleted after it was
moved.
