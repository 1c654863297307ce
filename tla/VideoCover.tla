----------------------------- MODULE VideoCover -----------------------------
(***************************************************************************)
(* The Video Cover contract between Control Panel and Encoder: which apply *)
(* requests, apply responses and runtime states its validators accept.     *)
(* A document is what the strict decoder makes of it, an absent member is  *)
(* Nil; a safe error is its code; members that are constants are left out. *)
(* The JSON Schemas the validators apply first ask nothing of these        *)
(* records that the Go code does not ask again.                            *)
(***************************************************************************)
EXTENDS Integers, Sequences

CONSTANTS
  Identifiers,  \* the strings that are identifiers
  Nil           \* an absent member

ASSUME NilAssumption == Nil \notin Identifiers /\ Nil \notin BOOLEAN

None == ""      \* an empty string

ASSUME IdentifiersAssumption == None \notin Identifiers

-----------------------------------------------------------------------------
(* Codes and texts.                                                        *)

Readiness == {"ready", "not_ready", "unknown"}

FenceErrors ==
  {"stale_job_generation", "stale_cover_generation", "stale_cover_revision",
   "idempotency_conflict", "revision_payload_conflict"}

GraphOrAssetErrors ==
  {"media_asset_format_unsupported", "media_asset_too_large", "media_asset_decode_failed",
   "media_asset_aspect_ratio_invalid", "media_asset_variant_processing",
   "media_asset_variant_failed", "media_asset_unauthorized", "media_asset_not_found",
   "media_asset_hash_mismatch", "media_asset_dimension_mismatch", "media_asset_timeout",
   "cover_graph_unavailable", "capability_required"}

SafeErrors ==
  FenceErrors \cup GraphOrAssetErrors \cup
  {"cover_apply_ambiguous", "invalid_theme_id", "discord_target_invalid", "preset_not_found",
   "preset_revision_conflict"}

ValidIdentifier(id) == id \in Identifiers

\* A key is the sequence of the classes its characters are in.
ValidIdempotencyKey(key) ==
  /\ Len(key) \in 1 .. 128
  /\ key[1] # "space" /\ key[Len(key)] # "space"
  /\ \A i \in DOMAIN key : key[i] \notin {"control", "invalid_utf8"}

ValidErrorOrNone(error) == error = Nil \/ error \in SafeErrors

\* Exactly what is not ready carries an error.
ExplainedReadiness(document) ==
  /\ document.readiness \in Readiness
  /\ ValidErrorOrNone(document.error)
  /\ document.readiness = "ready" <=> document.error = Nil

-----------------------------------------------------------------------------
(* Assets, layers and the pipeline.                                        *)

MaxByteSize == 20 * 1024 * 1024

MaxPixelCount == 40 * 1000 * 1000

ValidPictureSize(asset) ==
  /\ asset.width \in 1 .. 8192 /\ asset.height \in 1 .. 8192
  /\ asset.byteSize \in 1 .. MaxByteSize
  /\ asset.pixelCount \in 1 .. MaxPixelCount
  /\ asset.pixelCount = asset.width * asset.height

ValidAsset(asset) ==
  /\ ValidIdentifier(asset.variant)
  /\ asset.usage \in {"scene_background", "video_cover"}
  /\ asset.mediaType \in {"image/png", "image/jpeg", "image/webp"}
  /\ ValidPictureSize(asset)
  /\ ~asset.animated
  /\ asset.revision # 0
  /\ ExplainedReadiness(asset)
  /\ IF asset.usage = "video_cover"
       THEN asset.aspectErrorPPM \in 0 .. 1000 /\ asset.opaque = TRUE
       ELSE asset.aspectErrorPPM = Nil /\ asset.opaque = Nil

ValidCoverAsset(asset) == asset # Nil /\ ValidAsset(asset) /\ asset.usage = "video_cover"

ValidLayer(layer) ==
  /\ layer.revision # 0
  /\ IF layer.enabled THEN ValidIdentifier(layer.variant) ELSE layer.variant = None

\* order stands for the layers, the two flags about the watermark and the
\* outputs; audio for the interruptions counted.
ValidPipeline(pipeline) == pipeline.order = "canonical" /\ pipeline.audio = 0

-----------------------------------------------------------------------------
(* The runtime state.                                                      *)

ValidDesired(desired) ==
  /\ desired.revision # 0
  /\ IF desired.active
       THEN desired.source \in {"preset", "upload"} /\ ValidIdentifier(desired.variant)
       ELSE desired.source = "none" /\ desired.variant = None

UnknownApplied == [state |-> "unknown", active |-> Nil, revision |-> 0, variant |-> None]

ValidKnownApplied(applied) ==
  /\ applied.state = "known"
  /\ applied.active # Nil /\ applied.revision # 0
  /\ IF applied.active THEN ValidIdentifier(applied.variant) ELSE applied.variant = None

ValidApplied(applied) == applied = UnknownApplied \/ ValidKnownApplied(applied)

ValidWitness(witness) ==
  /\ witness.graphApplied
  /\ witness.generation > 0 /\ witness.revision > 0
  /\ ValidLayer(witness.cover) /\ ValidLayer(witness.watermark)
  /\ ValidPipeline(witness.pipeline)
  /\ witness.active = witness.cover.enabled
  /\ witness.revision = witness.cover.revision

\* The state carries the asset of the cover that is wanted, and no other.
AssetIsDesired(state) ==
  IF state.desired.active
    THEN ValidCoverAsset(state.coverAsset) /\ state.coverAsset.variant = state.desired.variant
    ELSE state.coverAsset = Nil

\* The layers and the pipeline are those the witness saw.
SeenBy(state, witness) ==
  /\ state.cover = witness.cover
  /\ state.watermark = witness.watermark
  /\ state.pipeline = witness.pipeline

\* Mutant of WitnessedKnown: the witness may be of an earlier graph.
WitnessedByAnyGraph(state) ==
  /\ state.applied.state = "known"
  /\ state.witness # Nil /\ ValidWitness(state.witness)
  /\ state.witness.revision = state.applied.revision
  /\ state.witness.active = state.applied.active
  /\ SeenBy(state, state.witness)
  /\ state.readiness = "ready" => state.desired.revision = state.applied.revision

\* Mutant of WitnessedKnown: what is known must be what is desired.
WitnessedDesired(state) ==
  /\ state.applied.state = "known"
  /\ state.witness # Nil /\ ValidWitness(state.witness)
  /\ state.witness.generation = state.generation
  /\ state.witness.revision = state.applied.revision
  /\ SeenBy(state, state.witness)
  /\ state.desired.revision = state.applied.revision

\* A state that is known has a witness of this very graph, which saw it.
WitnessedKnown(state) ==
  LET applied == state.applied
      witness == state.witness
  IN /\ applied.state = "known"
     /\ witness # Nil /\ ValidWitness(witness)
     /\ witness.generation = state.generation
     /\ witness.revision = applied.revision /\ witness.active = applied.active
     /\ SeenBy(state, witness)
     /\ state.cover = [enabled |-> applied.active, revision |-> applied.revision,
                       variant |-> applied.variant]
     /\ state.readiness = "ready" =>
          /\ state.desired.active = applied.active
          /\ state.desired.revision = applied.revision
          /\ state.desired.variant = applied.variant

LastGoodUnknown(state) ==
  /\ state.applied.state = "unknown"
  /\ state.readiness # "ready" /\ state.witness = Nil /\ state.lastGood # Nil

ValidRuntimeState(state) ==
  /\ state.stream # None /\ state.jobGeneration # 0 /\ state.generation # 0
  /\ state.noAutomaticResend
  /\ ValidDesired(state.desired) /\ ValidApplied(state.applied)
  /\ ValidLayer(state.cover) /\ ValidLayer(state.watermark) /\ ValidPipeline(state.pipeline)
  /\ AssetIsDesired(state)
  /\ ExplainedReadiness(state)
  /\ state.lastGood # Nil => ValidKnownApplied(state.lastGood)
  /\ WitnessedKnown(state) \/ LastGoodUnknown(state)

\* What a read of the cover of the stream in the path may return.
ValidRuntimeReport(path, state) ==
  path # None /\ state.stream = path /\ ValidRuntimeState(state)

-----------------------------------------------------------------------------
(* Requests.                                                               *)

ValidRequest(path, request) ==
  /\ path # None /\ request.stream = path
  /\ request.jobGeneration # 0 /\ request.expectedGeneration # 0 /\ request.revision # 0
  /\ ValidIdempotencyKey(request.key)
  /\ IF request.active
       THEN /\ ~request.hideConfirmed
            /\ ValidCoverAsset(request.coverAsset) /\ request.coverAsset.readiness = "ready"
       ELSE request.hideConfirmed /\ request.coverAsset = Nil

-----------------------------------------------------------------------------
(* Responses.                                                              *)

ResponseDescribesActual(response) ==
  /\ response.stream # None /\ response.jobGeneration # 0
  /\ response.requestedRevision # 0 /\ response.actualGeneration # 0
  /\ response.stream = response.actual.stream
  /\ response.jobGeneration = response.actual.jobGeneration
  /\ response.actualGeneration = response.actual.generation
  /\ ValidRuntimeState(response.actual)
  /\ ValidErrorOrNone(response.error)

\* Everything the response says of the cover agrees with the witness.
AppliedLinkage(response) ==
  LET actual  == response.actual
      witness == actual.witness
      wanted  == [enabled |-> actual.desired.active, revision |-> response.requestedRevision,
                  variant |-> actual.desired.variant]
  IN /\ actual.readiness = "ready" /\ actual.applied.state = "known" /\ witness # Nil
     /\ response.actualGeneration = witness.generation
     /\ actual.desired.revision = wanted.revision
     /\ actual.applied = [state |-> "known", active |-> wanted.enabled,
                          revision |-> wanted.revision, variant |-> wanted.variant]
     /\ actual.cover = wanted /\ witness.cover = wanted
     /\ witness.revision = wanted.revision /\ witness.active = wanted.enabled
     /\ SeenBy(actual, witness)
     /\ IF wanted.enabled
          THEN actual.coverAsset # Nil /\ actual.coverAsset.variant = wanted.variant
          ELSE wanted.variant = None /\ actual.coverAsset = Nil

ClaimsOutcome(response, outcome) ==
  /\ response.outcome = outcome
  /\ response.accepted = (outcome # "rejected")
  /\ response.rejected = (outcome = "rejected")
  /\ response.applied = (outcome = "applied")
  /\ response.error = Nil <=> outcome = "applied"

AmbiguousActual(response) ==
  /\ response.error = "cover_apply_ambiguous"
  /\ response.actual.readiness = "unknown" /\ response.actual.applied.state = "unknown"
  /\ response.actual.witness = Nil
  /\ response.actual.error = "cover_apply_ambiguous"

GraphFailureActual(response) ==
  /\ response.error \in GraphOrAssetErrors
  /\ response.actual.readiness # "ready"
  /\ response.actual.error = response.error

\* A 404 is another document, valid when its code is capability_required.
ValidUnavailable(document) == document = [code |-> "capability_required"]

ValidResponse(status, response) ==
  /\ ResponseDescribesActual(response)
  /\ \/ status = 200 /\ ClaimsOutcome(response, "applied") /\ AppliedLinkage(response)
     \/ status = 202 /\ ClaimsOutcome(response, "ambiguous") /\ AmbiguousActual(response)
     \/ status = 409 /\ ClaimsOutcome(response, "rejected") /\ response.error \in FenceErrors
     \/ status = 502 /\ ClaimsOutcome(response, "rejected") /\ GraphFailureActual(response)
=============================================================================
