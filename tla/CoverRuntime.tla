---------------------------- MODULE CoverRuntime ----------------------------
(***************************************************************************)
(* A stream whose start is prepared and committed, and the Video Cover of  *)
(* the graph the Encoder runs for it.                                      *)
(*                                                                         *)
(* Neither program is part of the repository.  A command stays on the wire *)
(* for good: it may be lost, late, repeated and overtaken.  The Encoder    *)
(* obeys the fences of the requests it finds valid, and keeps the last     *)
(* witness its graph gave it since the start; the graph may be replaced,   *)
(* may switch late, and may interrupt the audio.  In its answers the       *)
(* Encoder is honest about the identity of the attempt it speaks of, about *)
(* what is desired, the pipeline, the last good state and the witness it   *)
(* holds, which may be one of an earlier graph; everything else it may     *)
(* claim whatever is the case.  The Control Panel believes what the        *)
(* validators let through, so what it believes is a property of them.      *)
(***************************************************************************)
EXTENDS StartPreparation

CONSTANTS
  Stream,         \* the stream, an identifier
  Attempts,       \* the attempts to start it: 1, 2, ...
  Epoch,          \* the job generation of each attempt
  Variants,       \* the variants of the cover's picture
  StartCovers,    \* the covers a start may ask for
  MaxRevision,    \* bound: the last revision the Control Panel asks for
  MaxGeneration   \* bound: how many graphs an attempt may have

VARIABLES
  attempts,       \* the phase of each attempt at the Encoder
  graph,          \* the Encoder's graph, and what it knows of it
  wire,           \* the commands ever sent
  panel,          \* what the Control Panel was told
  truths          \* what graphs really showed (observed by properties only)

vars == <<attempts, graph, wire, panel, truths>>

\* What is shown: a picture, or nothing over the scene.
Cover ==
  [active: {TRUE}, revision: 1 .. MaxRevision, variant: Variants] \cup
  [active: {FALSE}, revision: 1 .. MaxRevision, variant: {None}]

Layer == [enabled: BOOLEAN, revision: 1 .. MaxRevision, variant: Variants \cup {None}]

Watermark == [enabled |-> FALSE, revision |-> 1, variant |-> None]

Witness ==
  [graphApplied: {TRUE}, generation: 1 .. MaxGeneration, revision: 1 .. MaxRevision,
   active: BOOLEAN, cover: Layer, watermark: {Watermark},
   pipeline: [order: {"canonical"}, audio: 0 .. 1]]

KnownApplied ==
  [state: {"known"}, active: BOOLEAN, revision: 1 .. MaxRevision, variant: Variants \cup {None}]

ASSUME StreamAssumption == {Stream} \cup Variants \subseteq Identifiers

\* Attempts may share an epoch: it is the identity that tells them apart.
ASSUME EpochAssumption == Attempts \subseteq Nat /\ Epoch \in [Attempts -> Nat \ {0}]

ASSUME StartCoversAssumption == StartCovers \subseteq { c \in Cover : c.revision = 1 }

ASSUME BoundsAssumption == MaxRevision \in Nat \ {0} /\ MaxGeneration \in Nat \ {0}

-----------------------------------------------------------------------------
(* What the documents are made of.                                         *)

LayerOf(cover) ==
  [enabled |-> cover.active, revision |-> cover.revision, variant |-> cover.variant]

DesiredOf(cover) ==
  [active |-> cover.active, revision |-> cover.revision, variant |-> cover.variant,
   source |-> IF cover.active THEN "upload" ELSE "none"]

KnownOf(cover) ==
  [state |-> "known", active |-> cover.active, revision |-> cover.revision,
   variant |-> cover.variant]

AssetOf(cover) ==
  IF ~cover.active THEN Nil
  ELSE [variant |-> cover.variant, usage |-> "video_cover", mediaType |-> "image/png",
        width |-> 1920, height |-> 1080, byteSize |-> 4096, pixelCount |-> 1920 * 1080,
        animated |-> FALSE, aspectErrorPPM |-> 0, opaque |-> TRUE, revision |-> 1,
        readiness |-> "ready", error |-> Nil]

ASSUME NilIsNothingElse ==
  /\ Nil \notin Attempts /\ Nil \notin Cover /\ Nil \notin Witness /\ Nil \notin KnownApplied
  /\ Nil \notin SafeErrors
  /\ \A cover \in Cover : cover.active => AssetOf(cover) # Nil

PipelineOf(audio) == [order |-> "canonical", audio |-> audio]

WitnessOf(g) ==
  [graphApplied |-> TRUE, generation |-> g.generation, revision |-> g.shown.revision,
   active |-> g.shown.active, cover |-> LayerOf(g.shown), watermark |-> Watermark,
   pipeline |-> PipelineOf(g.audio)]

Identity(a) ==
  [stream |-> Stream, startID |-> a, service |-> Stream, jobGeneration |-> Epoch[a],
   archive |-> Stream]

ActionFor(a) ==
  [schemaVersion |-> 2, stream |-> Stream, startID |-> a, service |-> Stream,
   jobGeneration |-> Epoch[a]]

PreparationOf(a, cover) ==
  [schemaVersion |-> 2, startID |-> a, service |-> Stream,
   start |-> [archive |-> Stream, ingestToken |-> "token", workerIngest |-> TRUE, dryRun |-> FALSE,
              snapshot |-> [jobGeneration |-> Epoch[a], revision |-> cover.revision,
                            active |-> cover.active, key |-> <<"text">>,
                            coverAsset |-> AssetOf(cover)]]]

RequestFor(a, generation, cover) ==
  [stream |-> Stream, jobGeneration |-> Epoch[a], expectedGeneration |-> generation,
   revision |-> cover.revision, active |-> cover.active, key |-> <<"text">>,
   coverAsset |-> AssetOf(cover), hideConfirmed |-> ~cover.active]

\* The cover a request or a snapshot asks for.
CoverIn(request) ==
  [active |-> request.active, revision |-> request.revision,
   variant |-> IF request.active THEN request.coverAsset.variant ELSE None]

\* The Encoder is honest about the phase a prepared attempt is in.
PreparedAnswer(a) ==
  [schemaVersion |-> 2, identity |-> Identity(a), phase |-> attempts[a], expiresAt |-> "soon"]

-----------------------------------------------------------------------------
NoGraph ==
  [owner |-> Nil, generation |-> 0, desired |-> Nil, shown |-> Nil, switching |-> FALSE,
   known |-> FALSE, witness |-> Nil, lastGood |-> Nil, audio |-> 0]

Init ==
  /\ attempts = [a \in Attempts |-> "none"]
  /\ graph = NoGraph
  /\ wire = {}
  /\ panel = [running |-> {}, shown |-> {}]
  /\ truths = {}

Sent(kind) == { c \in wire : c.kind = kind }

Send(command) ==
  /\ wire' = wire \cup {command}
  /\ UNCHANGED <<attempts, graph, panel, truths>>

Asked(a) == \E c \in Sent("prepare") : c.request.startID = a

\* The Control Panel tries to start the stream, again when it gave up on the
\* attempts before.
SendPrepare(a, cover) ==
  /\ ~Asked(a) /\ \A b \in Attempts : b < a => Asked(b)
  /\ Send([kind |-> "prepare", request |-> PreparationOf(a, cover)])

\* The answer to the prepare of attempt a, which may be about another, is what
\* the commit of a waits for.
SendCommit(a) ==
  /\ Asked(a)
  /\ \E b \in Attempts : ValidPrepared(PreparedAnswer(b), Identity(a))
  /\ Send([kind |-> "commit", body |-> ActionFor(a)])

SendAbort(a) == Asked(a) /\ Send([kind |-> "abort", body |-> ActionFor(a)])

\* The revision is a new one; the graph, one the Control Panel was told of.
SendApply(a, cover) ==
  /\ a \in panel.running
  /\ cover.revision > 1
  /\ \A c \in Sent("apply") :
       c.request.jobGeneration = Epoch[a] => c.request.revision < cover.revision
  /\ \E seen \in panel.shown :
       /\ seen.epoch = Epoch[a]
       /\ Send([kind |-> "apply", request |-> RequestFor(a, seen.generation, cover)])

PanelNext ==
  \/ \E a \in Attempts, cover \in StartCovers : SendPrepare(a, cover)
  \/ \E a \in Attempts, cover \in Cover : SendApply(a, cover)
  \/ \E a \in Attempts : SendCommit(a) \/ SendAbort(a)

-----------------------------------------------------------------------------
(* The Encoder.                                                            *)

Busy == {"prepared", "committing", "running"}

Move(a, phase) == attempts' = [attempts EXCEPT ![a] = phase]

Prepare(c) ==
  LET a == c.request.startID
  IN /\ ValidPreparation(c.request)
     /\ attempts[a] = "none" /\ \A b \in Attempts : attempts[b] \notin Busy
     /\ Move(a, "prepared")
     /\ graph' = [NoGraph EXCEPT !.owner = a, !.desired = CoverIn(c.request.start.snapshot)]
     /\ UNCHANGED <<wire, panel, truths>>

\* The path may be that of another attempt than the one the body was made for.
Commit(c, path) ==
  /\ ValidAction(c.body, Stream, path)
  /\ attempts[path] = "prepared"
  /\ Move(path, "committing")
  /\ graph' = [graph EXCEPT !.generation = 1, !.switching = TRUE]
  /\ UNCHANGED <<wire, panel, truths>>

Abort(c, path) ==
  /\ ValidAction(c.body, Stream, path)
  /\ attempts[path] \in {"prepared", "committing"}
  /\ Move(path, "aborted")
  /\ graph' = NoGraph
  /\ UNCHANGED <<wire, panel, truths>>

\* The start waits for a witness of the cover it was asked for.
Run(a) ==
  /\ attempts[a] = "committing"
  /\ graph.known /\ graph.shown = graph.desired
  /\ Move(a, "running")
  /\ UNCHANGED <<graph, wire, panel, truths>>

End(a) ==
  /\ attempts[a] \in Busy
  /\ Move(a, IF attempts[a] = "prepared" THEN "expired" ELSE "failed")
  /\ graph' = NoGraph
  /\ UNCHANGED <<wire, panel, truths>>

FencesHold(request) ==
  /\ request.jobGeneration = Epoch[graph.owner]
  /\ request.expectedGeneration = graph.generation
  /\ request.revision > graph.desired.revision

Apply(c) ==
  /\ graph.owner # Nil /\ attempts[graph.owner] = "running"
  /\ ValidRequest(Stream, c.request) /\ FencesHold(c.request)
  /\ graph' = [graph EXCEPT !.desired = CoverIn(c.request), !.switching = TRUE, !.known = FALSE]
  /\ UNCHANGED <<attempts, wire, panel, truths>>

\* The graph shows the cover that is desired; the audio should not notice.
Switch ==
  /\ graph.switching /\ graph.shown # graph.desired
  /\ \E audio \in {graph.audio, 1} :
       /\ graph' = [graph EXCEPT !.shown = graph.desired, !.audio = audio]
       /\ truths' = truths \cup {[attempt |-> graph.owner, epoch |-> Epoch[graph.owner],
                                  generation |-> graph.generation, cover |-> graph.desired,
                                  audio |-> audio]}
  /\ UNCHANGED <<attempts, wire, panel>>

\* The Encoder learns what its graph shows: the new cover, or still the old.
Observe ==
  /\ graph.switching /\ graph.shown # Nil
  /\ graph' = [graph EXCEPT !.switching = FALSE, !.known = TRUE, !.witness = WitnessOf(graph),
                            !.lastGood = KnownOf(graph.shown)]
  /\ UNCHANGED <<attempts, wire, panel, truths>>

\* Another graph takes over, and the cover has to be applied to it anew.
Replace ==
  /\ graph.generation \in 1 .. MaxGeneration - 1
  /\ graph' = [graph EXCEPT !.generation = @ + 1, !.shown = Nil, !.switching = TRUE, !.known = FALSE]
  /\ UNCHANGED <<attempts, wire, panel, truths>>

EncoderNext ==
  \/ \E c \in Sent("prepare") : Prepare(c)
  \/ \E c \in Sent("commit"), path \in Attempts : Commit(c, path)
  \/ \E c \in Sent("abort"), path \in Attempts : Abort(c, path)
  \/ \E c \in Sent("apply") : Apply(c)
  \/ \E a \in Attempts : Run(a) \/ End(a)
  \/ Switch \/ Observe \/ Replace

-----------------------------------------------------------------------------
(* What the Encoder may answer.                                            *)

StateOf(generation, readiness, applied, cover, witness, error) ==
  [stream |-> Stream, jobGeneration |-> Epoch[graph.owner], generation |-> generation,
   readiness |-> readiness, desired |-> DesiredOf(graph.desired), applied |-> applied,
   cover |-> LayerOf(cover), coverAsset |-> AssetOf(graph.desired), watermark |-> Watermark,
   pipeline |-> PipelineOf(graph.audio), witness |-> witness, noAutomaticResend |-> TRUE,
   lastGood |-> graph.lastGood, error |-> error]

\* The cover a witness saw.
CoverSeenBy(witness) ==
  [active |-> witness.active, revision |-> witness.revision, variant |-> witness.cover.variant]

\* Each part may speak of now, of what was asked for or of what was last seen.
StateClaims ==
  IF graph.witness = Nil THEN {}
  ELSE { StateOf(generation, readiness, KnownOf(applied), cover, witness, error) :
           generation \in {graph.generation, graph.witness.generation},
           readiness \in {"ready", "not_ready"},
           applied, cover \in {graph.desired, CoverSeenBy(graph.witness)},
           witness \in {Nil, graph.witness},
           error \in {Nil, "cover_graph_unavailable"} }

ResponseTo(request, outcome, state, error) ==
  [stream |-> Stream, jobGeneration |-> state.jobGeneration,
   requestedRevision |-> request.revision, actualGeneration |-> state.generation,
   accepted |-> outcome # "rejected", rejected |-> outcome = "rejected",
   applied |-> outcome = "applied", outcome |-> outcome, actual |-> state, error |-> error]

StatusClaims(a) ==
  { [schemaVersion |-> 2, identity |-> Identity(a), phase |-> phase,
     process |-> [status |-> "running", stream |-> Stream, videoIngest |-> Nil],
     coverState |-> state] :
      phase \in {attempts[a], "running"}, state \in StateClaims }

-----------------------------------------------------------------------------
(* The Control Panel believes the valid answers.                           *)

ShownIn(state) ==
  [epoch |-> state.jobGeneration, generation |-> state.generation,
   cover |-> [active |-> state.applied.active, revision |-> state.applied.revision,
              variant |-> state.applied.variant]]

\* What an applied response says it applied.
ShownBy(response) ==
  [epoch |-> response.jobGeneration, generation |-> response.actualGeneration,
   cover |-> [active |-> response.actual.desired.active, revision |-> response.requestedRevision,
              variant |-> response.actual.desired.variant]]

\* The Control Panel believes that attempts run, and what was shown.
Believe(running, seen) ==
  /\ panel' = [running |-> panel.running \cup running, shown |-> panel.shown \cup {seen}]
  /\ UNCHANGED <<attempts, graph, wire, truths>>

\* The status asked for is that of one attempt; the answer may be of another.
AcceptStatus(expected, a) ==
  /\ Asked(expected) /\ graph.owner = a
  /\ \E status \in StatusClaims(a) :
       /\ status.phase = "running" /\ ValidStatus(status, Identity(expected))
       /\ Believe({expected}, ShownIn(status.coverState))

AcceptState ==
  /\ graph.owner # Nil
  /\ \E state \in StateClaims :
       /\ ValidRuntimeReport(Stream, state) /\ state.readiness = "ready"
       /\ Believe({}, ShownIn(state))

AcceptApplied(c) ==
  /\ graph.owner # Nil
  /\ \E state \in StateClaims :
       LET response == ResponseTo(c.request, "applied", state, Nil)
       IN /\ ValidResponse(200, response)
          /\ Believe({}, ShownBy(response))

AnswerNext ==
  \/ \E expected, a \in Attempts : AcceptStatus(expected, a)
  \/ AcceptState
  \/ \E c \in Sent("apply") : AcceptApplied(c)

Next == PanelNext \/ EncoderNext \/ AnswerNext

Spec == Init /\ [][Next]_vars
-----------------------------------------------------------------------------
(* Properties.                                                             *)

CoverOrNil == Cover \cup {Nil}

Graph ==
  [owner: Attempts \cup {Nil}, generation: 0 .. MaxGeneration,
   desired: CoverOrNil, shown: CoverOrNil, switching: BOOLEAN, known: BOOLEAN,
   witness: Witness \cup {Nil}, lastGood: KnownApplied \cup {Nil}, audio: 0 .. 1]

Command ==
  { [kind |-> "prepare", request |-> PreparationOf(a, cover)] : a \in Attempts, cover \in StartCovers }
  \cup { [kind |-> kind, body |-> ActionFor(a)] : kind \in {"commit", "abort"}, a \in Attempts }
  \cup { [kind |-> "apply", request |-> RequestFor(a, generation, cover)] :
           a \in Attempts, generation \in 1 .. MaxGeneration, cover \in Cover }

Shown == [epoch: Nat, generation: 1 .. MaxGeneration, cover: Cover]

Truth ==
  [attempt: Attempts, epoch: Nat, generation: 1 .. MaxGeneration, cover: Cover, audio: 0 .. 1]

TypeOK ==
  /\ attempts \in [Attempts -> Phases \cup {"none"}]
  /\ graph \in Graph
  /\ wire \subseteq Command
  /\ panel \in [running: SUBSET Attempts, shown: SUBSET Shown]
  /\ truths \subseteq Truth

\* What a response, a status or a read made the Control Panel believe was shown
\* was shown, by that graph of that start, with the audio uninterrupted: no mix
\* of what was asked for, what an earlier graph witnessed and what is now can
\* pass for an applied cover.
ShownIsTrue ==
  \A seen \in panel.shown :
    \E truth \in truths :
      /\ truth.epoch = seen.epoch /\ truth.generation = seen.generation
      /\ truth.cover = seen.cover /\ truth.audio = 0

\* An attempt believed to run had a graph that showed its cover: neither the
\* attempt before it nor the one after it can pass for it.
RunningHasShown ==
  \A a \in panel.running : \E truth \in truths : truth.attempt = a /\ truth.audio = 0

WitnessIsTrue ==
  graph.witness # Nil =>
    \E truth \in truths :
      /\ truth.attempt = graph.owner /\ truth.epoch = Epoch[graph.owner]
      /\ truth.generation = graph.witness.generation
      /\ LayerOf(truth.cover) = graph.witness.cover
      /\ truth.audio = graph.witness.pipeline.audio

\* The graph is that of the one attempt that is busy, started by its commit.
OwnerIsBusy ==
  /\ \A a \in Attempts :
       attempts[a] \in Busy =>
         graph.owner = a /\ (attempts[a] = "prepared" <=> graph.generation = 0)
  /\ graph.owner # Nil => attempts[graph.owner] \in Busy /\ graph.desired # Nil
  /\ graph.owner = Nil => graph = NoGraph

GraphIsTrue ==
  /\ graph.switching \/ graph.shown # Nil => graph.generation > 0
  /\ graph.shown # Nil =>
       [attempt |-> graph.owner, epoch |-> Epoch[graph.owner], generation |-> graph.generation,
        cover |-> graph.shown, audio |-> graph.audio] \in truths

\* Why both hold: the witness the Encoder keeps was given by a graph of the
\* attempt that owns it, and the graph shows what was shown.
Inductive ==
  /\ TypeOK
  /\ OwnerIsBusy
  /\ GraphIsTrue
  /\ WitnessIsTrue
  /\ ShownIsTrue
  /\ RunningHasShown

\* An attempt is committed or aborted only by a command made for it, whatever
\* path the command was sent to.
OnlyItsOwnCommands ==
  \A a \in Attempts :
    /\ attempts[a] \in {"committing", "running"} =>
         \E c \in Sent("commit") : c.body.startID = a
    /\ attempts[a] = "aborted" => \E c \in Sent("abort") : c.body.startID = a

\* What an honest Encoder has to say of its graph.
HonestState ==
  IF graph.known
    THEN LET ready == graph.shown = graph.desired
         IN StateOf(graph.generation, IF ready THEN "ready" ELSE "not_ready", KnownOf(graph.shown),
                    graph.shown, WitnessOf(graph), IF ready THEN Nil ELSE "cover_graph_unavailable")
    ELSE StateOf(graph.generation, "unknown", UnknownApplied, graph.desired, Nil,
                 "cover_apply_ambiguous")

\* The request the graph is at, or another.
IsCurrent(request) ==
  request.jobGeneration = Epoch[graph.owner] /\ CoverIn(request) = graph.desired

\* Whether a request is the one the graph is at, and what became of it.
HonestStatus(request) ==
  IF ~IsCurrent(request) THEN 409
  ELSE IF ~graph.known THEN 202
  ELSE IF graph.shown = graph.desired THEN 200
  ELSE 502

HonestResponse(request) ==
  LET status == HonestStatus(request)
  IN CASE status = 200 -> ResponseTo(request, "applied", HonestState, Nil)
       [] status = 202 -> ResponseTo(request, "ambiguous", HonestState, "cover_apply_ambiguous")
       [] status = 409 -> ResponseTo(request, "rejected", HonestState, "stale_cover_revision")
       [] status = 502 -> ResponseTo(request, "rejected", HonestState, "cover_graph_unavailable")

\* Why there is always something to report: a graph is known when it shows a
\* cover, and a stream runs once it was; what was good last is a cover.
HasLastGood ==
  /\ graph.known => graph.shown # Nil /\ graph.lastGood # Nil
  /\ graph.owner # Nil /\ attempts[graph.owner] = "running" => graph.lastGood # Nil
  /\ graph.lastGood # Nil => \E cover \in Cover : graph.lastGood = KnownOf(cover)

\* A running stream whose audio was never interrupted can always be reported,
\* while a cover is being applied, after it failed and after the graph was
\* replaced; and the answer to any request, current or late, passes with one
\* status and no other.
AlwaysReportable ==
  graph.owner # Nil /\ attempts[graph.owner] = "running" /\ graph.audio = 0 =>
    /\ ValidRuntimeReport(Stream, HonestState)
    /\ \A c \in Sent("apply") :
         { status \in {200, 202, 404, 409, 502} : ValidResponse(status, HonestResponse(c.request)) }
           = {HonestStatus(c.request)}
=============================================================================
