------------------------- MODULE CoverRuntimeProofs -------------------------
(***************************************************************************)
(* What the Control Panel believes was shown was shown, an attempt that is *)
(* believed to run has shown its cover, and an honest Encoder always has   *)
(* an answer that is valid: for any number of attempts, graphs and         *)
(* revisions.                                                              *)
(***************************************************************************)
EXTENDS CoverRuntime, TLAPS

(* The documents.                                                          *)

\* A request asks for the cover it was made of, and so does a snapshot.
LEMMA AskedFor ==
  ASSUME NEW a \in Attempts, NEW cover \in Cover, NEW generation
  PROVE  /\ CoverIn(RequestFor(a, generation, cover)) = cover
         /\ CoverIn(PreparationOf(a, cover).start.snapshot) = cover
<1> DEFINE asks(request) ==
      /\ request.active = cover.active /\ request.revision = cover.revision
      /\ request.coverAsset = AssetOf(cover)
<1>1. ASSUME NEW request, asks(request)
      PROVE  CoverIn(request) = cover
  <2>1. cover.active => AssetOf(cover).variant = cover.variant
    BY DEF AssetOf
  <2>2. cover.active \in BOOLEAN /\ (~cover.active => cover.variant = None)
    BY DEF Cover
  <2>3. cover = [active |-> cover.active, revision |-> cover.revision, variant |-> cover.variant]
    BY DEF Cover
  <2> QED
    BY <1>1, <2>1, <2>2, <2>3 DEF CoverIn
<1>2. asks(RequestFor(a, generation, cover))
  BY DEF RequestFor
<1>3. asks(PreparationOf(a, cover).start.snapshot)
  BY DEF PreparationOf
<1> QED
  BY <1>1, <1>2, <1>3

\* What was sent was sent by the Control Panel of the model.
LEMMA SentPrepare ==
  ASSUME TypeOK, NEW c \in Sent("prepare")
  PROVE  \E a \in Attempts, cover \in StartCovers : c.request = PreparationOf(a, cover)
BY DEF TypeOK, Sent, Command

LEMMA SentAction ==
  ASSUME TypeOK, NEW kind \in {"commit", "abort"}, NEW c \in Sent(kind)
  PROVE  \E a \in Attempts : c.body = ActionFor(a)
BY DEF TypeOK, Sent, Command

LEMMA SentApply ==
  ASSUME TypeOK, NEW c \in Sent("apply")
  PROVE  \E a \in Attempts, generation \in 1 .. MaxGeneration, cover \in Cover :
           c.request = RequestFor(a, generation, cover)
BY DEF TypeOK, Sent, Command

\* A state in an answer speaks of the graph there is, and its witness is the
\* one the Encoder keeps.
LEMMA ClaimShape ==
  ASSUME NEW state \in StateClaims
  PROVE  /\ state.jobGeneration = Epoch[graph.owner]
         /\ state.witness \in {Nil, graph.witness}
BY DEF StateClaims, StateOf

\* A record of a cover is determined by its layer.
LEMMA LayerDetermines ==
  ASSUME NEW cover \in Cover, NEW applied,
         LayerOf(cover) = [enabled |-> applied.active, revision |-> applied.revision,
                           variant |-> applied.variant]
  PROVE  cover = [active |-> applied.active, revision |-> applied.revision,
                  variant |-> applied.variant]
<1>1. cover.active = applied.active /\ cover.revision = applied.revision
        /\ cover.variant = applied.variant
  BY DEF LayerOf
<1>2. cover = [active |-> cover.active, revision |-> cover.revision, variant |-> cover.variant]
  BY DEF Cover
<1> QED
  BY <1>1, <1>2

\* A state that passes as known was true of a graph of the attempt that owns
\* the graph now.
LEMMA KnownWasTrue ==
  ASSUME TypeOK, WitnessIsTrue, NEW state \in StateClaims, WitnessedKnown(state)
  PROVE  \E truth \in truths :
           /\ truth.attempt = graph.owner /\ truth.audio = 0
           /\ truth.epoch = ShownIn(state).epoch
           /\ truth.generation = ShownIn(state).generation
           /\ truth.cover = ShownIn(state).cover
<1>1. /\ state.witness = graph.witness /\ graph.witness # Nil
      /\ state.jobGeneration = Epoch[graph.owner]
  BY ClaimShape DEF WitnessedKnown
<1>2. /\ graph.witness.generation = state.generation
      /\ graph.witness.pipeline.audio = 0
      /\ graph.witness.cover = [enabled |-> state.applied.active, revision |-> state.applied.revision,
                                variant |-> state.applied.variant]
  BY <1>1 DEF WitnessedKnown, ValidWitness, ValidPipeline, SeenBy
<1>3. PICK truth \in truths :
        /\ truth.attempt = graph.owner /\ truth.epoch = Epoch[graph.owner]
        /\ truth.generation = graph.witness.generation
        /\ LayerOf(truth.cover) = graph.witness.cover
        /\ truth.audio = graph.witness.pipeline.audio
  BY <1>1 DEF WitnessIsTrue
<1>4. truth.cover \in Cover
  BY DEF TypeOK, Truth
<1>5. truth.cover = [active |-> state.applied.active, revision |-> state.applied.revision,
                     variant |-> state.applied.variant]
  BY <1>2, <1>3, <1>4, LayerDetermines
<1> QED
  BY <1>1, <1>2, <1>3, <1>5 DEF ShownIn

\* A state that is ready is known.
LEMMA ReadyIsKnown ==
  ASSUME NEW state, ValidRuntimeState(state), state.readiness = "ready"
  PROVE  WitnessedKnown(state)
BY DEF ValidRuntimeState, LastGoodUnknown

-----------------------------------------------------------------------------
(* Type correctness.                                                       *)

LEMMA NoGraphIsGraph == NoGraph \in Graph
BY BoundsAssumption DEF NoGraph, Graph, CoverOrNil

LEMMA InitTypeOK == Init => TypeOK
BY NoGraphIsGraph DEF Init, TypeOK

\* The commands the Control Panel sends.
LEMMA SendType ==
  ASSUME TypeOK, NEW command \in Command, Send(command)
  PROVE  TypeOK'
BY DEF TypeOK, Send

LEMMA PanelType == TypeOK /\ PanelNext => TypeOK'
<1> SUFFICES ASSUME TypeOK, PanelNext
             PROVE  TypeOK'
  OBVIOUS
<1>1. ASSUME NEW a \in Attempts, NEW cover \in StartCovers, SendPrepare(a, cover)
      PROVE  TypeOK'
  <2>1. [kind |-> "prepare", request |-> PreparationOf(a, cover)] \in Command
    BY DEF Command
  <2> QED
    BY <1>1, <2>1, SendType DEF SendPrepare
<1>2. ASSUME NEW a \in Attempts, NEW cover \in Cover, SendApply(a, cover)
      PROVE  TypeOK'
  <2>1. PICK seen \in panel.shown :
          Send([kind |-> "apply", request |-> RequestFor(a, seen.generation, cover)])
    BY <1>2 DEF SendApply
  <2>2. seen.generation \in 1 .. MaxGeneration
    BY DEF TypeOK, Shown
  <2>3. [kind |-> "apply", request |-> RequestFor(a, seen.generation, cover)] \in Command
    BY <2>2 DEF Command
  <2> QED
    BY <2>1, <2>3, SendType
<1>3. ASSUME NEW a \in Attempts, SendCommit(a) \/ SendAbort(a)
      PROVE  TypeOK'
  <2>1. \A kind \in {"commit", "abort"} : [kind |-> kind, body |-> ActionFor(a)] \in Command
    BY DEF Command
  <2> QED
    BY <1>3, <2>1, SendType DEF SendCommit, SendAbort
<1> QED
  BY <1>1, <1>2, <1>3 DEF PanelNext

\* A step of the Encoder changes its attempts and its graph, and adds truths.
LEMMA EncoderFrame ==
  ASSUME TypeOK, wire' = wire, panel' = panel, attempts' \in [Attempts -> Phases \cup {"none"}],
         graph' \in Graph, truths' \subseteq Truth
  PROVE  TypeOK'
BY DEF TypeOK

LEMMA MoveType ==
  ASSUME TypeOK, NEW a, NEW phase \in Phases, Move(a, phase)
  PROVE  attempts' \in [Attempts -> Phases \cup {"none"}]
BY DEF TypeOK, Move

\* The cover a valid snapshot or request asks for is a cover.
LEMMA SnapshotType ==
  ASSUME TypeOK, NEW c \in Sent("prepare")
  PROVE  /\ c.request.startID \in Attempts
         /\ CoverIn(c.request.start.snapshot) \in Cover
<1>1. PICK a \in Attempts, cover \in StartCovers : c.request = PreparationOf(a, cover)
  BY SentPrepare
<1>2. cover \in Cover
  BY StartCoversAssumption
<1>3. CoverIn(c.request.start.snapshot) = cover
  BY <1>1, <1>2, AskedFor
<1>4. c.request.startID = a
  BY <1>1 DEF PreparationOf
<1> QED
  BY <1>2, <1>3, <1>4

LEMMA ApplyType ==
  ASSUME TypeOK, NEW c \in Sent("apply")
  PROVE  CoverIn(c.request) \in Cover
BY SentApply, AskedFor

LEMMA TruthType ==
  ASSUME TypeOK, graph.owner \in Attempts, graph.generation \in 1 .. MaxGeneration,
         NEW cover \in Cover, NEW audio \in 0 .. 1
  PROVE  [attempt |-> graph.owner, epoch |-> Epoch[graph.owner], generation |-> graph.generation,
          cover |-> cover, audio |-> audio] \in Truth
<1>1. Epoch[graph.owner] \in Nat
  BY EpochAssumption
<1> QED
  BY <1>1 DEF Truth

\* What a graph that shows a cover can witness.
LEMMA WitnessType ==
  ASSUME TypeOK, graph.shown # Nil, graph.generation \in 1 .. MaxGeneration
  PROVE  WitnessOf(graph) \in Witness /\ KnownOf(graph.shown) \in KnownApplied
<1>1. graph.shown \in Cover /\ graph.audio \in 0 .. 1
  BY DEF TypeOK, Graph, CoverOrNil
<1>2. /\ graph.shown.active \in BOOLEAN /\ graph.shown.revision \in 1 .. MaxRevision
      /\ graph.shown.variant \in Variants \cup {None}
  BY <1>1 DEF Cover
<1>3. LayerOf(graph.shown) \in Layer
  BY <1>2 DEF LayerOf, Layer
<1>4. PipelineOf(graph.audio) \in [order: {"canonical"}, audio: 0 .. 1]
  BY <1>1 DEF PipelineOf
<1>5. WitnessOf(graph) \in Witness
  BY <1>2, <1>3, <1>4 DEF WitnessOf, Witness
<1> QED
  BY <1>2, <1>5 DEF KnownOf, KnownApplied

\* An owned graph is that of a busy attempt.
LEMMA OwnedGraph ==
  ASSUME TypeOK, OwnerIsBusy, graph # NoGraph
  PROVE  graph.owner \in Attempts /\ attempts[graph.owner] \in Busy /\ graph.desired \in Cover
BY DEF TypeOK, OwnerIsBusy, Graph, CoverOrNil

LEMMA GenerationType ==
  ASSUME TypeOK, graph.generation > 0
  PROVE  graph.generation \in 1 .. MaxGeneration /\ graph # NoGraph
BY DEF TypeOK, Graph, NoGraph
-----------------------------------------------------------------------------
(* The steps of the Encoder keep the invariant.                            *)

\* What was shown stays true, and nothing new is believed.
LEMMA BeliefStays ==
  ASSUME ShownIsTrue, RunningHasShown, truths \subseteq truths', panel' = panel
  PROVE  ShownIsTrue' /\ RunningHasShown'
BY DEF ShownIsTrue, RunningHasShown

\* A witness that is kept stays true, and a dropped one needs no truth.
LEMMA WitnessStays ==
  ASSUME WitnessIsTrue, truths \subseteq truths',
         \/ graph'.witness = Nil
         \/ graph'.witness = graph.witness /\ graph'.owner = graph.owner
  PROVE  WitnessIsTrue'
BY DEF WitnessIsTrue

\* The attempt that owned the graph is over.
LEMMA GraphGone ==
  ASSUME Inductive, NEW a \in Attempts, attempts[a] \in Busy,
         NEW phase \in {"aborted", "expired", "failed"}, Move(a, phase), graph' = NoGraph,
         UNCHANGED <<wire, panel, truths>>
  PROVE  Inductive'
<1> USE DEF Inductive
<1>1. TypeOK'
  <2>1. attempts' \in [Attempts -> Phases \cup {"none"}]
    BY MoveType DEF Phases
  <2>2. truths' \subseteq Truth
    BY DEF TypeOK
  <2> QED
    BY <2>1, <2>2, EncoderFrame, NoGraphIsGraph
<1>2. \A b \in Attempts : attempts'[b] \notin Busy
  <2>1. \A b \in Attempts : attempts[b] \in Busy => b = a
    BY DEF OwnerIsBusy
  <2>2. \A b \in Attempts : attempts'[b] = IF b = a THEN phase ELSE attempts[b]
    BY DEF Move, TypeOK
  <2> QED
    BY <2>1, <2>2 DEF Busy
<1>3. OwnerIsBusy'
  BY <1>2 DEF OwnerIsBusy, NoGraph
<1>4. GraphIsTrue'
  BY DEF GraphIsTrue, NoGraph
<1>5. WitnessIsTrue'
  BY WitnessStays DEF NoGraph
<1>6. ShownIsTrue' /\ RunningHasShown'
  BY BeliefStays
<1> QED
  BY <1>1, <1>3, <1>4, <1>5, <1>6

\* The graph changes while its owner, its desired cover apart, stays what it is.
LEMMA GraphChanges ==
  ASSUME Inductive, graph # NoGraph, graph.generation > 0, graph' \in Graph,
         graph'.owner = graph.owner, graph'.desired # Nil, graph'.generation > 0,
         UNCHANGED <<attempts, wire, panel>>,
         truths \subseteq truths', truths' \subseteq Truth,
         GraphIsTrue', WitnessIsTrue'
  PROVE  Inductive'
<1> USE DEF Inductive
<1>1. TypeOK'
  BY EncoderFrame DEF TypeOK
<1>2. OwnerIsBusy'
  <2>1. graph.owner \in Attempts /\ attempts[graph.owner] \in Busy
    BY OwnedGraph
  <2>2. graph'.owner # Nil
    BY <2>1, NilIsNothingElse
  <2>3. \A b \in Attempts : attempts[b] \in Busy => graph.owner = b /\ attempts[b] # "prepared"
    BY DEF OwnerIsBusy
  <2> QED
    BY <2>1, <2>2, <2>3 DEF OwnerIsBusy
<1>3. ShownIsTrue' /\ RunningHasShown'
  BY BeliefStays
<1> QED
  BY <1>1, <1>2, <1>3

LEMMA PrepareKeeps ==
  ASSUME Inductive, NEW c \in Sent("prepare"), Prepare(c)
  PROVE  Inductive'
<1> USE DEF Inductive
<1> DEFINE a == c.request.startID
           cover == CoverIn(c.request.start.snapshot)
<1>1. a \in Attempts /\ cover \in Cover
  BY SnapshotType
<1> HIDE DEF a, cover
<1>2. /\ attempts[a] = "none" /\ \A b \in Attempts : attempts[b] \notin Busy
      /\ Move(a, "prepared")
      /\ graph' = [NoGraph EXCEPT !.owner = a, !.desired = cover]
      /\ UNCHANGED <<wire, panel, truths>>
  BY DEF Prepare, a, cover
<1>3. graph' = [owner |-> a, generation |-> 0, desired |-> cover, shown |-> Nil,
                switching |-> FALSE, known |-> FALSE, witness |-> Nil, lastGood |-> Nil, audio |-> 0]
  BY <1>2 DEF NoGraph
<1>4. TypeOK'
  <2>1. graph' \in Graph
    BY <1>1, <1>3, BoundsAssumption DEF Graph, CoverOrNil
  <2>2. attempts' \in [Attempts -> Phases \cup {"none"}]
    BY <1>2, MoveType DEF Phases
  <2>3. truths' \subseteq Truth
    BY <1>2 DEF TypeOK
  <2> QED
    BY <1>2, <2>1, <2>2, <2>3, EncoderFrame
<1>5. OwnerIsBusy'
  <2>1. \A b \in Attempts : attempts'[b] = IF b = a THEN "prepared" ELSE attempts[b]
    BY <1>1, <1>2 DEF Move, TypeOK
  <2>2. a # Nil /\ cover # Nil
    BY <1>1, NilIsNothingElse
  <2>3. \A b \in Attempts : attempts'[b] \in Busy => b = a
    BY <1>2, <2>1
  <2>4. attempts'[a] = "prepared" /\ "prepared" \in Busy
    BY <1>1, <2>1 DEF Busy
  <2>5. graph'.owner = a /\ graph'.generation = 0 /\ graph'.desired = cover
    BY <1>3
  <2> QED
    BY <1>1, <2>2, <2>3, <2>4, <2>5 DEF OwnerIsBusy
<1>6. GraphIsTrue'
  BY <1>3 DEF GraphIsTrue
<1>7. WitnessIsTrue'
  <2>1. graph'.witness = Nil
    BY <1>3
  <2> QED
    BY <1>2, <2>1 DEF WitnessIsTrue
<1>8. ShownIsTrue' /\ RunningHasShown'
  BY <1>2, BeliefStays
<1> QED
  BY <1>4, <1>5, <1>6, <1>7, <1>8

LEMMA CommitKeeps ==
  ASSUME Inductive, NEW c \in Sent("commit"), NEW path \in Attempts, Commit(c, path)
  PROVE  Inductive'
<1> USE DEF Inductive
<1>1. /\ attempts[path] = "prepared" /\ Move(path, "committing")
      /\ graph' = [graph EXCEPT !.generation = 1, !.switching = TRUE]
      /\ UNCHANGED <<wire, panel, truths>>
  BY DEF Commit
<1>2. /\ graph.owner = path /\ graph.generation = 0 /\ graph.shown = Nil /\ path # Nil
      /\ graph.desired # Nil
  <2>1. graph.owner = path /\ graph.generation = 0
    BY <1>1 DEF OwnerIsBusy, Busy
  <2>2. path # Nil
    BY NilIsNothingElse
  <2>3. graph.desired # Nil
    BY <2>1, <2>2 DEF OwnerIsBusy
  <2>4. graph.shown = Nil
    BY <2>1 DEF GraphIsTrue
  <2> QED
    BY <2>1, <2>2, <2>3, <2>4
<1>3. graph' \in Graph /\ graph'.owner = path /\ graph'.generation = 1 /\ graph'.shown = Nil
        /\ graph'.desired = graph.desired /\ graph'.witness = graph.witness
  <2>1. graph \in Graph /\ 1 \in 0 .. MaxGeneration
    BY BoundsAssumption DEF TypeOK
  <2>2. graph' \in Graph
    BY <1>1, <2>1 DEF Graph
  <2>3. graph'.owner = path /\ graph'.generation = 1 /\ graph'.shown = Nil
        /\ graph'.desired = graph.desired /\ graph'.witness = graph.witness
    BY <1>1, <1>2, <2>1 DEF Graph
  <2> QED
    BY <2>2, <2>3
<1>4. TypeOK'
  <2>1. attempts' \in [Attempts -> Phases \cup {"none"}]
    BY <1>1, MoveType DEF Phases
  <2>2. truths' \subseteq Truth
    BY <1>1 DEF TypeOK
  <2> QED
    BY <1>1, <1>3, <2>1, <2>2, EncoderFrame
<1>5. OwnerIsBusy'
  <2>1. \A b \in Attempts : attempts'[b] = IF b = path THEN "committing" ELSE attempts[b]
    BY <1>1 DEF Move, TypeOK
  <2>2. \A b \in Attempts : attempts[b] \in Busy => b = path
    BY <1>2 DEF OwnerIsBusy
  <2> QED
    BY <1>2, <1>3, <2>1, <2>2 DEF OwnerIsBusy, Busy
<1>6. GraphIsTrue'
  BY <1>3 DEF GraphIsTrue
<1>7. WitnessIsTrue'
  BY <1>1, <1>2, <1>3, WitnessStays
<1>8. ShownIsTrue' /\ RunningHasShown'
  BY <1>1, BeliefStays
<1> QED
  BY <1>4, <1>5, <1>6, <1>7, <1>8

LEMMA RunKeeps ==
  ASSUME Inductive, NEW a \in Attempts, Run(a)
  PROVE  Inductive'
<1> USE DEF Inductive
<1>1. attempts[a] = "committing" /\ Move(a, "running") /\ UNCHANGED <<graph, wire, panel, truths>>
  BY DEF Run
<1>2. TypeOK'
  <2>1. attempts' \in [Attempts -> Phases \cup {"none"}]
    BY <1>1, MoveType DEF Phases
  <2>2. truths' \subseteq Truth /\ graph' \in Graph
    BY <1>1 DEF TypeOK
  <2> QED
    BY <1>1, <2>1, <2>2, EncoderFrame
<1>3. OwnerIsBusy'
  <2>1. \A b \in Attempts : attempts'[b] = IF b = a THEN "running" ELSE attempts[b]
    BY <1>1 DEF Move, TypeOK
  <2>2. /\ graph.owner = a /\ graph.generation # 0 /\ graph.desired # Nil
        /\ \A b \in Attempts : attempts[b] \in Busy => b = a
    BY <1>1, NilIsNothingElse DEF OwnerIsBusy, Busy
  <2>3. attempts'[a] = "running" /\ "running" \in Busy /\ "running" # "prepared" /\ a # Nil
    BY <2>1, NilIsNothingElse DEF Busy
  <2>4. \A b \in Attempts : attempts'[b] \in Busy => b = a
    BY <2>1, <2>2
  <2> QED
    BY <1>1, <2>2, <2>3, <2>4 DEF OwnerIsBusy
<1>4. GraphIsTrue' /\ WitnessIsTrue'
  BY <1>1 DEF GraphIsTrue, WitnessIsTrue
<1>5. ShownIsTrue' /\ RunningHasShown'
  BY <1>1, BeliefStays
<1> QED
  BY <1>2, <1>3, <1>4, <1>5

LEMMA ApplyKeeps ==
  ASSUME Inductive, NEW c \in Sent("apply"), Apply(c)
  PROVE  Inductive'
<1> USE DEF Inductive
<1> DEFINE cover == CoverIn(c.request)
<1>1. cover \in Cover
  BY ApplyType
<1> HIDE DEF cover
<1>2. /\ graph.owner # Nil /\ attempts[graph.owner] = "running"
      /\ graph' = [graph EXCEPT !.desired = cover, !.switching = TRUE, !.known = FALSE]
      /\ UNCHANGED <<attempts, wire, panel, truths>>
  BY DEF Apply, cover
<1>3. graph # NoGraph
  BY <1>2 DEF NoGraph
<1>4. graph.generation > 0
  <2>1. graph.owner \in Attempts /\ graph.generation \in Nat
    BY <1>2 DEF TypeOK, Graph
  <2>2. graph.generation # 0
    BY <1>2, <2>1 DEF OwnerIsBusy, Busy
  <2> QED
    BY <2>1, <2>2
<1>5. /\ graph' \in Graph /\ graph'.owner = graph.owner /\ graph'.desired # Nil
      /\ graph'.generation = graph.generation /\ graph'.shown = graph.shown
      /\ graph'.audio = graph.audio /\ graph'.witness = graph.witness
  BY <1>1, <1>2, NilIsNothingElse DEF TypeOK, Graph, CoverOrNil
<1>6. GraphIsTrue'
  BY <1>2, <1>4, <1>5 DEF GraphIsTrue
<1>7. WitnessIsTrue'
  BY <1>2, <1>5, WitnessStays
<1>8. truths \subseteq truths' /\ truths' \subseteq Truth
  BY <1>2 DEF TypeOK
<1> QED
  BY <1>2, <1>3, <1>4, <1>5, <1>6, <1>7, <1>8, GraphChanges

LEMMA SwitchKeeps ==
  ASSUME Inductive, Switch
  PROVE  Inductive'
<1> USE DEF Inductive
<1>1. PICK audio \in {graph.audio, 1} :
        /\ graph' = [graph EXCEPT !.shown = graph.desired, !.audio = audio]
        /\ truths' = truths \cup {[attempt |-> graph.owner, epoch |-> Epoch[graph.owner],
                                   generation |-> graph.generation, cover |-> graph.desired,
                                   audio |-> audio]}
  BY DEF Switch
<1>2. graph.switching /\ UNCHANGED <<attempts, wire, panel>>
  BY DEF Switch
<1>3. graph.generation > 0 /\ audio \in 0 .. 1
  BY <1>2 DEF GraphIsTrue, TypeOK, Graph
<1>4. graph.generation \in 1 .. MaxGeneration /\ graph # NoGraph
  BY <1>3, GenerationType
<1>5. graph.owner \in Attempts /\ graph.desired \in Cover
  BY <1>4, OwnedGraph
<1>6. /\ graph' \in Graph /\ graph'.owner = graph.owner /\ graph'.desired = graph.desired
      /\ graph'.generation = graph.generation /\ graph'.shown = graph.desired
      /\ graph'.audio = audio /\ graph'.witness = graph.witness
  BY <1>1, <1>3, <1>5 DEF TypeOK, Graph, CoverOrNil
<1>7. truths \subseteq truths' /\ truths' \subseteq Truth
  BY <1>1, <1>3, <1>4, <1>5, TruthType DEF TypeOK
<1>8. GraphIsTrue'
  <2>1. [attempt |-> graph'.owner, epoch |-> Epoch[graph'.owner], generation |-> graph'.generation,
         cover |-> graph'.shown, audio |-> graph'.audio] \in truths'
    BY <1>1, <1>6
  <2> QED
    BY <1>3, <1>6, <2>1 DEF GraphIsTrue
<1>9. WitnessIsTrue'
  BY <1>6, <1>7, WitnessStays
<1>10. graph'.desired # Nil /\ graph'.generation > 0
  BY <1>3, <1>5, <1>6, NilIsNothingElse
<1> QED
  BY <1>2, <1>3, <1>4, <1>6, <1>7, <1>8, <1>9, <1>10, GraphChanges

LEMMA ObserveKeeps ==
  ASSUME Inductive, Observe
  PROVE  Inductive'
<1> USE DEF Inductive
<1>1. /\ graph.switching /\ graph.shown # Nil
      /\ graph' = [graph EXCEPT !.switching = FALSE, !.known = TRUE, !.witness = WitnessOf(graph),
                                !.lastGood = KnownOf(graph.shown)]
      /\ UNCHANGED <<attempts, wire, panel, truths>>
  BY DEF Observe
<1>2. graph.generation > 0
  BY <1>1 DEF GraphIsTrue
<1>3. graph.generation \in 1 .. MaxGeneration /\ graph # NoGraph
  BY <1>2, GenerationType
<1>4. graph.owner \in Attempts /\ graph.desired \in Cover
  BY <1>3, OwnedGraph
<1>5. WitnessOf(graph) \in Witness /\ KnownOf(graph.shown) \in KnownApplied
  BY <1>1, <1>3, WitnessType
<1>6. /\ graph' \in Graph /\ graph'.owner = graph.owner /\ graph'.desired = graph.desired
      /\ graph'.generation = graph.generation /\ graph'.shown = graph.shown
      /\ graph'.audio = graph.audio /\ graph'.witness = WitnessOf(graph)
  BY <1>1, <1>5 DEF TypeOK, Graph
<1>7. GraphIsTrue'
  BY <1>1, <1>2, <1>6 DEF GraphIsTrue
<1>8. WitnessIsTrue'
  <2> DEFINE truth == [attempt |-> graph.owner, epoch |-> Epoch[graph.owner],
                       generation |-> graph.generation, cover |-> graph.shown, audio |-> graph.audio]
  <2>1. truth \in truths'
    BY <1>1 DEF GraphIsTrue
  <2>2. /\ truth.attempt = graph'.owner /\ truth.epoch = Epoch[graph'.owner]
        /\ truth.generation = graph'.witness.generation
        /\ LayerOf(truth.cover) = graph'.witness.cover
        /\ truth.audio = graph'.witness.pipeline.audio
    BY <1>6 DEF WitnessOf, PipelineOf
  <2> QED
    BY <2>1, <2>2 DEF WitnessIsTrue
<1>9. truths \subseteq truths' /\ truths' \subseteq Truth
  BY <1>1 DEF TypeOK
<1>10. graph'.desired # Nil /\ graph'.generation > 0
  BY <1>2, <1>4, <1>6, NilIsNothingElse
<1> QED
  BY <1>1, <1>2, <1>3, <1>6, <1>7, <1>8, <1>9, <1>10, GraphChanges

LEMMA ReplaceKeeps ==
  ASSUME Inductive, Replace
  PROVE  Inductive'
<1> USE DEF Inductive
<1>1. /\ graph.generation \in 1 .. MaxGeneration - 1
      /\ graph' = [graph EXCEPT !.generation = @ + 1, !.shown = Nil, !.switching = TRUE,
                                !.known = FALSE]
      /\ UNCHANGED <<attempts, wire, panel, truths>>
  BY DEF Replace
<1>2. graph.generation > 0 /\ graph.generation + 1 \in 0 .. MaxGeneration
  BY <1>1, BoundsAssumption
<1>3. graph # NoGraph
  BY <1>2, GenerationType
<1>4. graph.desired \in Cover
  BY <1>3, OwnedGraph
<1>5. /\ graph' \in Graph /\ graph'.owner = graph.owner /\ graph'.desired = graph.desired
      /\ graph'.generation > 0 /\ graph'.shown = Nil /\ graph'.witness = graph.witness
  <2>1. graph \in Graph /\ graph.generation + 1 > 0
    BY <1>1 DEF TypeOK
  <2>2. graph' \in Graph
    BY <1>1, <1>2, <2>1 DEF Graph, CoverOrNil
  <2>3. /\ graph'.owner = graph.owner /\ graph'.desired = graph.desired
        /\ graph'.generation = graph.generation + 1
        /\ graph'.shown = Nil /\ graph'.witness = graph.witness
    BY <1>1, <2>1 DEF Graph
  <2> QED
    BY <2>1, <2>2, <2>3
<1>6. GraphIsTrue'
  BY <1>5 DEF GraphIsTrue
<1>7. WitnessIsTrue'
  BY <1>1, <1>5, WitnessStays
<1>8. truths \subseteq truths' /\ truths' \subseteq Truth
  BY <1>1 DEF TypeOK
<1>9. graph'.desired # Nil
  BY <1>4, <1>5, NilIsNothingElse
<1> QED
  BY <1>1, <1>2, <1>3, <1>5, <1>6, <1>7, <1>8, <1>9, GraphChanges

\* Every step of the Encoder.
LEMMA EncoderKeeps == Inductive /\ EncoderNext => Inductive'
<1> SUFFICES ASSUME Inductive, EncoderNext
             PROVE  Inductive'
  OBVIOUS
<1>1. ASSUME NEW c \in Sent("abort"), NEW path \in Attempts, Abort(c, path)
      PROVE  Inductive'
  <2>1. /\ attempts[path] \in Busy /\ Move(path, "aborted") /\ graph' = NoGraph
        /\ UNCHANGED <<wire, panel, truths>>
    BY <1>1 DEF Abort, Busy
  <2> QED
    BY <2>1, GraphGone
<1>2. ASSUME NEW a \in Attempts, End(a)
      PROVE  Inductive'
  <2>1. PICK phase \in {"aborted", "expired", "failed"} : Move(a, phase)
    BY <1>2 DEF End
  <2>2. attempts[a] \in Busy /\ graph' = NoGraph /\ UNCHANGED <<wire, panel, truths>>
    BY <1>2 DEF End
  <2> QED
    BY <2>1, <2>2, GraphGone
<1> QED
  BY <1>1, <1>2, PrepareKeeps, CommitKeeps, RunKeeps, ApplyKeeps, SwitchKeeps, ObserveKeeps,
     ReplaceKeeps DEF EncoderNext

-----------------------------------------------------------------------------
(* The other steps, and what the Control Panel comes to believe.           *)

\* A new belief is sound when a truth supports each part of it.
LEMMA BelieveKeeps ==
  ASSUME Inductive, NEW running \in SUBSET Attempts, NEW state, NEW truth \in truths,
         truth.epoch = ShownIn(state).epoch, truth.generation = ShownIn(state).generation,
         truth.cover = ShownIn(state).cover, truth.audio = 0,
         \A a \in running : truth.attempt = a,
         Believe(running, ShownIn(state))
  PROVE  Inductive'
<1> USE DEF Inductive
<1> DEFINE seen == ShownIn(state)
<1>1. /\ panel' = [running |-> panel.running \cup running, shown |-> panel.shown \cup {seen}]
      /\ UNCHANGED <<attempts, graph, wire, truths>>
  BY DEF Believe
<1>2. seen \in Shown
  <2>1. seen.epoch \in Nat /\ seen.generation \in 1 .. MaxGeneration /\ seen.cover \in Cover
    BY DEF TypeOK, Truth
  <2> QED
    BY <2>1 DEF Shown, ShownIn
<1> HIDE DEF seen
<1>3. TypeOK'
  <2>1. panel.running \cup running \subseteq Attempts /\ panel.shown \cup {seen} \subseteq Shown
    BY <1>2 DEF TypeOK
  <2>2. panel' \in [running: SUBSET Attempts, shown: SUBSET Shown]
    BY <1>1, <2>1
  <2> QED
    BY <1>1, <2>2 DEF TypeOK
<1>4. OwnerIsBusy' /\ GraphIsTrue' /\ WitnessIsTrue'
  BY <1>1 DEF OwnerIsBusy, GraphIsTrue, WitnessIsTrue
<1>5. ShownIsTrue'
  <2>1. /\ truth.epoch = seen.epoch /\ truth.generation = seen.generation
        /\ truth.cover = seen.cover /\ truth.audio = 0
    BY DEF seen
  <2> QED
    BY <1>1, <2>1 DEF ShownIsTrue
<1>6. RunningHasShown'
  BY <1>1 DEF RunningHasShown
<1> QED
  BY <1>3, <1>4, <1>5, <1>6

LEMMA StatusKeeps ==
  ASSUME Inductive, NEW expected \in Attempts, NEW a \in Attempts, AcceptStatus(expected, a)
  PROVE  Inductive'
<1> USE DEF Inductive
<1>1. PICK status \in StatusClaims(a) :
        /\ status.phase = "running" /\ ValidStatus(status, Identity(expected))
        /\ Believe({expected}, ShownIn(status.coverState))
  BY DEF AcceptStatus
<1> DEFINE state == status.coverState
<1>2. state \in StateClaims /\ status.identity = Identity(a) /\ graph.owner = a
  BY DEF StatusClaims, AcceptStatus
<1>3. a = expected
  BY <1>1, <1>2 DEF ValidStatus, Identity
<1>4. WitnessedKnown(state)
  <2>1. ValidRuntimeState(state) /\ state.readiness = "ready"
    BY <1>1 DEF ValidStatus, CoverIsReady, ValidRuntimeReport
  <2> QED
    BY <2>1, ReadyIsKnown
<1>5. PICK truth \in truths :
        /\ truth.attempt = graph.owner /\ truth.audio = 0
        /\ truth.epoch = ShownIn(state).epoch /\ truth.generation = ShownIn(state).generation
        /\ truth.cover = ShownIn(state).cover
  BY <1>2, <1>4, KnownWasTrue
<1> HIDE DEF state
<1>6. Believe({expected}, ShownIn(state))
  BY <1>1 DEF state
<1> QED
  BY <1>2, <1>3, <1>5, <1>6, BelieveKeeps

LEMMA StateKeeps ==
  ASSUME Inductive, AcceptState
  PROVE  Inductive'
<1> USE DEF Inductive
<1>1. PICK state \in StateClaims :
        /\ ValidRuntimeReport(Stream, state) /\ state.readiness = "ready"
        /\ Believe({}, ShownIn(state))
  BY DEF AcceptState
<1>2. WitnessedKnown(state)
  BY <1>1, ReadyIsKnown DEF ValidRuntimeReport
<1>3. PICK truth \in truths :
        /\ truth.attempt = graph.owner /\ truth.audio = 0
        /\ truth.epoch = ShownIn(state).epoch /\ truth.generation = ShownIn(state).generation
        /\ truth.cover = ShownIn(state).cover
  BY <1>2, KnownWasTrue
<1> QED
  BY <1>1, <1>3, BelieveKeeps

\* What an applied response says it applied is what its actual state shows.
LEMMA AppliedSays ==
  ASSUME NEW response, ValidResponse(200, response)
  PROVE  WitnessedKnown(response.actual) /\ ShownBy(response) = ShownIn(response.actual)
<1>1. ResponseDescribesActual(response) /\ AppliedLinkage(response)
  BY DEF ValidResponse
<1>2. WitnessedKnown(response.actual)
  <2>1. ValidRuntimeState(response.actual) /\ response.actual.readiness = "ready"
    BY <1>1 DEF ResponseDescribesActual, AppliedLinkage
  <2> QED
    BY <2>1, ReadyIsKnown
<1>3. /\ response.actual.applied.active = response.actual.desired.active
      /\ response.actual.applied.revision = response.requestedRevision
      /\ response.actual.applied.variant = response.actual.desired.variant
  BY <1>1 DEF AppliedLinkage
<1>4. /\ response.jobGeneration = response.actual.jobGeneration
      /\ response.actualGeneration = response.actual.generation
  BY <1>1 DEF ResponseDescribesActual
<1> QED
  BY <1>2, <1>3, <1>4 DEF ShownIn, ShownBy

LEMMA AppliedKeeps ==
  ASSUME Inductive, NEW c \in Sent("apply"), AcceptApplied(c)
  PROVE  Inductive'
<1> USE DEF Inductive
<1>1. PICK state \in StateClaims :
        LET response == ResponseTo(c.request, "applied", state, Nil)
        IN ValidResponse(200, response) /\ Believe({}, ShownBy(response))
  BY DEF AcceptApplied
<1>2. ResponseTo(c.request, "applied", state, Nil).actual = state
  BY DEF ResponseTo
<1>3. WitnessedKnown(state) /\ Believe({}, ShownIn(state))
  BY <1>1, <1>2, AppliedSays
<1>4. PICK truth \in truths :
        /\ truth.attempt = graph.owner /\ truth.audio = 0
        /\ truth.epoch = ShownIn(state).epoch /\ truth.generation = ShownIn(state).generation
        /\ truth.cover = ShownIn(state).cover
  BY <1>3, KnownWasTrue
<1> QED
  BY <1>3, <1>4, BelieveKeeps

\* Sending commands disturbs nothing but the wire.
LEMMA PanelKeeps == Inductive /\ PanelNext => Inductive'
<1> SUFFICES ASSUME Inductive, PanelNext
             PROVE  Inductive'
  OBVIOUS
<1>1. UNCHANGED <<attempts, graph, panel, truths>>
  BY DEF PanelNext, SendPrepare, SendCommit, SendAbort, SendApply, Send
<1>2. TypeOK'
  BY PanelType DEF Inductive
<1> QED
  BY <1>1, <1>2 DEF Inductive, OwnerIsBusy, GraphIsTrue, WitnessIsTrue, ShownIsTrue, RunningHasShown

-----------------------------------------------------------------------------
LEMMA InitInductive == Init => Inductive
BY InitTypeOK DEF Init, Inductive, OwnerIsBusy, GraphIsTrue, WitnessIsTrue, ShownIsTrue,
   RunningHasShown, NoGraph, Busy

LEMMA NextInductive == Inductive /\ [Next]_vars => Inductive'
<1> SUFFICES ASSUME Inductive, [Next]_vars
             PROVE  Inductive'
  OBVIOUS
<1>1. CASE AnswerNext
  BY <1>1, StatusKeeps, StateKeeps, AppliedKeeps DEF AnswerNext
<1>2. CASE UNCHANGED vars
  BY <1>2 DEF vars, Inductive, TypeOK, OwnerIsBusy, GraphIsTrue, WitnessIsTrue, ShownIsTrue,
     RunningHasShown
<1> QED
  BY <1>1, <1>2, PanelKeeps, EncoderKeeps DEF Next

\* The invariant: the witness the Encoder keeps was given by a graph of the
\* attempt that owns it, whatever was lost, late or sent twice.
THEOREM InductiveHolds == Spec => []Inductive
BY InitInductive, NextInductive, PTL DEF Spec

\* A cover believed to be shown was shown by that graph of that start, with the
\* audio uninterrupted (ValidateVideoCoverResponse, ValidateVideoCoverRuntimeState).
THEOREM ShownIsTrueHolds == Spec => []ShownIsTrue
<1>1. Inductive => ShownIsTrue
  BY DEF Inductive
<1> QED
  BY <1>1, InductiveHolds, PTL

\* An attempt believed to run had a graph that showed its cover
\* (DecodeEncoderStartPreparationStatus).
THEOREM RunningHasShownHolds == Spec => []RunningHasShown
<1>1. Inductive => RunningHasShown
  BY DEF Inductive
<1> QED
  BY <1>1, InductiveHolds, PTL

-----------------------------------------------------------------------------
(* Commands.                                                               *)

\* The commands an attempt owes its phase to stay on the wire.
LEMMA OwnCommandsStay ==
  ASSUME TypeOK, OnlyItsOwnCommands, wire \subseteq wire',
         NEW path \in Attempts, NEW phase, Move(path, phase) \/ UNCHANGED attempts,
         Move(path, phase) =>
           /\ phase \in {"committing", "running"} =>
                \E c \in Sent("commit") : c.body.startID = path
           /\ phase = "aborted" => \E c \in Sent("abort") : c.body.startID = path
  PROVE  OnlyItsOwnCommands'
<1>1. Sent("commit") \subseteq Sent("commit")' /\ Sent("abort") \subseteq Sent("abort")'
  BY DEF Sent
<1>2. CASE UNCHANGED attempts
  BY <1>1, <1>2 DEF OnlyItsOwnCommands
<1>3. CASE Move(path, phase)
  <2>1. \A a \in Attempts : attempts'[a] = IF a = path THEN phase ELSE attempts[a]
    BY <1>3 DEF Move, TypeOK
  <2> QED
    BY <1>1, <1>3, <2>1 DEF OnlyItsOwnCommands
<1> QED
  BY <1>2, <1>3

\* No step lets an attempt go on without a command of its own.
LEMMA OwnCommandsStep == TypeOK /\ OnlyItsOwnCommands /\ [Next]_vars => OnlyItsOwnCommands'
<1> SUFFICES ASSUME TypeOK, OnlyItsOwnCommands, [Next]_vars
             PROVE  OnlyItsOwnCommands'
  OBVIOUS
<1>1. ASSUME UNCHANGED attempts, wire \subseteq wire'
      PROVE  OnlyItsOwnCommands'
  <2>1. Sent("commit") \subseteq Sent("commit")' /\ Sent("abort") \subseteq Sent("abort")'
    BY <1>1 DEF Sent
  <2> QED
    BY <1>1, <2>1 DEF OnlyItsOwnCommands
<1>2. ASSUME NEW c \in Sent("prepare"), Prepare(c)
      PROVE  OnlyItsOwnCommands'
  <2>1. c.request.startID \in Attempts /\ Move(c.request.startID, "prepared") /\ wire' = wire
    BY <1>2, SnapshotType DEF Prepare
  <2> QED
    BY <2>1, OwnCommandsStay
<1>3. ASSUME NEW c \in Sent("commit"), NEW path \in Attempts, Commit(c, path)
      PROVE  OnlyItsOwnCommands'
  <2>1. c.body.startID = path /\ Move(path, "committing") /\ wire' = wire
    BY <1>3 DEF Commit, ValidAction
  <2> QED
    BY <2>1, OwnCommandsStay
<1>4. ASSUME NEW c \in Sent("abort"), NEW path \in Attempts, Abort(c, path)
      PROVE  OnlyItsOwnCommands'
  <2>1. c.body.startID = path /\ Move(path, "aborted") /\ wire' = wire
    BY <1>4 DEF Abort, ValidAction
  <2> QED
    BY <2>1, OwnCommandsStay
<1>5. ASSUME NEW a \in Attempts, Run(a)
      PROVE  OnlyItsOwnCommands'
  <2>1. attempts[a] = "committing" /\ Move(a, "running") /\ wire' = wire
    BY <1>5 DEF Run
  <2>2. \E c \in Sent("commit") : c.body.startID = a
    BY <2>1 DEF OnlyItsOwnCommands
  <2> QED
    BY <2>1, <2>2, OwnCommandsStay
<1>6. ASSUME NEW a \in Attempts, End(a)
      PROVE  OnlyItsOwnCommands'
  <2>1. PICK phase \in {"expired", "failed"} : Move(a, phase)
    BY <1>6 DEF End
  <2>2. wire' = wire
    BY <1>6 DEF End
  <2> QED
    BY <2>1, <2>2, OwnCommandsStay
<1>7. CASE PanelNext
  <2>1. UNCHANGED attempts /\ wire \subseteq wire'
    BY <1>7 DEF PanelNext, SendPrepare, SendCommit, SendAbort, SendApply, Send
  <2> QED
    BY <2>1, <1>1
<1>8. CASE AnswerNext
  <2>1. UNCHANGED <<attempts, wire>>
    BY <1>8 DEF AnswerNext, AcceptStatus, AcceptState, AcceptApplied, Believe
  <2> QED
    BY <2>1, <1>1
<1>9. ASSUME \/ \E c \in Sent("apply") : Apply(c)
             \/ Switch \/ Observe \/ Replace
      PROVE  OnlyItsOwnCommands'
  <2>1. UNCHANGED <<attempts, wire>>
    BY <1>9 DEF Apply, Switch, Observe, Replace
  <2> QED
    BY <2>1, <1>1
<1>10. CASE UNCHANGED vars
  BY <1>1, <1>10 DEF vars
<1> QED
  BY <1>2, <1>3, <1>4, <1>5, <1>6, <1>7, <1>8, <1>9, <1>10 DEF Next, EncoderNext

\* An attempt is committed or aborted by a command made for it and by no other,
\* whatever path a command arrives at (DecodeEncoderStartPreparationAction).
THEOREM OnlyItsOwnCommandsHolds == Spec => []OnlyItsOwnCommands
<1>1. Init => OnlyItsOwnCommands
  BY DEF Init, OnlyItsOwnCommands
<1>2. Inductive => TypeOK
  BY DEF Inductive
<1> QED
  BY <1>1, <1>2, InductiveHolds, OwnCommandsStep, PTL DEF Spec
-----------------------------------------------------------------------------
(* What the Encoder can always report.                                     *)

\* The parts of a document that are made of a cover pass their validators.
LEMMA CoverPasses ==
  ASSUME NEW cover \in Cover
  PROVE  /\ cover.active \in BOOLEAN /\ cover.revision # 0
         /\ ValidDesired(DesiredOf(cover))
         /\ ValidLayer(LayerOf(cover))
         /\ ValidKnownApplied(KnownOf(cover))
<1>1. /\ cover.active \in BOOLEAN /\ cover.revision \in Nat /\ cover.revision # 0
      /\ IF cover.active THEN cover.variant \in Identifiers ELSE cover.variant = None
  <2>1. cover.revision \in 1 .. MaxRevision /\ cover.active \in BOOLEAN
    BY DEF Cover
  <2>2. IF cover.active THEN cover.variant \in Variants ELSE cover.variant = None
    BY DEF Cover
  <2>3. cover.revision \in Nat /\ cover.revision # 0
    BY <2>1, BoundsAssumption
  <2> QED
    BY <2>1, <2>2, <2>3, StreamAssumption
<1>2. cover.active # Nil
  BY <1>1, NilAssumption
<1> QED
  BY <1>1, <1>2
    DEF ValidDesired, DesiredOf, ValidLayer, LayerOf, ValidKnownApplied, KnownOf, ValidIdentifier

\* The picture of a cover that is shown is one a cover may have.
LEMMA AssetPasses ==
  ASSUME NEW cover \in Cover
  PROVE  IF cover.active
           THEN ValidCoverAsset(AssetOf(cover)) /\ AssetOf(cover).variant = cover.variant
           ELSE AssetOf(cover) = Nil
<1>1. CASE cover.active
  <2>1. cover.variant \in Identifiers
    BY <1>1, StreamAssumption DEF Cover
  <2> DEFINE asset ==
        [variant |-> cover.variant, usage |-> "video_cover", mediaType |-> "image/png",
         width |-> 1920, height |-> 1080, byteSize |-> 4096, pixelCount |-> 1920 * 1080,
         animated |-> FALSE, aspectErrorPPM |-> 0, opaque |-> TRUE, revision |-> 1,
         readiness |-> "ready", error |-> Nil]
  <2>2. AssetOf(cover) = asset
    BY <1>1 DEF AssetOf
  <2>3. /\ asset.variant = cover.variant /\ asset.usage = "video_cover"
        /\ asset.mediaType = "image/png" /\ asset.animated = FALSE /\ asset.revision = 1
        /\ asset.aspectErrorPPM = 0 /\ asset.opaque = TRUE
        /\ asset.readiness = "ready" /\ asset.error = Nil
        /\ asset.width = 1920 /\ asset.height = 1080
        /\ asset.byteSize = 4096 /\ asset.pixelCount = 1920 * 1080
    BY SMT
  <2> HIDE DEF asset
  <2>4. ValidPictureSize(asset)
    <3>1. MaxByteSize \in Int /\ 4096 <= MaxByteSize
      BY DEF MaxByteSize
    <3>2. MaxPixelCount \in Int /\ 1920 * 1080 <= MaxPixelCount
      BY DEF MaxPixelCount
    <3>3. asset.byteSize \in 1 .. MaxByteSize
      BY <2>3, <3>1
    <3>4. asset.pixelCount \in 1 .. MaxPixelCount
      BY <2>3, <3>2
    <3> QED
      BY <2>3, <3>3, <3>4 DEF ValidPictureSize
  <2>5. ExplainedReadiness(asset)
    BY <2>3 DEF ExplainedReadiness, Readiness, ValidErrorOrNone
  <2>6. ValidAsset(asset)
    BY <2>1, <2>3, <2>4, <2>5 DEF ValidAsset, ValidIdentifier
  <2>7. AssetOf(cover) # Nil
    BY <1>1, NilIsNothingElse
  <2> QED
    BY <1>1, <2>2, <2>3, <2>6, <2>7 DEF ValidCoverAsset
<1>2. CASE ~cover.active
  BY <1>2 DEF AssetOf
<1> QED
  BY <1>1, <1>2

\* A graph with a cover to show, whose audio was never interrupted.
Reporting ==
  /\ graph \in Graph
  /\ graph.owner \in Attempts /\ graph.desired \in Cover /\ graph.generation > 0
  /\ graph.audio = 0 /\ graph.lastGood # Nil
  /\ HasLastGood

\* A state of such a graph passes if what it says was applied is known from a
\* witness, or is unknown.
LEMMA StatePasses ==
  ASSUME Reporting, NEW cover \in Cover, NEW applied, ValidApplied(applied), NEW witness,
         NEW readiness \in Readiness, NEW error,
         ValidErrorOrNone(error), readiness = "ready" <=> error = Nil,
         NEW state,
         state = StateOf(graph.generation, readiness, applied, cover, witness, error),
         WitnessedKnown(state) \/ LastGoodUnknown(state)
  PROVE  ValidRuntimeReport(Stream, state) /\ ValidRuntimeState(state)
<1>1. /\ state.stream = Stream /\ state.jobGeneration = Epoch[graph.owner]
      /\ state.generation = graph.generation /\ state.noAutomaticResend
      /\ state.desired = DesiredOf(graph.desired) /\ state.applied = applied
      /\ state.cover = LayerOf(cover) /\ state.watermark = Watermark
      /\ state.pipeline = PipelineOf(graph.audio)
      /\ state.coverAsset = AssetOf(graph.desired)
      /\ state.readiness = readiness /\ state.error = error
      /\ state.lastGood = graph.lastGood
  BY DEF StateOf
<1>2. Stream # None /\ Epoch[graph.owner] # 0 /\ graph.generation # 0
  <2>1. Stream # None
    BY StreamAssumption, IdentifiersAssumption
  <2>2. Epoch[graph.owner] # 0
    BY EpochAssumption DEF Reporting
  <2>3. graph.generation # 0
    BY DEF Reporting, Graph
  <2> QED
    BY <2>1, <2>2, <2>3
<1>3. ValidDesired(state.desired) /\ ValidLayer(state.cover)
  BY <1>1, CoverPasses DEF Reporting
<1>4. ValidLayer(state.watermark) /\ ValidPipeline(state.pipeline)
  BY <1>1 DEF Reporting, ValidLayer, Watermark, ValidPipeline, PipelineOf
<1>5. AssetIsDesired(state)
  <2>1. /\ state.desired.active = graph.desired.active
        /\ state.desired.variant = graph.desired.variant
    BY <1>1 DEF DesiredOf
  <2> QED
    BY <1>1, <2>1, AssetPasses DEF AssetIsDesired, Reporting
<1>6. ExplainedReadiness(state)
  BY <1>1 DEF ExplainedReadiness
<1>7. ValidKnownApplied(state.lastGood)
  BY <1>1, CoverPasses DEF Reporting, HasLastGood
<1> QED
  BY <1>1, <1>2, <1>3, <1>4, <1>5, <1>6, <1>7 DEF ValidRuntimeReport, ValidRuntimeState

\* The state the Encoder reports while it knows what its graph shows: the cover
\* that is desired, or the one that still shows after a new one failed.
LEMMA KnownStatePasses ==
  ASSUME Reporting, TypeOK, graph.known
  PROVE  /\ ValidRuntimeReport(Stream, HonestState) /\ ValidRuntimeState(HonestState)
         /\ HonestState.applied = KnownOf(graph.shown)
         /\ HonestState.cover = LayerOf(graph.shown)
         /\ HonestState.witness = WitnessOf(graph) /\ HonestState.witness # Nil
         /\ SeenBy(HonestState, HonestState.witness)
         /\ IF graph.shown = graph.desired
              THEN HonestState.readiness = "ready"
              ELSE /\ HonestState.readiness = "not_ready"
                   /\ HonestState.error = "cover_graph_unavailable"
<1> DEFINE ready == graph.shown = graph.desired
           readiness == IF ready THEN "ready" ELSE "not_ready"
           error == IF ready THEN Nil ELSE "cover_graph_unavailable"
           witness == WitnessOf(graph)
           applied == KnownOf(graph.shown)
           state == StateOf(graph.generation, readiness, applied, graph.shown, witness, error)
<1>1. graph.shown \in Cover
  BY DEF Reporting, Graph, CoverOrNil, HasLastGood
<1>2. witness \in Witness
  BY <1>1, NilIsNothingElse, GenerationType, WitnessType DEF Reporting
<1>3. HonestState = state
  BY DEF HonestState
<1>4. /\ witness.graphApplied /\ witness.generation = graph.generation
      /\ witness.revision = graph.shown.revision /\ witness.active = graph.shown.active
      /\ witness.cover = LayerOf(graph.shown) /\ witness.watermark = Watermark
      /\ witness.pipeline = PipelineOf(graph.audio)
  BY DEF WitnessOf
<1>5. /\ state.generation = graph.generation /\ state.desired = DesiredOf(graph.desired)
      /\ state.applied = applied /\ state.cover = LayerOf(graph.shown)
      /\ state.watermark = Watermark /\ state.pipeline = PipelineOf(graph.audio)
      /\ state.witness = witness /\ state.readiness = readiness /\ state.error = error
  BY DEF StateOf
<1>6. /\ applied.state = "known" /\ applied.active = graph.shown.active
      /\ applied.revision = graph.shown.revision /\ applied.variant = graph.shown.variant
  BY DEF KnownOf
<1>7. ValidApplied(applied)
  BY <1>1, CoverPasses DEF ValidApplied
<1>8. /\ readiness \in Readiness /\ ValidErrorOrNone(error)
      /\ readiness = "ready" <=> error = Nil
      /\ readiness = "ready" <=> ready
  BY NilIsNothingElse DEF Readiness, ValidErrorOrNone, SafeErrors, GraphOrAssetErrors
<1>9. witness # Nil
  BY <1>2, NilIsNothingElse
<1> HIDE DEF witness, applied, readiness, error, state
<1>10. ValidWitness(witness)
  <2>1. witness.generation > 0 /\ witness.revision > 0
    BY <1>1, <1>2, BoundsAssumption DEF Witness
  <2>2. /\ ValidLayer(witness.cover)
        /\ witness.active = witness.cover.enabled /\ witness.revision = witness.cover.revision
    BY <1>1, <1>4, CoverPasses DEF LayerOf
  <2>3. ValidLayer(witness.watermark) /\ ValidPipeline(witness.pipeline)
    BY <1>4 DEF Reporting, ValidLayer, Watermark, ValidPipeline, PipelineOf
  <2> QED
    BY <1>4, <2>1, <2>2, <2>3 DEF ValidWitness
<1>11. SeenBy(state, witness)
  BY <1>4, <1>5 DEF SeenBy
<1>12. WitnessedKnown(state)
  <2>1. state.cover = [enabled |-> applied.active, revision |-> applied.revision,
                       variant |-> applied.variant]
    BY <1>5, <1>6 DEF LayerOf
  <2>2. state.readiness = "ready" =>
          /\ state.desired.active = applied.active
          /\ state.desired.revision = applied.revision
          /\ state.desired.variant = applied.variant
    BY <1>5, <1>6, <1>8 DEF DesiredOf
  <2> QED
    BY <1>4, <1>5, <1>6, <1>9, <1>10, <1>11, <2>1, <2>2 DEF WitnessedKnown
<1>13. ValidRuntimeReport(Stream, state) /\ ValidRuntimeState(state)
  BY <1>1, <1>7, <1>8, <1>12, StatePasses DEF state
<1> QED
  BY <1>3, <1>5, <1>9, <1>11, <1>13 DEF readiness, error, applied, witness

\* And while it does not: what was good last.
LEMMA UnknownStatePasses ==
  ASSUME Reporting, ~graph.known
  PROVE  /\ ValidRuntimeReport(Stream, HonestState) /\ ValidRuntimeState(HonestState)
         /\ HonestState.readiness = "unknown" /\ HonestState.applied.state = "unknown"
         /\ HonestState.witness = Nil /\ HonestState.error = "cover_apply_ambiguous"
<1> DEFINE state == StateOf(graph.generation, "unknown", UnknownApplied, graph.desired, Nil,
                            "cover_apply_ambiguous")
<1>1. HonestState = state
  BY DEF HonestState
<1>2. /\ state.readiness = "unknown" /\ state.applied = UnknownApplied
      /\ state.witness = Nil /\ state.error = "cover_apply_ambiguous"
      /\ state.lastGood = graph.lastGood
  BY DEF StateOf
<1>3. UnknownApplied.state = "unknown"
  BY DEF UnknownApplied
<1> HIDE DEF state
<1>4. LastGoodUnknown(state)
  BY <1>2, <1>3 DEF LastGoodUnknown, Reporting
<1>5. /\ "unknown" \in Readiness /\ ValidErrorOrNone("cover_apply_ambiguous")
      /\ "cover_apply_ambiguous" # Nil /\ ValidApplied(UnknownApplied)
      /\ graph.desired \in Cover
  BY NilIsNothingElse DEF Readiness, ValidErrorOrNone, SafeErrors, ValidApplied, Reporting
<1>6. ValidRuntimeReport(Stream, state) /\ ValidRuntimeState(state)
  BY <1>4, <1>5, StatePasses DEF state
<1> QED
  BY <1>1, <1>2, <1>3, <1>6

LEMMA ReportPasses ==
  ASSUME Reporting, TypeOK
  PROVE  ValidRuntimeReport(Stream, HonestState) /\ ValidRuntimeState(HonestState)
BY KnownStatePasses, UnknownStatePasses

\* Whatever it knows, the Encoder speaks of its graph and of what is desired.
LEMMA StateIsOfTheGraph ==
  /\ HonestState.stream = Stream /\ HonestState.jobGeneration = Epoch[graph.owner]
  /\ HonestState.generation = graph.generation
  /\ HonestState.desired = DesiredOf(graph.desired)
  /\ HonestState.coverAsset = AssetOf(graph.desired)
<1>1. ASSUME NEW generation, NEW readiness, NEW applied, NEW cover, NEW witness, NEW error,
             NEW state, state = StateOf(generation, readiness, applied, cover, witness, error)
      PROVE  /\ state.stream = Stream /\ state.jobGeneration = Epoch[graph.owner]
             /\ state.generation = generation
             /\ state.desired = DesiredOf(graph.desired)
             /\ state.coverAsset = AssetOf(graph.desired)
  BY <1>1 DEF StateOf
<1> HIDE DEF StateOf
<1>2. CASE graph.known
  BY <1>1, <1>2 DEF HonestState
<1>3. CASE ~graph.known
  BY <1>1, <1>3 DEF HonestState
<1> QED
  BY <1>2, <1>3

\* A response that describes its state claims one outcome, so what it is valid
\* with is decided by that outcome.
LEMMA StatusFollowsOutcome ==
  ASSUME Reporting, TypeOK, NEW request, request.revision # 0,
         NEW outcome \in {"applied", "ambiguous", "rejected"},
         NEW error, ValidErrorOrNone(error), error = Nil <=> outcome = "applied",
         NEW response, response = ResponseTo(request, outcome, HonestState, error),
         NEW status
  PROVE  /\ response.actual = HonestState /\ response.error = error
         /\ response.requestedRevision = request.revision
         /\ response.actualGeneration = graph.generation
         /\ ValidResponse(status, response) <=>
              \/ status = 200 /\ outcome = "applied" /\ AppliedLinkage(response)
              \/ status = 202 /\ outcome = "ambiguous" /\ AmbiguousActual(response)
              \/ status = 409 /\ outcome = "rejected" /\ error \in FenceErrors
              \/ status = 502 /\ outcome = "rejected" /\ GraphFailureActual(response)
<1> DEFINE state == HonestState
<1>1. /\ state.stream = Stream /\ state.jobGeneration = Epoch[graph.owner]
      /\ state.generation = graph.generation
  BY StateIsOfTheGraph
<1>2. ValidRuntimeState(state)
  BY ReportPasses
<1> HIDE DEF state
<1>3. /\ response.stream = Stream /\ response.jobGeneration = state.jobGeneration
      /\ response.requestedRevision = request.revision
      /\ response.actualGeneration = state.generation
      /\ response.accepted = (outcome # "rejected")
      /\ response.rejected = (outcome = "rejected")
      /\ response.applied = (outcome = "applied")
      /\ response.outcome = outcome /\ response.actual = state /\ response.error = error
  BY DEF ResponseTo, state
<1>4. ResponseDescribesActual(response)
  <2>1. Stream # None /\ state.jobGeneration # 0 /\ state.generation # 0
    BY <1>1, <1>2 DEF ValidRuntimeState
  <2> QED
    BY <1>1, <1>2, <1>3, <2>1 DEF ResponseDescribesActual
<1>5. \A claimed \in {"applied", "ambiguous", "rejected"} :
        ClaimsOutcome(response, claimed) <=> claimed = outcome
  BY <1>3 DEF ClaimsOutcome
<1> QED
  BY <1>1, <1>3, <1>4, <1>5 DEF ValidResponse, state

\* The response to a request that is current and was applied links the request,
\* the state and the witness.
LEMMA AppliedPasses ==
  ASSUME Reporting, TypeOK, graph.known, graph.shown = graph.desired,
         NEW response, response.actual = HonestState,
         response.requestedRevision = graph.desired.revision,
         response.actualGeneration = graph.generation
  PROVE  AppliedLinkage(response)
<1> DEFINE cover == graph.desired
           state == HonestState
           witness == state.witness
           wanted == [enabled |-> state.desired.active, revision |-> response.requestedRevision,
                      variant |-> state.desired.variant]
<1>1. /\ state.readiness = "ready" /\ state.applied = KnownOf(cover)
      /\ state.cover = LayerOf(cover)
      /\ witness = WitnessOf(graph) /\ witness # Nil /\ SeenBy(state, witness)
  BY KnownStatePasses
<1>2. state.desired = DesiredOf(cover) /\ state.coverAsset = AssetOf(cover)
  BY StateIsOfTheGraph
<1> HIDE DEF state
<1>3. witness.generation = graph.generation /\ witness.revision = cover.revision
        /\ witness.active = cover.active
  BY <1>1 DEF WitnessOf
<1>4. state.desired.active = cover.active /\ state.desired.revision = cover.revision
        /\ state.desired.variant = cover.variant
  BY <1>2 DEF DesiredOf
<1>5. wanted = LayerOf(cover)
  BY <1>4 DEF LayerOf
<1>6. wanted.enabled = cover.active /\ wanted.revision = cover.revision
        /\ wanted.variant = cover.variant
  BY <1>5 DEF LayerOf
<1>7. state.applied.state = "known"
      /\ state.applied = [state |-> "known", active |-> wanted.enabled,
                          revision |-> wanted.revision, variant |-> wanted.variant]
  BY <1>1, <1>6 DEF KnownOf
<1>8. witness.cover = LayerOf(cover)
  BY <1>1 DEF SeenBy
<1>9. IF cover.active
        THEN state.coverAsset # Nil /\ state.coverAsset.variant = cover.variant
        ELSE cover.variant = None /\ state.coverAsset = Nil
  <2>1. cover \in Cover
    BY DEF Reporting
  <2>2. ~cover.active => cover.variant = None
    BY <2>1 DEF Cover
  <2> HIDE DEF cover
  <2> QED
    BY <1>2, <2>1, <2>2, AssetPasses DEF ValidCoverAsset
<1> HIDE DEF witness, wanted, cover
<1>10. /\ wanted.enabled = state.desired.active
       /\ wanted = [enabled |-> state.desired.active, revision |-> response.requestedRevision,
                    variant |-> state.desired.variant]
  BY <1>4, <1>6 DEF wanted
<1>11. response.actual = state /\ state.witness = witness
  BY DEF state, witness
<1> QED
  BY <1>1, <1>3, <1>4, <1>5, <1>6, <1>7, <1>8, <1>9, <1>10, <1>11 DEF AppliedLinkage

\* The answer to a request passes with its status and with no other.
LEMMA ResponsePasses ==
  ASSUME Reporting, TypeOK, NEW c \in Sent("apply")
  PROVE  { status \in {200, 202, 404, 409, 502} :
             ValidResponse(status, HonestResponse(c.request)) } = {HonestStatus(c.request)}
<1> DEFINE request == c.request
           response == HonestResponse(request)
           valid == { status \in {200, 202, 404, 409, 502} : ValidResponse(status, response) }
<1>1. PICK a \in Attempts, generation \in 1 .. MaxGeneration, cover \in Cover :
        request = RequestFor(a, generation, cover)
  BY SentApply
<1>2. CoverIn(request) = cover /\ request.revision = cover.revision /\ cover.revision # 0
  BY <1>1, AskedFor, CoverPasses DEF RequestFor
<1> SUFFICES valid = {HonestStatus(request)}
  OBVIOUS
<1> HIDE DEF request, response, valid
<1>3. CASE ~IsCurrent(request)
  <2>1. HonestStatus(request) = 409
    BY <1>3 DEF HonestStatus
  <2>2. response = ResponseTo(request, "rejected", HonestState, "stale_cover_revision")
    BY <2>1 DEF HonestResponse, response
  <2>3. /\ "stale_cover_revision" \in FenceErrors
        /\ "stale_cover_revision" \notin GraphOrAssetErrors
        /\ "stale_cover_revision" # Nil /\ ValidErrorOrNone("stale_cover_revision")
    BY NilIsNothingElse DEF FenceErrors, GraphOrAssetErrors, SafeErrors, ValidErrorOrNone
  <2>4. ASSUME NEW status
        PROVE  ValidResponse(status, response) <=> status = 409
    <3>1. /\ response.error = "stale_cover_revision"
          /\ ValidResponse(status, response) <=>
              \/ status = 200 /\ "rejected" = "applied" /\ AppliedLinkage(response)
              \/ status = 202 /\ "rejected" = "ambiguous" /\ AmbiguousActual(response)
              \/ status = 409 /\ "rejected" = "rejected" /\ "stale_cover_revision" \in FenceErrors
              \/ status = 502 /\ "rejected" = "rejected" /\ GraphFailureActual(response)
      BY <1>2, <2>2, <2>3, StatusFollowsOutcome
    <3>2. ~GraphFailureActual(response)
      BY <2>3, <3>1 DEF GraphFailureActual
    <3> QED
      BY <2>3, <3>1, <3>2
  <2> QED
    BY <2>1, <2>4 DEF valid
<1>4. CASE IsCurrent(request) /\ ~graph.known
  <2>1. HonestStatus(request) = 202
    BY <1>4 DEF HonestStatus
  <2>2. response = ResponseTo(request, "ambiguous", HonestState, "cover_apply_ambiguous")
    BY <2>1 DEF HonestResponse, response
  <2>3. "cover_apply_ambiguous" # Nil /\ ValidErrorOrNone("cover_apply_ambiguous")
    BY NilIsNothingElse DEF SafeErrors, ValidErrorOrNone
  <2>4. ASSUME NEW status
        PROVE  ValidResponse(status, response) <=> status = 202
    <3>1. ASSUME NEW outcome, outcome = "ambiguous", NEW error, error = "cover_apply_ambiguous"
          PROVE  /\ response.actual = HonestState /\ response.error = error
                 /\ ValidResponse(status, response) <=>
                      \/ status = 200 /\ outcome = "applied" /\ AppliedLinkage(response)
                      \/ status = 202 /\ outcome = "ambiguous" /\ AmbiguousActual(response)
                      \/ status = 409 /\ outcome = "rejected" /\ error \in FenceErrors
                      \/ status = 502 /\ outcome = "rejected" /\ GraphFailureActual(response)
      <4>1. /\ outcome \in {"applied", "ambiguous", "rejected"}
            /\ error = Nil <=> outcome = "applied"
        BY <2>3, <3>1
      <4>2. response = ResponseTo(request, outcome, HonestState, error) /\ ValidErrorOrNone(error)
        BY <2>2, <2>3, <3>1
      <4>3. request.revision # 0
        BY <1>2
      <4> QED
        BY <4>1, <4>2, <4>3, StatusFollowsOutcome
    <3>2. /\ response.actual = HonestState /\ response.error = "cover_apply_ambiguous"
          /\ ValidResponse(status, response) <=> status = 202 /\ AmbiguousActual(response)
      BY <3>1
    <3>3. AmbiguousActual(response)
      <4>1. /\ HonestState.readiness = "unknown" /\ HonestState.applied.state = "unknown"
            /\ HonestState.witness = Nil /\ HonestState.error = "cover_apply_ambiguous"
        BY <1>4, UnknownStatePasses
      <4> QED
        BY <3>2, <4>1 DEF AmbiguousActual
    <3> QED
      BY <3>2, <3>3
  <2> QED
    BY <2>1, <2>4 DEF valid
<1>5. CASE IsCurrent(request) /\ graph.known /\ graph.shown = graph.desired
  <2>1. HonestStatus(request) = 200
    BY <1>5 DEF HonestStatus
  <2>2. response = ResponseTo(request, "applied", HonestState, Nil)
    BY <2>1 DEF HonestResponse, response
  <2>3. ValidErrorOrNone(Nil)
    BY DEF ValidErrorOrNone
  <2>4. request.revision = graph.desired.revision
    BY <1>2, <1>5 DEF IsCurrent
  <2>5. ASSUME NEW status
        PROVE  ValidResponse(status, response) <=> status = 200
    <3>1. /\ response.actual = HonestState
          /\ response.requestedRevision = request.revision
          /\ response.actualGeneration = graph.generation
          /\ ValidResponse(status, response) <=> status = 200 /\ AppliedLinkage(response)
      BY <1>2, <2>2, <2>3, StatusFollowsOutcome
    <3>2. AppliedLinkage(response)
      BY <1>5, <2>4, <3>1, AppliedPasses
    <3> QED
      BY <3>1, <3>2
  <2> QED
    BY <2>1, <2>5 DEF valid
<1>6. CASE IsCurrent(request) /\ graph.known /\ graph.shown # graph.desired
  <2>1. HonestStatus(request) = 502
    BY <1>6 DEF HonestStatus
  <2>2. response = ResponseTo(request, "rejected", HonestState, "cover_graph_unavailable")
    BY <2>1 DEF HonestResponse, response
  <2>3. /\ "cover_graph_unavailable" \in GraphOrAssetErrors
        /\ "cover_graph_unavailable" \notin FenceErrors
        /\ "cover_graph_unavailable" # Nil /\ ValidErrorOrNone("cover_graph_unavailable")
    BY NilIsNothingElse DEF FenceErrors, GraphOrAssetErrors, SafeErrors, ValidErrorOrNone
  <2>4. ASSUME NEW status
        PROVE  ValidResponse(status, response) <=> status = 502
    <3>1. /\ response.actual = HonestState /\ response.error = "cover_graph_unavailable"
          /\ ValidResponse(status, response) <=> status = 502 /\ GraphFailureActual(response)
      BY <1>2, <2>2, <2>3, StatusFollowsOutcome
    <3>2. GraphFailureActual(response)
      BY <1>6, <2>3, <3>1, KnownStatePasses DEF GraphFailureActual
    <3> QED
      BY <3>1, <3>2
  <2> QED
    BY <2>1, <2>4 DEF valid
<1> QED
  BY <1>3, <1>4, <1>5, <1>6

-----------------------------------------------------------------------------
(* There is always a last good cover to fall back on.                      *)

\* Steps that leave the phase of the owner and what was good last alone.
LEMMA LastGoodStays ==
  ASSUME HasLastGood, graph'.lastGood = graph.lastGood,
         graph'.known => graph.known /\ graph'.shown # Nil,
         graph'.owner # Nil /\ attempts'[graph'.owner] = "running" =>
           graph.owner # Nil /\ attempts[graph.owner] = "running"
  PROVE  HasLastGood'
BY DEF HasLastGood

LEMMA InitLastGood == Init => HasLastGood
BY DEF Init, NoGraph, HasLastGood

\* Every step of the Encoder.
LEMMA EncoderLastGood == Inductive /\ HasLastGood /\ EncoderNext => HasLastGood'
<1> SUFFICES ASSUME Inductive, HasLastGood, EncoderNext
             PROVE  HasLastGood'
  OBVIOUS
<1>1. TypeOK /\ OwnerIsBusy /\ GraphIsTrue
  BY DEF Inductive
<1>2. ASSUME graph' = NoGraph
      PROVE  HasLastGood'
  BY <1>2 DEF NoGraph, HasLastGood
<1>3. ASSUME NEW c \in Sent("prepare"), Prepare(c)
      PROVE  HasLastGood'
  <2> DEFINE a == c.request.startID
  <2>1. a \in Attempts
    BY <1>1, SnapshotType
  <2>2. Move(a, "prepared")
    BY <1>3 DEF Prepare
  <2> HIDE DEF a
  <2>3. attempts'[a] # "running"
    BY <1>1, <2>1, <2>2 DEF Move, TypeOK
  <2>4. graph'.owner = a /\ graph'.known = FALSE /\ graph'.lastGood = Nil
    BY <1>3 DEF Prepare, NoGraph, a
  <2> QED
    BY <2>3, <2>4 DEF HasLastGood
<1>4. ASSUME NEW c \in Sent("commit"), NEW path \in Attempts, Commit(c, path)
      PROVE  HasLastGood'
  <2>1. /\ attempts[path] = "prepared" /\ Move(path, "committing")
        /\ graph' = [graph EXCEPT !.generation = 1, !.switching = TRUE]
    BY <1>4 DEF Commit
  <2>2. graph.owner = path
    BY <1>1, <2>1 DEF OwnerIsBusy, Busy
  <2>3. attempts'[path] # "running"
    BY <1>1, <2>1 DEF Move, TypeOK
  <2>4. /\ graph'.owner = graph.owner /\ graph'.known = graph.known
        /\ graph'.shown = graph.shown /\ graph'.lastGood = graph.lastGood
    BY <1>1, <2>1 DEF TypeOK, Graph
  <2> QED
    BY <2>2, <2>3, <2>4 DEF HasLastGood
<1>5. ASSUME NEW a \in Attempts, Run(a)
      PROVE  HasLastGood'
  BY <1>5 DEF Run, HasLastGood
<1>6. ASSUME NEW c \in Sent("apply"), Apply(c)
      PROVE  HasLastGood'
  <2>1. /\ graph' = [graph EXCEPT !.desired = CoverIn(c.request), !.switching = TRUE,
                                  !.known = FALSE]
        /\ attempts' = attempts
    BY <1>6 DEF Apply
  <2>2. graph'.owner = graph.owner /\ graph'.known = FALSE /\ graph'.lastGood = graph.lastGood
    BY <1>1, <2>1 DEF TypeOK, Graph
  <2> QED
    BY <2>1, <2>2, LastGoodStays
<1>7. ASSUME Switch
      PROVE  HasLastGood'
  <2>1. PICK audio \in {graph.audio, 1} :
          graph' = [graph EXCEPT !.shown = graph.desired, !.audio = audio]
    BY <1>7 DEF Switch
  <2>2. graph.switching /\ attempts' = attempts
    BY <1>7 DEF Switch
  <2>3. graph.desired # Nil
    BY <1>1, <2>2, OwnedGraph, NilIsNothingElse DEF NoGraph
  <2>4. /\ graph'.owner = graph.owner /\ graph'.known = graph.known
        /\ graph'.shown = graph.desired /\ graph'.lastGood = graph.lastGood
    BY <1>1, <2>1 DEF TypeOK, Graph
  <2> QED
    BY <2>2, <2>3, <2>4, LastGoodStays
<1>8. ASSUME Observe
      PROVE  HasLastGood'
  <2>1. /\ graph.switching /\ graph.shown # Nil
        /\ graph' = [graph EXCEPT !.switching = FALSE, !.known = TRUE,
                                  !.witness = WitnessOf(graph), !.lastGood = KnownOf(graph.shown)]
    BY <1>8 DEF Observe
  <2>2. graph.shown \in Cover
    BY <1>1, <2>1 DEF TypeOK, Graph, CoverOrNil
  <2>3. KnownOf(graph.shown) # Nil
    <3>1. graph.generation \in 1 .. MaxGeneration
      BY <1>1, <2>1, GenerationType DEF GraphIsTrue
    <3> QED
      BY <1>1, <2>1, <3>1, WitnessType, NilIsNothingElse
  <2>4. graph'.shown = graph.shown /\ graph'.lastGood = KnownOf(graph.shown)
    BY <1>1, <2>1 DEF TypeOK, Graph
  <2> QED
    BY <2>1, <2>2, <2>3, <2>4 DEF HasLastGood
<1>9. ASSUME Replace
      PROVE  HasLastGood'
  <2>1. /\ graph' = [graph EXCEPT !.generation = @ + 1, !.shown = Nil, !.switching = TRUE,
                                  !.known = FALSE]
        /\ attempts' = attempts
    BY <1>9 DEF Replace
  <2>2. graph'.owner = graph.owner /\ graph'.known = FALSE /\ graph'.lastGood = graph.lastGood
    BY <1>1, <2>1 DEF TypeOK, Graph
  <2> QED
    BY <2>1, <2>2, LastGoodStays
<1>10. ASSUME NEW c \in Sent("abort"), NEW path \in Attempts, Abort(c, path)
       PROVE  HasLastGood'
  BY <1>2, <1>10 DEF Abort
<1>11. ASSUME NEW a \in Attempts, End(a)
       PROVE  HasLastGood'
  BY <1>2, <1>11 DEF End
<1> QED
  BY <1>3, <1>4, <1>5, <1>6, <1>7, <1>8, <1>9, <1>10, <1>11 DEF EncoderNext

LEMMA NextLastGood == Inductive /\ HasLastGood /\ [Next]_vars => HasLastGood'
<1> SUFFICES ASSUME HasLastGood, UNCHANGED <<attempts, graph>>
             PROVE  HasLastGood'
  <2>1. PanelNext => UNCHANGED <<attempts, graph>>
    BY DEF PanelNext, SendPrepare, SendCommit, SendAbort, SendApply, Send
  <2>2. AnswerNext => UNCHANGED <<attempts, graph>>
    BY DEF AnswerNext, AcceptStatus, AcceptState, AcceptApplied, Believe
  <2> QED
    BY <2>1, <2>2, EncoderLastGood DEF Next, vars
<1> QED
  BY DEF HasLastGood

\* While a stream runs and its audio was never interrupted, the Encoder always
\* has a state ValidateVideoCoverRuntimeState lets through, and an answer to
\* every request that ValidateVideoCoverApplyResponse lets through with exactly
\* the status that tells what became of it.
THEOREM AlwaysReportableHolds == Spec => []AlwaysReportable
<1>1. Init => Inductive /\ HasLastGood
  BY InitInductive, InitLastGood
<1>2. Inductive /\ HasLastGood /\ [Next]_vars => (Inductive /\ HasLastGood)'
  BY NextInductive, NextLastGood
<1>3. Inductive /\ HasLastGood => AlwaysReportable
  <2> SUFFICES ASSUME Inductive, HasLastGood, graph.owner # Nil,
                      attempts[graph.owner] = "running", graph.audio = 0
               PROVE  /\ ValidRuntimeReport(Stream, HonestState)
                      /\ \A c \in Sent("apply") :
                           { status \in {200, 202, 404, 409, 502} :
                               ValidResponse(status, HonestResponse(c.request)) }
                             = {HonestStatus(c.request)}
    BY DEF AlwaysReportable
  <2>1. TypeOK /\ OwnerIsBusy
    BY DEF Inductive
  <2>2. graph.owner \in Attempts /\ graph.desired \in Cover
    BY <2>1, OwnedGraph DEF NoGraph
  <2>3. graph \in Graph /\ graph.generation > 0
    <3>1. graph.generation \in Nat /\ graph.generation # 0
      BY <2>1, <2>2 DEF TypeOK, Graph, OwnerIsBusy, Busy
    <3> QED
      BY <2>1, <3>1 DEF TypeOK
  <2>4. Reporting
    BY <2>2, <2>3 DEF Reporting, HasLastGood
  <2> QED
    BY <2>1, <2>4, ReportPasses, ResponsePasses
<1> QED
  BY <1>1, <1>2, <1>3, PTL DEF Spec
=============================================================================
