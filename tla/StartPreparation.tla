-------------------------- MODULE StartPreparation --------------------------
(***************************************************************************)
(* The start of a stream in two steps, prepare and commit: which documents *)
(* of it the decoders accept.  Here the JSON Schemas say more than the Go  *)
(* code, and what they say is part of the definitions.                     *)
(***************************************************************************)
EXTENDS VideoCover

Phases == {"prepared", "committing", "running", "aborted", "expired", "failed"}

\* The identity of one attempt to start a stream.
ValidIdentity(identity) ==
  /\ ValidIdentifier(identity.stream) /\ ValidIdentifier(identity.service)
  /\ ValidIdentifier(identity.archive)
  /\ identity.jobGeneration >= 1

\* The cover a stream is to start with.
ValidSnapshot(snapshot) ==
  /\ snapshot.jobGeneration >= 1 /\ snapshot.revision >= 1
  /\ ValidIdempotencyKey(snapshot.key)
  /\ IF snapshot.active
       THEN ValidCoverAsset(snapshot.coverAsset) /\ snapshot.coverAsset.readiness = "ready"
       ELSE snapshot.coverAsset = Nil

\* The request to prepare a start.  A dry run and a start without a cover
\* snapshot are not prepared.
ValidPreparation(request) ==
  /\ request.schemaVersion = 2
  /\ ValidIdentifier(request.service)
  /\ request.start.archive # Nil /\ request.start.ingestToken # Nil
  /\ request.start.workerIngest /\ ~request.start.dryRun
  /\ request.start.snapshot # Nil /\ ValidSnapshot(request.start.snapshot)

\* Mutant of ValidAction: the attempt in the body is not compared.
ActionOfTheStream(action, stream, startID) ==
  action.schemaVersion = 2 /\ action.stream = stream

\* A commit or an abort of the attempt in the path.
ValidAction(action, stream, startID) ==
  /\ action.schemaVersion = 2
  /\ ValidIdentifier(action.service) /\ action.jobGeneration >= 1
  /\ action.stream = stream /\ action.startID = startID

\* The answer to a prepare: expiresAt is Nil when it is the zero time.
ValidPrepared(prepared, expected) ==
  /\ prepared.schemaVersion = 2 /\ prepared.phase = "prepared"
  /\ ValidIdentity(prepared.identity)
  /\ prepared.identity = expected
  /\ prepared.expiresAt # Nil

ProcessRuns(process, stream) ==
  /\ process # Nil
  /\ process.status = "running" /\ process.stream = stream /\ process.videoIngest = Nil

CoverIsReady(cover, expected) ==
  /\ cover # Nil
  /\ cover.readiness = "ready" /\ cover.applied.state = "known" /\ cover.witness # Nil
  /\ cover.jobGeneration = expected.jobGeneration
  /\ ValidRuntimeReport(expected.stream, cover)

\* Mutant of ValidStatus: any attempt of the stream and epoch will do.
StatusOfTheEpoch(status, expected) ==
  /\ status.identity.stream = expected.stream
  /\ IF status.phase = "running"
       THEN ProcessRuns(status.process, expected.stream) /\ CoverIsReady(status.coverState, expected)
       ELSE status.process = Nil /\ status.coverState = Nil

\* The status of an attempt.  Only a running one has a process and a cover.
ValidStatus(status, expected) ==
  /\ status.schemaVersion = 2 /\ status.phase \in Phases
  /\ ValidIdentity(status.identity)
  /\ status.identity = expected
  /\ IF status.phase = "running"
       THEN ProcessRuns(status.process, expected.stream) /\ CoverIsReady(status.coverState, expected)
       ELSE status.process = Nil /\ status.coverState = Nil
=============================================================================
