-------------------------- MODULE ArtifactAssembly --------------------------
(***************************************************************************)
(* The generated artifacts and the scripts that write and verify them:     *)
(* src/scripts/ci/artifact_assembly.py, with --write, without, and of a    *)
(* --tree, and src/scripts/assemble-control-api.py, which writes the first *)
(* artifact only.  Fragments are read, and artifacts written, one by one   *)
(* while the author goes on editing; a file is cut off when it is opened   *)
(* and filled afterwards, and a script may die between any two steps.      *)
(*                                                                         *)
(* A text is the number of edits its fragment has had, so an author never  *)
(* restores an earlier one; an artifact is the sequence of the texts it    *)
(* was assembled from.  One script writes at a time.  The manifest does    *)
(* not change, and its checks of paths and sizes are left out.             *)
(***************************************************************************)
EXTENDS Naturals, Sequences

CONSTANTS
  Runs,           \* runs of a script
  Outputs,        \* the artifacts, in the order of the manifest
  Fragments,      \* the fragments, in the order they are read
  FragmentsOf,    \* the fragments of each artifact, in order
  MaxEdits,       \* bound: changes by the author
  MaxCrashes      \* bound: scripts that die

VARIABLES
  files,          \* the working directory: texts, an unlisted fragment, artifacts
  runs,           \* what each run has read, and where it is
  edits, crashes

vars == <<files, runs, edits, crashes>>

Fragment == { Fragments[i] : i \in DOMAIN Fragments }
Artifact == { Outputs[i] : i \in DOMAIN Outputs }

ASSUME ManifestAssumption ==
  /\ Fragments \in Seq(Fragment)
  /\ Outputs \in Seq(Artifact) /\ Len(Outputs) > 0
  /\ \A i, j \in DOMAIN Outputs : Outputs[i] = Outputs[j] => i = j
  /\ \A o \in Artifact : FragmentsOf[o] \in Seq(Fragment)

ASSUME BoundsAssumption == MaxEdits \in Nat /\ MaxCrashes \in Nat

Broken == <<>>    \* an artifact no assembly makes: cut off, or edited by hand

Modes == {"write", "check", "tree", "control-api"}
Writes(mode) == mode \in {"write", "control-api"}

Assembled(text, output) ==
  [i \in DOMAIN FragmentsOf[output] |-> text[FragmentsOf[output][i]]]

Written(mode) == IF mode = "control-api" THEN 1 ELSE Len(Outputs)

LivePlaces == {"assembling", "writing", "filling", "verifying", "comparing"}
IsLive(r) == runs[r].place \in LivePlaces

Directory(text, unlisted, artifacts) ==
  [text |-> text, unlisted |-> unlisted, artifacts |-> artifacts]

\* between is the working directory after the first assembly, disturbed is
\* whether others have changed it during the run: both are observed by
\* properties only.
Run(mode, place, next, text, start, between, disturbed) ==
  [mode |-> mode, place |-> place, next |-> next, text |-> text, start |-> start,
   between |-> between, disturbed |-> disturbed]

\* A tree is read as it was committed, the working directory as it is.
Seen(r) == IF runs[r].mode = "tree" THEN runs[r].start ELSE files

-----------------------------------------------------------------------------
Init ==
  LET text == [f \in Fragment |-> 0]
  IN /\ files = Directory(text, FALSE, [o \in Artifact |-> Assembled(text, o)])
     /\ runs = [r \in Runs |-> Run("check", "none", 1, text, files, files, FALSE)]
     /\ edits = 0
     /\ crashes = 0

Start(r, mode) ==
  /\ runs[r].place = "none"
  /\ Writes(mode) => \A q \in Runs : IsLive(q) => ~Writes(runs[q].mode)
  /\ runs' = [runs EXCEPT ![r] =
       Run(mode, IF Writes(mode) THEN "assembling" ELSE "verifying", 1,
           files.text, files, files, FALSE)]
  /\ UNCHANGED <<files, edits, crashes>>

\* The run goes on with what it has read.
Goes(run, place, next) ==
  Run(run.mode, place, next, run.text, run.start, run.between, run.disturbed)

Assembles(r) == runs[r].place \in {"assembling", "verifying"}

ReadFragment(r) ==
  /\ Assembles(r)
  /\ runs[r].next <= Len(Fragments)
  /\ LET run == runs[r]
         f   == Fragments[run.next]
     IN runs' = [runs EXCEPT ![r] =
          Run(run.mode, run.place, run.next + 1, [run.text EXCEPT ![f] = Seen(r).text[f]],
              run.start, run.between, run.disturbed)]
  /\ UNCHANGED <<files, edits, crashes>>

\* The last check of assemble: there is no fragment the manifest does not list.
EndAssembly(r) ==
  /\ Assembles(r)
  /\ runs[r].next > Len(Fragments)
  /\ LET run == runs[r]
     IN \/ /\ Seen(r).unlisted
           /\ runs' = [runs EXCEPT ![r] = Goes(run, "failed", 1)]
        \/ /\ ~Seen(r).unlisted /\ run.place = "assembling"
           /\ runs' = [runs EXCEPT ![r] =
                Run(run.mode, "writing", 1, run.text, run.start, files, run.disturbed)]
        \/ /\ ~Seen(r).unlisted /\ run.place = "verifying"
           /\ runs' = [runs EXCEPT ![r] = Goes(run, "comparing", 1)]
  /\ UNCHANGED <<files, edits, crashes>>

Disturbed(run) ==
  IF run.place \in LivePlaces
    THEN Run(run.mode, run.place, run.next, run.text, run.start, run.between, TRUE)
    ELSE run

\* Mutant of Reread: what was assembled to be written is compared with.
RereadNothing(run) == Goes(run, "verifying", Len(Fragments) + 1)

\* verify assembles again, from the files.
Reread(run) == Goes(run, "verifying", 1)

\* Mutant of AfterWrite: the last artifact is left out.
AfterWriteOfAllButOne(run) ==
  IF run.next + 1 < Written(run.mode) THEN Goes(run, "writing", run.next + 1)
  ELSE IF run.mode = "write" THEN Reread(run) ELSE Goes(run, "reported", 1)

AfterWrite(run) ==
  IF run.next < Written(run.mode) THEN Goes(run, "writing", run.next + 1)
  ELSE IF run.mode = "write" THEN Reread(run) ELSE Goes(run, "reported", 1)

SetArtifact(output, bytes) ==
  files' = Directory(files.text, files.unlisted, [files.artifacts EXCEPT ![output] = bytes])

\* Whoever else looks at the working directory sees it change.
Others(r, run) == [q \in Runs |-> IF q = r THEN run ELSE Disturbed(runs[q])]

\* write_bytes opens the file, which empties it, and then fills it.
OpenArtifact(r) ==
  /\ runs[r].place = "writing"
  /\ SetArtifact(Outputs[runs[r].next], Broken)
  /\ runs' = Others(r, Goes(runs[r], "filling", runs[r].next))
  /\ UNCHANGED <<edits, crashes>>

FillArtifact(r) ==
  /\ runs[r].place = "filling"
  /\ LET output == Outputs[runs[r].next]
     IN SetArtifact(output, Assembled(runs[r].text, output))
  /\ runs' = Others(r, AfterWrite(runs[r]))
  /\ UNCHANGED <<edits, crashes>>

Compare(r) ==
  /\ runs[r].place = "comparing"
  /\ LET run    == runs[r]
         output == Outputs[run.next]
         equal  == Seen(r).artifacts[output] = Assembled(run.text, output)
     IN \/ /\ ~equal
           /\ runs' = [runs EXCEPT ![r] = Goes(run, "failed", 1)]
        \/ /\ equal /\ run.next < Len(Outputs)
           /\ runs' = [runs EXCEPT ![r] = Goes(run, "comparing", run.next + 1)]
        \/ /\ equal /\ run.next = Len(Outputs)
           /\ runs' = [runs EXCEPT ![r] = Goes(run, "reported", 1)]
  /\ UNCHANGED <<files, edits, crashes>>

\* A script dies, and leaves its files as they are.
Die(r) ==
  /\ IsLive(r)
  /\ crashes < MaxCrashes
  /\ runs' = [runs EXCEPT ![r] = Goes(runs[r], "dead", 1)]
  /\ crashes' = crashes + 1
  /\ UNCHANGED <<files, edits>>

\* The author changes a fragment, adds or removes one the manifest does not
\* list, or edits an artifact by hand.
Edit ==
  /\ edits < MaxEdits
  /\ \/ \E f \in Fragment :
          files' = Directory([files.text EXCEPT ![f] = @ + 1], files.unlisted, files.artifacts)
     \/ files' = Directory(files.text, ~files.unlisted, files.artifacts)
     \/ \E output \in Artifact : SetArtifact(output, Broken)
  /\ runs' = [q \in Runs |-> Disturbed(runs[q])]
  /\ edits' = edits + 1
  /\ UNCHANGED crashes

Next ==
  \/ \E r \in Runs :
       \/ \E mode \in Modes : Start(r, mode)
       \/ ReadFragment(r)
       \/ EndAssembly(r)
       \/ OpenArtifact(r)
       \/ FillArtifact(r)
       \/ Compare(r)
       \/ Die(r)
  \/ Edit

Spec == Init /\ [][Next]_vars

-----------------------------------------------------------------------------
(* Properties.                                                             *)

\* The artifacts of a directory are those of its fragments.
Consistent(directory) ==
  /\ ~directory.unlisted
  /\ \A o \in Artifact : directory.artifacts[o] = Assembled(directory.text, o)

\* What is reported as verified was assembled from the fragments of one moment,
\* however the author edited in between: of a tree, the commit itself; of a
\* --write, the moment between the two assemblies; of a working directory that
\* was left alone, that directory (artifact_assembly.py, verify).
ReportIsTrue ==
  \A r \in Runs : runs[r].place = "reported" =>
    /\ runs[r].mode = "tree" => Consistent(runs[r].start)
    /\ runs[r].mode = "check" => runs[r].disturbed \/ Consistent(runs[r].start)
    /\ runs[r].mode = "write" =>
         \A o \in Artifact : Assembled(runs[r].text, o) = Assembled(runs[r].between.text, o)

\* A script that nobody disturbs fails only for a reason that was there when it
\* began; --write repairs whatever the author or a script that died has left,
\* but for a fragment nobody lists (artifact_assembly.py, main).
FailureIsTrue ==
  \A r \in Runs : runs[r].place = "failed" =>
    \/ runs[r].mode # "tree" /\ runs[r].disturbed
    \/ runs[r].start.unlisted
    \/ ~Writes(runs[r].mode) /\ ~Consistent(runs[r].start)

-----------------------------------------------------------------------------
(* The inductive invariant.                                                *)

Texts == [Fragment -> Nat]
Directories == [text: Texts, unlisted: BOOLEAN, artifacts: [Artifact -> Seq(Nat)]]
Places == LivePlaces \cup {"none", "reported", "failed", "dead"}

TypeOK ==
  /\ files \in Directories
  /\ runs \in [Runs -> [mode: Modes, place: Places, next: Nat \ {0}, text: Texts,
                        start: Directories, between: Directories, disturbed: BOOLEAN]]
  /\ edits \in Nat
  /\ crashes \in Nat

\* Where a run can be, by what it was started for.
InPlace(run) ==
  /\ run.place \in {"assembling", "writing", "filling"} => Writes(run.mode)
  /\ run.place \in {"verifying", "comparing"} => run.mode # "control-api"
  /\ run.place \in {"assembling", "verifying"} => run.next <= Len(Fragments) + 1
  /\ run.place \in {"writing", "filling"} => run.next <= Written(run.mode)
  /\ run.place = "comparing" => run.next <= Len(Outputs)

OneWriter ==
  \A p, q \in Runs :
    IsLive(p) /\ IsLive(q) /\ Writes(runs[p].mode) /\ Writes(runs[q].mode) => p = q

\* Nobody has changed what this run reads: what it has read is what there was.
LeftAlone(run) == run.mode = "tree" \/ ~run.disturbed

SameFiles(run, dir) ==
  run.mode # "tree" =>
    /\ dir.text = run.start.text
    /\ dir.unlisted = run.start.unlisted
    /\ ~Writes(run.mode) => dir.artifacts = run.start.artifacts

Repaired(run, dir) ==
  /\ run.place \in {"writing", "filling"} =>
       \A j \in 1 .. run.next - 1 :
         dir.artifacts[Outputs[j]] = Assembled(run.start.text, Outputs[j])
  /\ run.mode = "write" /\ run.place \in {"verifying", "comparing"} =>
       \A o \in Artifact : dir.artifacts[o] = Assembled(run.start.text, o)

ReadAsStarted(run) ==
  /\ run.place \in {"assembling", "verifying"} =>
       \A i \in 1 .. run.next - 1 : run.text[Fragments[i]] = run.start.text[Fragments[i]]
  /\ run.place \in {"writing", "filling", "comparing"} =>
       run.text = run.start.text /\ ~run.start.unlisted
  /\ run.place = "comparing" /\ run.mode # "write" =>
       \A j \in 1 .. run.next - 1 :
         run.start.artifacts[Outputs[j]] = Assembled(run.text, Outputs[j])

FailsForAReason(run) ==
  run.place = "failed" =>
    run.start.unlisted \/ (~Writes(run.mode) /\ ~Consistent(run.start))

Honest(run, dir) ==
  LeftAlone(run) =>
    /\ run.place \in LivePlaces =>
         SameFiles(run, dir) /\ Repaired(run, dir) /\ ReadAsStarted(run)
    /\ FailsForAReason(run)
    /\ run.place = "reported" /\ run.mode \in {"check", "tree"} => Consistent(run.start)

\* No part of an artifact is newer than a text.
NotAhead(bytes, text, output) ==
  bytes = Broken \/ \A i \in DOMAIN FragmentsOf[output] :
                      bytes[i] <= text[FragmentsOf[output][i]]

\* A fragment that has the same text in both assemblies of a --write has had it
\* in between.
TwiceCollected(run, dir) ==
  run.mode = "write" =>
    /\ run.place = "assembling" =>
         \A i \in 1 .. run.next - 1 : run.text[Fragments[i]] <= dir.text[Fragments[i]]
    /\ run.place \in {"writing", "filling", "verifying", "comparing"} =>
         \A f \in Fragment : run.between.text[f] <= dir.text[f]
    /\ run.place \in {"writing", "filling"} =>
         /\ \A f \in Fragment : run.text[f] <= run.between.text[f]
         /\ \A j \in 1 .. run.next - 1 :
              NotAhead(dir.artifacts[Outputs[j]], run.between.text, Outputs[j])
    /\ run.place \in {"verifying", "comparing"} =>
         \A o \in Artifact : NotAhead(dir.artifacts[o], run.between.text, o)
    /\ run.place = "verifying" =>
         \A i \in 1 .. run.next - 1 : run.between.text[Fragments[i]] <= run.text[Fragments[i]]
    /\ run.place = "comparing" =>
         /\ \A f \in Fragment : run.between.text[f] <= run.text[f]
         /\ \A j \in 1 .. run.next - 1 :
              Assembled(run.text, Outputs[j]) = Assembled(run.between.text, Outputs[j])
    /\ run.place = "reported" =>
         \A o \in Artifact : Assembled(run.text, o) = Assembled(run.between.text, o)

\* Types, one writer, and for each run what its readings so far tell of the
\* files (artifact_assembly.py, assemble and verify).
Inductive ==
  /\ TypeOK
  /\ OneWriter
  /\ \A r \in Runs : /\ InPlace(runs[r])
                     /\ Honest(runs[r], files)
                     /\ TwiceCollected(runs[r], files)
=============================================================================
