----------------------- MODULE ArtifactAssemblyProofs -----------------------
(***************************************************************************)
(* What the scripts report is true: proofs that Inductive is an inductive  *)
(* invariant of ArtifactAssembly and implies its two properties.           *)
(*                                                                         *)
(* The lemmas are about one run, as a record, and one directory: what each *)
(* step makes of the run, and what a change of the directory by another    *)
(* does to it.                                                             *)
(***************************************************************************)
EXTENDS ArtifactAssembly, TLAPS

RunRecords ==
  [mode: Modes, place: Places, next: Nat \ {0}, text: Texts,
   start: Directories, between: Directories, disturbed: BOOLEAN]

SeenBy(run, dir) == IF run.mode = "tree" THEN run.start ELSE dir

RunOK(run, dir) ==
  InPlace(run) /\ Honest(run, dir) /\ TwiceCollected(run, dir)

-----------------------------------------------------------------------------
(* Types.                                                                  *)

\* What is assembled from texts is a sequence of them.
LEMMA AssembledType ==
  ASSUME NEW text \in Texts, NEW o \in Artifact
  PROVE  /\ Assembled(text, o) \in Seq(Nat)
         /\ \A i \in DOMAIN FragmentsOf[o] : FragmentsOf[o][i] \in Fragment
<1>1. FragmentsOf[o] \in Seq(Fragment)
  BY ManifestAssumption
<1>2. \A i \in DOMAIN FragmentsOf[o] : FragmentsOf[o][i] \in Fragment
  BY <1>1
<1>3. \A i \in DOMAIN FragmentsOf[o] : text[FragmentsOf[o][i]] \in Nat
  BY <1>2 DEF Texts
<1>4. DOMAIN FragmentsOf[o] = 1 .. Len(FragmentsOf[o]) /\ Len(FragmentsOf[o]) \in Nat
  BY <1>1
<1> QED
  BY <1>2, <1>3, <1>4 DEF Assembled

\* The places of the manifest.
LEMMA ManifestPlaces ==
  /\ Len(Fragments) \in Nat
  /\ Len(Outputs) \in Nat /\ Len(Outputs) > 0
  /\ \A i \in 1 .. Len(Fragments) : Fragments[i] \in Fragment
  /\ \A j \in 1 .. Len(Outputs) : Outputs[j] \in Artifact
  /\ \A i, j \in 1 .. Len(Outputs) : Outputs[i] = Outputs[j] => i = j
  /\ \A f \in Fragment : \E i \in 1 .. Len(Fragments) : f = Fragments[i]
  /\ \A o \in Artifact : \E j \in 1 .. Len(Outputs) : o = Outputs[j]
BY ManifestAssumption DEF Fragment, Artifact

\* A run record is one of its type if its fields are.
LEMMA RunType ==
  ASSUME NEW mode \in Modes, NEW place \in Places, NEW next \in Nat \ {0}, NEW text \in Texts,
         NEW start \in Directories, NEW between \in Directories, NEW disturbed \in BOOLEAN
  PROVE  Run(mode, place, next, text, start, between, disturbed) \in RunRecords
BY DEF Run, RunRecords

\* Going on and being disturbed leave a run a run.
LEMMA GoesType ==
  ASSUME NEW run \in RunRecords, NEW place \in Places, NEW next \in Nat \ {0}
  PROVE  Goes(run, place, next) \in RunRecords /\ Disturbed(run) \in RunRecords
BY RunType DEF Goes, Disturbed, Run, RunRecords

\* So does writing.
LEMMA AfterWriteType ==
  ASSUME NEW run \in RunRecords
  PROVE  AfterWrite(run) \in RunRecords
<1>1. /\ run.next \in Nat \ {0} /\ run.next + 1 \in Nat \ {0} /\ 1 \in Nat \ {0}
      /\ {"writing", "filling", "verifying", "reported"} \subseteq Places
  BY DEF RunRecords, Places, LivePlaces
<1> QED
  BY <1>1, GoesType DEF AfterWrite, Reread

\* The files of a directory with one artifact replaced.
LEMMA DirectoryType ==
  ASSUME NEW dir \in Directories, NEW output \in Artifact, NEW bytes \in Seq(Nat),
         NEW text \in Texts, NEW unlisted \in BOOLEAN
  PROVE  /\ Directory(text, unlisted, [dir.artifacts EXCEPT ![output] = bytes]) \in Directories
         /\ Directory(text, unlisted, dir.artifacts) \in Directories
BY DEF Directory, Directories

-----------------------------------------------------------------------------
(* The directory changes under a run.                                      *)

\* Texts only advance, and nobody but a writer of its own completes an
\* artifact: whatever others change, a run knows what it knew.
LEMMA DisturbedKeeps ==
  ASSUME NEW run \in RunRecords, NEW dir \in Directories, NEW next \in Directories,
         RunOK(run, dir),
         \A f \in Fragment : dir.text[f] <= next.text[f],
         run.place \in LivePlaces /\ Writes(run.mode) =>
           \A o \in Artifact : next.artifacts[o] \in {dir.artifacts[o], Broken}
  PROVE  RunOK(Disturbed(run), next)
<1>1. CASE run.place \notin LivePlaces
  BY <1>1 DEF Disturbed, RunOK, InPlace, Honest, TwiceCollected, FailsForAReason,
              LeftAlone, LivePlaces
<1>2. CASE run.place \in LivePlaces
  <2> DEFINE new == Disturbed(run)
  <2>1. /\ new.mode = run.mode /\ new.place = run.place /\ new.next = run.next
        /\ new.text = run.text /\ new.start = run.start /\ new.between = run.between
        /\ new.disturbed = TRUE
    BY <1>2 DEF Disturbed, Run
  <2>2. InPlace(new)
    BY <2>1 DEF RunOK, InPlace
  <2>3. Honest(new, next)
    <3>1. CASE run.mode = "tree"
      <4>1. Honest(run, dir) /\ InPlace(run)
        BY DEF RunOK
      <4>2. LeftAlone(run) /\ ReadAsStarted(run)
        BY <1>2, <3>1, <4>1 DEF Honest, LeftAlone
      <4>3. SameFiles(new, next)
        BY <2>1, <3>1 DEF SameFiles
      <4>4. Repaired(new, next)
        BY <2>1, <3>1, <4>1 DEF Repaired, InPlace, Writes
      <4>5. ReadAsStarted(new)
        BY <2>1, <4>2 DEF ReadAsStarted
      <4>6. new.place \notin {"failed", "reported"}
        BY <1>2, <2>1 DEF LivePlaces
      <4> QED
        BY <4>3, <4>4, <4>5, <4>6 DEF Honest, FailsForAReason
    <3>2. CASE run.mode # "tree"
      BY <2>1, <3>2 DEF Honest, LeftAlone
    <3> QED BY <3>1, <3>2
  <2>4. TwiceCollected(new, next)
    <3> SUFFICES ASSUME run.mode = "write" PROVE TwiceCollected(new, next)
      BY <2>1 DEF TwiceCollected
    <3>1. \A o \in Artifact : next.artifacts[o] \in {dir.artifacts[o], Broken}
      BY <1>2 DEF Writes
    <3>2. /\ \A f \in Fragment : dir.text[f] \in Nat /\ next.text[f] \in Nat /\ run.text[f] \in Nat
                                 /\ run.between.text[f] \in Nat
          /\ run.next \in Nat \ {0}
      BY DEF Directories, RunRecords, Texts
    <3>3. \A text, o : o \in Artifact /\ NotAhead(dir.artifacts[o], text, o)
                       => NotAhead(next.artifacts[o], text, o)
      BY <3>1 DEF NotAhead
    <3>4. InPlace(run) /\ TwiceCollected(run, dir)
      BY DEF RunOK
    <3>5. CASE run.place = "assembling"
      <4>1. \A i \in 1 .. run.next - 1 : Fragments[i] \in Fragment
        BY <3>2, <3>4, <3>5, ManifestPlaces DEF InPlace
      <4>2. \A i \in 1 .. run.next - 1 : run.text[Fragments[i]] <= dir.text[Fragments[i]]
        BY <3>4, <3>5 DEF TwiceCollected
      <4>3. \A i \in 1 .. run.next - 1 : run.text[Fragments[i]] <= next.text[Fragments[i]]
        BY <3>2, <4>1, <4>2
      <4> QED
        BY <3>5, <4>3, <2>1 DEF TwiceCollected
    <3>6. CASE run.place \in {"writing", "filling"}
      <4>1. \A j \in 1 .. run.next - 1 : Outputs[j] \in Artifact
        BY <3>2, <3>4, <3>6, ManifestPlaces DEF InPlace, Written
      <4> QED
        BY <3>2, <3>3, <3>4, <3>6, <4>1, <2>1 DEF TwiceCollected
    <3>7. CASE run.place \in {"verifying", "comparing"}
      BY <3>2, <3>3, <3>4, <3>7, <2>1 DEF TwiceCollected
    <3> QED BY <1>2, <3>5, <3>6, <3>7 DEF LivePlaces
  <2> QED BY <2>2, <2>3, <2>4 DEF RunOK
<1> QED BY <1>1, <1>2

-----------------------------------------------------------------------------
(* The steps of a run.                                                     *)

\* A run that begins knows nothing yet.
LEMMA StartKeeps ==
  ASSUME NEW dir \in Directories, NEW mode \in Modes
  PROVE  LET run == Run(mode, IF Writes(mode) THEN "assembling" ELSE "verifying", 1,
                        dir.text, dir, dir, FALSE)
         IN run \in RunRecords /\ RunOK(run, dir)
<1> DEFINE place == IF Writes(mode) THEN "assembling" ELSE "verifying"
           run == Run(mode, place, 1, dir.text, dir, dir, FALSE)
<1>1. place \in Places /\ dir.text \in Texts /\ 1 \in Nat \ {0}
  BY DEF Places, LivePlaces, Directories
<1>2. run \in RunRecords
  BY <1>1, RunType
<1>3. /\ run.mode = mode /\ run.place = place /\ run.next = 1 /\ run.start = dir
      /\ 1 .. run.next - 1 = {}
  BY DEF Run
<1>4. InPlace(run)
  <2>1. /\ place \in {"assembling", "verifying"}
        /\ place = "assembling" <=> Writes(mode)
        /\ mode = "control-api" => Writes(mode)
    BY DEF Writes
  <2> HIDE DEF place, run
  <2>2. Len(Fragments) \in Nat
    BY ManifestPlaces
  <2>3. run.next <= Len(Fragments) + 1
    BY <1>3, <2>2
  <2> QED
    BY <1>3, <2>1, <2>3 DEF InPlace
<1>5. Honest(run, dir)
  <2>1. SameFiles(run, dir) /\ ReadAsStarted(run)
    BY <1>3 DEF SameFiles, ReadAsStarted
  <2>2. Repaired(run, dir)
    BY <1>3 DEF Repaired, Writes
  <2> QED BY <1>3, <2>1, <2>2 DEF Honest, FailsForAReason
<1>6. TwiceCollected(run, dir)
  BY <1>3 DEF TwiceCollected, Writes
<1> QED BY <1>2, <1>4, <1>5, <1>6 DEF RunOK

\* Nothing is claimed of a run whose script is dead.
LEMMA DeadKeeps ==
  ASSUME NEW run \in RunRecords, NEW dir
  PROVE  Goes(run, "dead", 1) \in RunRecords /\ RunOK(Goes(run, "dead", 1), dir)
<1>1. Goes(run, "dead", 1) \in RunRecords
  BY GoesType DEF Places
<1>2. Goes(run, "dead", 1).place = "dead"
  BY DEF Goes, Run
<1> QED
  BY <1>1, <1>2 DEF RunOK, InPlace, Honest, TwiceCollected, FailsForAReason, LivePlaces

\* A fragment is read as it is now, and as it was at the start if nobody has
\* changed it.
LEMMA ReadKeeps ==
  ASSUME NEW run \in RunRecords, NEW dir \in Directories, RunOK(run, dir),
         run.place \in {"assembling", "verifying"}, run.next <= Len(Fragments)
  PROVE  LET f   == Fragments[run.next]
             new == Run(run.mode, run.place, run.next + 1,
                        [run.text EXCEPT ![f] = SeenBy(run, dir).text[f]],
                        run.start, run.between, run.disturbed)
         IN new \in RunRecords /\ RunOK(new, dir)
<1> DEFINE f == Fragments[run.next]
           text == [run.text EXCEPT ![f] = SeenBy(run, dir).text[f]]
           new == Run(run.mode, run.place, run.next + 1, text,
                      run.start, run.between, run.disturbed)
<1>1. /\ run.mode \in Modes /\ run.place \in Places /\ run.next \in Nat \ {0}
      /\ run.next + 1 \in Nat \ {0} /\ run.text \in Texts
      /\ run.start \in Directories /\ run.between \in Directories /\ run.disturbed \in BOOLEAN
  BY DEF RunRecords
<1>2. f \in Fragment /\ SeenBy(run, dir).text \in Texts
  BY <1>1, ManifestPlaces DEF SeenBy, Directories
<1>3. text \in Texts /\ \A g \in Fragment : text[g] = IF g = f THEN SeenBy(run, dir).text[f]
                                                      ELSE run.text[g]
  BY <1>1, <1>2 DEF Texts
<1>4. new \in RunRecords
  BY <1>1, <1>3, RunType
<1>5. /\ new.mode = run.mode /\ new.place = run.place /\ new.next = run.next + 1
      /\ new.text = text /\ new.start = run.start /\ new.between = run.between
      /\ new.disturbed = run.disturbed
  BY DEF Run
<1>6. \A i \in 1 .. new.next - 1 :
        /\ Fragments[i] \in Fragment
        /\ i \in 1 .. run.next - 1 \/ Fragments[i] = f
  BY <1>1, <1>5, ManifestPlaces
<1>7. /\ InPlace(run) /\ Honest(run, dir) /\ TwiceCollected(run, dir)
  BY DEF RunOK
<1> HIDE DEF text, f, new
<1>8. InPlace(new)
  <2>1. new.next <= Len(Fragments) + 1
    BY <1>1, <1>5, ManifestPlaces
  <2> QED BY <1>5, <1>7, <2>1 DEF InPlace
<1>9. Honest(new, dir)
  <2> SUFFICES ASSUME LeftAlone(run) PROVE Honest(new, dir)
    BY <1>5 DEF Honest, LeftAlone
  <2>1. SameFiles(run, dir) /\ Repaired(run, dir) /\ ReadAsStarted(run)
    BY <1>7 DEF Honest, LivePlaces
  <2>2. SeenBy(run, dir).text = run.start.text
    BY <2>1 DEF SeenBy, SameFiles
  <2>3. \A i \in 1 .. new.next - 1 : text[Fragments[i]] = run.start.text[Fragments[i]]
    BY <1>3, <1>6, <2>1, <2>2 DEF ReadAsStarted
  <2>4. SameFiles(new, dir)
    BY <1>5, <2>1 DEF SameFiles
  <2>5. Repaired(new, dir)
    BY <1>5, <2>1 DEF Repaired
  <2>6. ReadAsStarted(new)
    BY <1>5, <2>3 DEF ReadAsStarted
  <2>7. new.place \notin {"failed", "reported"}
    BY <1>5
  <2> QED BY <2>4, <2>5, <2>6, <2>7 DEF Honest, FailsForAReason
<1>10. TwiceCollected(new, dir)
  <2> SUFFICES ASSUME run.mode = "write" PROVE TwiceCollected(new, dir)
    BY <1>5 DEF TwiceCollected
  <2>1. SeenBy(run, dir) = dir
    BY DEF SeenBy
  <2>2. \A g \in Fragment : dir.text[g] \in Nat
    BY DEF Directories, Texts
  <2>3. CASE run.place = "assembling"
    <3>1. \A i \in 1 .. run.next - 1 : run.text[Fragments[i]] <= dir.text[Fragments[i]]
      BY <1>7, <2>3 DEF TwiceCollected
    <3>2. \A i \in 1 .. new.next - 1 : text[Fragments[i]] <= dir.text[Fragments[i]]
      BY <1>3, <1>6, <2>1, <2>2, <3>1
    <3> QED BY <1>5, <2>3, <3>2 DEF TwiceCollected
  <2>4. CASE run.place = "verifying"
    <3>1. /\ \A g \in Fragment : run.between.text[g] <= dir.text[g]
          /\ \A o \in Artifact : NotAhead(dir.artifacts[o], run.between.text, o)
          /\ \A i \in 1 .. run.next - 1 : run.between.text[Fragments[i]] <= run.text[Fragments[i]]
      BY <1>7, <2>4 DEF TwiceCollected
    <3>2. \A i \in 1 .. new.next - 1 : run.between.text[Fragments[i]] <= text[Fragments[i]]
      BY <1>3, <1>6, <2>1, <2>2, <3>1
    <3> QED BY <1>5, <2>4, <3>1, <3>2 DEF TwiceCollected
  <2> QED BY <2>3, <2>4
<1> QED BY <1>4, <1>8, <1>9, <1>10 DEF RunOK, new, text, f

\* A text read to its end is the text there was at the start, if nobody has
\* changed it.
LEMMA WholeText ==
  ASSUME NEW run \in RunRecords, NEW text \in Texts, run.next > Len(Fragments),
         \A i \in 1 .. run.next - 1 : i <= Len(Fragments) => run.text[Fragments[i]] = text[Fragments[i]]
  PROVE  run.text = text
<1>1. \A f \in Fragment : run.text[f] = text[f]
  <2> TAKE f \in Fragment
  <2>1. PICK i \in 1 .. Len(Fragments) : f = Fragments[i]
    BY ManifestPlaces
  <2>2. i \in 1 .. run.next - 1 /\ i <= Len(Fragments)
    BY <2>1, ManifestPlaces DEF RunRecords
  <2> QED BY <2>1, <2>2
<1>2. run.text \in Texts
  BY DEF RunRecords
<1> QED BY <1>1, <1>2 DEF Texts

\* Texts that are in order on every place read are in order everywhere.
LEMMA WholeOrder ==
  ASSUME NEW run \in RunRecords, run.next > Len(Fragments), NEW older, NEW newer,
         \A i \in 1 .. run.next - 1 : older[Fragments[i]] <= newer[Fragments[i]]
  PROVE  \A f \in Fragment : older[f] <= newer[f]
<1> TAKE f \in Fragment
<1>1. PICK i \in 1 .. Len(Fragments) : f = Fragments[i]
  BY ManifestPlaces
<1>2. i \in 1 .. run.next - 1
  BY <1>1, ManifestPlaces DEF RunRecords
<1> QED BY <1>1, <1>2

\* When every fragment is read, the run fails for an unlisted one, writes what
\* it has read, or compares it.
LEMMA EndKeeps ==
  ASSUME NEW run \in RunRecords, NEW dir \in Directories, RunOK(run, dir),
         run.place \in {"assembling", "verifying"}, run.next > Len(Fragments)
  PROVE  /\ SeenBy(run, dir).unlisted =>
              LET new == Goes(run, "failed", 1) IN new \in RunRecords /\ RunOK(new, dir)
         /\ ~SeenBy(run, dir).unlisted /\ run.place = "assembling" =>
              LET new == Run(run.mode, "writing", 1, run.text, run.start, dir, run.disturbed)
              IN new \in RunRecords /\ RunOK(new, dir)
         /\ ~SeenBy(run, dir).unlisted /\ run.place = "verifying" =>
              LET new == Goes(run, "comparing", 1) IN new \in RunRecords /\ RunOK(new, dir)
<1>1. /\ run.mode \in Modes /\ run.next \in Nat \ {0} /\ run.text \in Texts
      /\ run.start \in Directories /\ run.start.text \in Texts
      /\ run.between \in Directories /\ run.disturbed \in BOOLEAN
      /\ {"failed", "writing", "comparing"} \subseteq Places /\ 1 \in Nat \ {0}
  BY DEF RunRecords, Directories, Places, LivePlaces
<1>2. InPlace(run) /\ Honest(run, dir) /\ TwiceCollected(run, dir)
  BY DEF RunOK
<1>3. LeftAlone(run) =>
        /\ SameFiles(run, dir) /\ Repaired(run, dir)
        /\ run.text = run.start.text
        /\ SeenBy(run, dir).unlisted = run.start.unlisted
  <2> SUFFICES ASSUME LeftAlone(run)
               PROVE  /\ SameFiles(run, dir) /\ Repaired(run, dir)
                      /\ run.text = run.start.text
                      /\ SeenBy(run, dir).unlisted = run.start.unlisted
    OBVIOUS
  <2>1. SameFiles(run, dir) /\ Repaired(run, dir) /\ ReadAsStarted(run)
    BY <1>2 DEF Honest, LivePlaces
  <2>2. run.text = run.start.text
    BY <1>1, <2>1, WholeText DEF ReadAsStarted
  <2>3. SeenBy(run, dir).unlisted = run.start.unlisted
    BY <2>1 DEF SeenBy, SameFiles
  <2> QED BY <2>1, <2>2, <2>3
<1>4. ASSUME SeenBy(run, dir).unlisted
      PROVE  LET new == Goes(run, "failed", 1) IN new \in RunRecords /\ RunOK(new, dir)
  <2> DEFINE new == Goes(run, "failed", 1)
  <2>1. new \in RunRecords
    BY <1>1, GoesType
  <2>2. /\ new.mode = run.mode /\ new.place = "failed" /\ new.start = run.start
        /\ new.disturbed = run.disturbed
    BY DEF Goes, Run
  <2> HIDE DEF new
  <2>3. InPlace(new) /\ TwiceCollected(new, dir)
    BY <2>2 DEF InPlace, TwiceCollected
  <2>4. Honest(new, dir)
    BY <1>3, <1>4, <2>2 DEF Honest, LeftAlone, FailsForAReason, LivePlaces
  <2>5. new \in RunRecords /\ RunOK(new, dir)
    BY <2>1, <2>3, <2>4 DEF RunOK
  <2> QED BY <2>5 DEF new
<1>5. ASSUME ~SeenBy(run, dir).unlisted, run.place = "assembling"
      PROVE  LET new == Run(run.mode, "writing", 1, run.text, run.start, dir, run.disturbed)
             IN new \in RunRecords /\ RunOK(new, dir)
  <2> DEFINE new == Run(run.mode, "writing", 1, run.text, run.start, dir, run.disturbed)
  <2>1. new \in RunRecords
    BY <1>1, RunType
  <2>2. /\ new.mode = run.mode /\ new.place = "writing" /\ new.start = run.start
        /\ new.next = 1 /\ new.text = run.text /\ new.between = dir
        /\ new.disturbed = run.disturbed /\ 1 .. new.next - 1 = {}
    BY DEF Run
  <2> HIDE DEF new
  <2>3. Writes(run.mode) /\ run.mode # "tree"
    BY <1>2, <1>5 DEF InPlace, Writes
  <2>4. InPlace(new)
    <3>1. 1 <= Written(run.mode)
      BY ManifestPlaces DEF Written
    <3> QED BY <2>2, <2>3, <3>1 DEF InPlace
  <2>5. Honest(new, dir)
    <3> SUFFICES ASSUME LeftAlone(run) PROVE Honest(new, dir)
      BY <2>2 DEF Honest, LeftAlone
    <3>1. SameFiles(new, dir) /\ Repaired(new, dir) /\ ReadAsStarted(new)
      BY <1>3, <1>5, <2>2, <2>3 DEF SameFiles, Repaired, ReadAsStarted
    <3> QED BY <2>2, <3>1 DEF Honest, FailsForAReason
  <2>6. TwiceCollected(new, dir)
    <3> SUFFICES ASSUME run.mode = "write" PROVE TwiceCollected(new, dir)
      BY <2>2 DEF TwiceCollected
    <3>1. \A i \in 1 .. run.next - 1 : run.text[Fragments[i]] <= dir.text[Fragments[i]]
      BY <1>2, <1>5 DEF TwiceCollected
    <3>2. \A f \in Fragment : run.text[f] <= dir.text[f]
      BY <3>1, WholeOrder
    <3>3. \A f \in Fragment : dir.text[f] <= dir.text[f]
      BY DEF Directories, Texts
    <3> QED BY <2>2, <3>2, <3>3 DEF TwiceCollected
  <2>7. new \in RunRecords /\ RunOK(new, dir)
    BY <2>1, <2>4, <2>5, <2>6 DEF RunOK
  <2> QED BY <2>7 DEF new
<1>6. ASSUME ~SeenBy(run, dir).unlisted, run.place = "verifying"
      PROVE  LET new == Goes(run, "comparing", 1) IN new \in RunRecords /\ RunOK(new, dir)
  <2> DEFINE new == Goes(run, "comparing", 1)
  <2>1. new \in RunRecords
    BY <1>1, GoesType
  <2>2. /\ new.mode = run.mode /\ new.place = "comparing" /\ new.start = run.start
        /\ new.next = 1 /\ new.text = run.text /\ new.between = run.between
        /\ new.disturbed = run.disturbed /\ 1 .. new.next - 1 = {}
    BY DEF Goes, Run
  <2> HIDE DEF new
  <2>3. InPlace(new)
    BY <1>2, <1>6, <2>2, ManifestPlaces DEF InPlace
  <2>4. Honest(new, dir)
    <3> SUFFICES ASSUME LeftAlone(run) PROVE Honest(new, dir)
      BY <2>2 DEF Honest, LeftAlone
    <3>1. SameFiles(new, dir) /\ Repaired(new, dir) /\ ReadAsStarted(new)
      BY <1>3, <1>6, <2>2 DEF SameFiles, Repaired, ReadAsStarted
    <3> QED BY <2>2, <3>1 DEF Honest, FailsForAReason
  <2>5. TwiceCollected(new, dir)
    <3> SUFFICES ASSUME run.mode = "write" PROVE TwiceCollected(new, dir)
      BY <2>2 DEF TwiceCollected
    <3>1. /\ \A i \in 1 .. run.next - 1 : run.between.text[Fragments[i]] <= run.text[Fragments[i]]
          /\ \A f \in Fragment : run.between.text[f] <= dir.text[f]
          /\ \A o \in Artifact : NotAhead(dir.artifacts[o], run.between.text, o)
      BY <1>2, <1>6 DEF TwiceCollected
    <3>2. \A f \in Fragment : run.between.text[f] <= run.text[f]
      BY <3>1, WholeOrder
    <3> QED BY <2>2, <3>1, <3>2 DEF TwiceCollected
  <2>6. new \in RunRecords /\ RunOK(new, dir)
    BY <2>1, <2>3, <2>4, <2>5 DEF RunOK
  <2> QED BY <2>6 DEF new
<1> QED BY <1>4, <1>5, <1>6

\* An artifact made of texts that are not ahead of others is not ahead of them.
LEMMA WrittenNotAhead ==
  ASSUME NEW text \in Texts, NEW older \in Texts, NEW o \in Artifact,
         \A f \in Fragment : text[f] <= older[f]
  PROVE  NotAhead(Assembled(text, o), older, o)
BY AssembledType DEF NotAhead, Assembled

\* A file that is opened is no artifact; those written before are what they were.
LEMMA OpenKeeps ==
  ASSUME NEW run \in RunRecords, NEW dir \in Directories, RunOK(run, dir),
         run.place = "writing"
  PROVE  LET output == Outputs[run.next]
             next   == Directory(dir.text, dir.unlisted,
                         [dir.artifacts EXCEPT ![output] = Broken])
             new    == Goes(run, "filling", run.next)
         IN /\ output \in Artifact
            /\ next \in Directories
            /\ new \in RunRecords /\ RunOK(new, next)
<1> DEFINE output == Outputs[run.next]
           next == Directory(dir.text, dir.unlisted, [dir.artifacts EXCEPT ![output] = Broken])
           new == Goes(run, "filling", run.next)
<1>1. /\ run.next \in Nat \ {0} /\ "filling" \in Places
      /\ dir.text \in Texts /\ dir.unlisted \in BOOLEAN /\ Broken \in Seq(Nat)
  BY DEF RunRecords, Directories, Places, LivePlaces, Broken
<1>2. InPlace(run) /\ Honest(run, dir) /\ TwiceCollected(run, dir)
  BY DEF RunOK
<1>3. /\ Writes(run.mode) /\ run.mode # "tree" /\ run.next <= Written(run.mode)
      /\ run.next <= Len(Outputs) /\ Len(Outputs) \in Nat
  BY <1>1, <1>2, ManifestPlaces DEF InPlace, Writes, Written
<1>4. output \in Artifact
  BY <1>1, <1>3, ManifestPlaces
<1>5. next \in Directories
  BY <1>1, <1>4, DirectoryType
<1>6. new \in RunRecords
  BY <1>1, GoesType
<1>7. /\ next.text = dir.text /\ next.unlisted = dir.unlisted
      /\ \A o \in Artifact : next.artifacts[o] = IF o = output THEN Broken ELSE dir.artifacts[o]
  BY <1>4 DEF Directory, Directories
<1>8. /\ new.mode = run.mode /\ new.place = "filling" /\ new.next = run.next
      /\ new.text = run.text /\ new.start = run.start
      /\ new.between = run.between /\ new.disturbed = run.disturbed
  BY DEF Goes, Run
<1>9. \A j \in 1 .. run.next - 1 :
        Outputs[j] \in Artifact /\ next.artifacts[Outputs[j]] = dir.artifacts[Outputs[j]]
  <2> TAKE j \in 1 .. run.next - 1
  <2>1. j \in 1 .. Len(Outputs) /\ run.next \in 1 .. Len(Outputs) /\ j # run.next
    BY <1>1, <1>3
  <2>2. Outputs[j] \in Artifact /\ Outputs[j] # output
    BY <2>1, ManifestPlaces
  <2> QED BY <1>7, <2>2
<1> HIDE DEF new, next, output
<1>10. InPlace(new)
  BY <1>3, <1>8 DEF InPlace
<1>11. Honest(new, next)
  <2> SUFFICES ASSUME LeftAlone(run) PROVE Honest(new, next)
    BY <1>8 DEF Honest, LeftAlone
  <2>1. SameFiles(run, dir) /\ Repaired(run, dir) /\ ReadAsStarted(run)
    BY <1>2 DEF Honest, LivePlaces
  <2>2. SameFiles(new, next)
    BY <1>3, <1>7, <1>8, <2>1 DEF SameFiles
  <2>3. Repaired(new, next)
    BY <1>8, <1>9, <2>1 DEF Repaired
  <2>4. ReadAsStarted(new)
    BY <1>8, <2>1 DEF ReadAsStarted
  <2> QED BY <1>8, <2>2, <2>3, <2>4 DEF Honest, FailsForAReason
<1>12. TwiceCollected(new, next)
  BY <1>2, <1>7, <1>8, <1>9 DEF TwiceCollected
<1>13. /\ output \in Artifact /\ next \in Directories
       /\ new \in RunRecords /\ RunOK(new, next)
  BY <1>4, <1>5, <1>6, <1>10, <1>11, <1>12 DEF RunOK
<1> QED BY <1>13 DEF new, next, output

\* Filling an artifact takes a run to the next one, to its second assembly, or
\* to its report.
LEMMA FillKeeps ==
  ASSUME NEW run \in RunRecords, NEW dir \in Directories, RunOK(run, dir),
         run.place = "filling"
  PROVE  LET output == Outputs[run.next]
             next   == Directory(dir.text, dir.unlisted,
                         [dir.artifacts EXCEPT ![output] = Assembled(run.text, output)])
         IN /\ output \in Artifact
            /\ next \in Directories
            /\ AfterWrite(run) \in RunRecords /\ RunOK(AfterWrite(run), next)
<1> DEFINE output == Outputs[run.next]
           artifacts == [dir.artifacts EXCEPT ![output] = Assembled(run.text, output)]
           next == Directory(dir.text, dir.unlisted, artifacts)
           new == AfterWrite(run)
<1>1. /\ run.next \in Nat \ {0} /\ run.text \in Texts /\ run.start \in Directories
      /\ run.start.text \in Texts /\ run.between.text \in Texts /\ run.mode \in Modes
  BY DEF RunRecords, Directories
<1>2. InPlace(run) /\ Honest(run, dir) /\ TwiceCollected(run, dir)
  BY DEF RunOK
<1>3. /\ Writes(run.mode) /\ run.mode # "tree" /\ run.next <= Written(run.mode)
      /\ Written(run.mode) <= Len(Outputs)
      /\ Written(run.mode) \in Nat /\ Len(Outputs) \in Nat
      /\ run.mode = "write" => Written(run.mode) = Len(Outputs)
  BY <1>2, ManifestPlaces DEF InPlace, Writes, Written
<1>4. output \in Artifact
  BY <1>1, <1>3, ManifestPlaces
<1>5. Assembled(run.text, output) \in Seq(Nat)
  BY <1>1, <1>4, AssembledType
<1>6. next \in Directories
  BY <1>4, <1>5, DirectoryType DEF Directories
<1>7. new \in RunRecords
  BY AfterWriteType
<1>8. /\ next.text = dir.text /\ next.unlisted = dir.unlisted
      /\ \A o \in Artifact : next.artifacts[o] = IF o = output THEN Assembled(run.text, o)
                                                 ELSE dir.artifacts[o]
  BY <1>4 DEF Directory, Directories
<1>9. \A j \in 1 .. run.next :
        /\ Outputs[j] \in Artifact
        /\ j \in 1 .. run.next - 1 \/ Outputs[j] = output
  BY <1>1, <1>3, ManifestPlaces
<1>10. /\ new.mode = run.mode /\ new.text = run.text /\ new.start = run.start
       /\ new.between = run.between /\ new.disturbed = run.disturbed
       /\ \/ /\ run.next < Written(run.mode)
             /\ new.place = "writing" /\ new.next = run.next + 1
          \/ /\ run.next = Written(run.mode) /\ run.mode = "write"
             /\ new.place = "verifying" /\ new.next = 1
          \/ /\ run.mode = "control-api"
             /\ new.place = "reported"
  <2>1. run.next < Written(run.mode) \/ run.next = Written(run.mode)
    BY <1>1, <1>3
  <2>2. run.mode \in {"write", "control-api"}
    BY <1>3 DEF Writes
  <2>3. run.next < Written(run.mode) => ~(run.next = Written(run.mode))
    BY <1>1, <1>3
  <2> QED BY <2>1, <2>2, <2>3 DEF AfterWrite, Reread, Goes, Run
<1> HIDE DEF new, next, artifacts, output
<1>11. InPlace(new)
  <2>1. CASE new.place = "writing"
    BY <1>1, <1>3, <1>10, <2>1 DEF InPlace
  <2>2. CASE new.place = "verifying"
    BY <1>10, <2>2, ManifestPlaces DEF InPlace
  <2>3. CASE new.place = "reported"
    BY <2>3 DEF InPlace
  <2> QED BY <1>10, <2>1, <2>2, <2>3
<1>12. LeftAlone(run) =>
         /\ SameFiles(run, dir)
         /\ run.text = run.start.text /\ ~run.start.unlisted
         /\ \A j \in 1 .. run.next :
              next.artifacts[Outputs[j]] = Assembled(run.start.text, Outputs[j])
  <2> SUFFICES ASSUME LeftAlone(run)
               PROVE  /\ SameFiles(run, dir)
                      /\ run.text = run.start.text /\ ~run.start.unlisted
                      /\ \A j \in 1 .. run.next :
                           next.artifacts[Outputs[j]] = Assembled(run.start.text, Outputs[j])
    OBVIOUS
  <2>1. SameFiles(run, dir) /\ Repaired(run, dir) /\ ReadAsStarted(run)
    BY <1>2 DEF Honest, LivePlaces
  <2>2. run.text = run.start.text /\ ~run.start.unlisted
    BY <2>1 DEF ReadAsStarted
  <2>3. \A j \in 1 .. run.next - 1 :
          dir.artifacts[Outputs[j]] = Assembled(run.start.text, Outputs[j])
    BY <2>1 DEF Repaired
  <2> QED BY <1>8, <1>9, <2>1, <2>2, <2>3
<1>13. Honest(new, next)
  <2> SUFFICES ASSUME LeftAlone(run) PROVE Honest(new, next)
    BY <1>10 DEF Honest, LeftAlone
  <2>1. SameFiles(new, next)
    BY <1>3, <1>8, <1>10, <1>12 DEF SameFiles
  <2>2. CASE new.place = "writing"
    <3>1. 1 .. new.next - 1 = 1 .. run.next
      BY <1>1, <1>10, <2>2
    <3>2. Repaired(new, next)
      BY <1>10, <1>12, <2>2, <3>1 DEF Repaired
    <3>3. ReadAsStarted(new)
      BY <1>10, <1>12, <2>2 DEF ReadAsStarted
    <3> QED BY <2>1, <2>2, <3>2, <3>3 DEF Honest, FailsForAReason
  <2>3. CASE new.place = "verifying"
    <3>1. \A o \in Artifact : \E j \in 1 .. run.next : o = Outputs[j]
      BY <1>3, <1>10, <2>3, ManifestPlaces
    <3>2. Repaired(new, next)
      BY <1>10, <1>12, <2>3, <3>1 DEF Repaired
    <3>3. ReadAsStarted(new)
      BY <1>10, <2>3 DEF ReadAsStarted
    <3> QED BY <2>1, <2>3, <3>2, <3>3 DEF Honest, FailsForAReason
  <2>4. CASE new.place = "reported"
    BY <1>10, <2>4 DEF Honest, FailsForAReason, LivePlaces
  <2> QED BY <1>10, <2>2, <2>3, <2>4
<1>14. TwiceCollected(new, next)
  <2> SUFFICES ASSUME run.mode = "write" PROVE TwiceCollected(new, next)
    BY <1>10 DEF TwiceCollected
  <2>1. /\ \A f \in Fragment : run.between.text[f] <= dir.text[f]
        /\ \A f \in Fragment : run.text[f] <= run.between.text[f]
        /\ \A j \in 1 .. run.next - 1 :
             NotAhead(dir.artifacts[Outputs[j]], run.between.text, Outputs[j])
    BY <1>2 DEF TwiceCollected
  <2>2. NotAhead(Assembled(run.text, output), run.between.text, output)
    BY <1>1, <1>4, <2>1, WrittenNotAhead
  <2>3. \A j \in 1 .. run.next :
          NotAhead(next.artifacts[Outputs[j]], run.between.text, Outputs[j])
    <3> TAKE j \in 1 .. run.next
    <3>1. CASE Outputs[j] = output
      BY <1>4, <1>8, <2>2, <3>1
    <3>2. CASE Outputs[j] # output
      BY <1>8, <1>9, <2>1, <3>2
    <3> QED BY <3>1, <3>2
  <2>4. CASE new.place = "writing"
    <3>1. 1 .. new.next - 1 = 1 .. run.next
      BY <1>1, <1>10, <2>4
    <3> QED BY <1>8, <1>10, <2>1, <2>3, <2>4, <3>1 DEF TwiceCollected
  <2>5. CASE new.place = "verifying"
    <3>1. \A o \in Artifact : \E j \in 1 .. run.next : o = Outputs[j]
      BY <1>3, <1>10, <2>5, ManifestPlaces
    <3>2. \A o \in Artifact : NotAhead(next.artifacts[o], run.between.text, o)
      BY <2>3, <3>1
    <3> QED BY <1>8, <1>10, <2>1, <2>5, <3>2 DEF TwiceCollected
  <2> QED BY <1>10, <2>4, <2>5
<1>15. /\ output \in Artifact /\ next \in Directories
       /\ new \in RunRecords /\ RunOK(new, next)
  BY <1>4, <1>6, <1>7, <1>11, <1>13, <1>14 DEF RunOK
<1> QED BY <1>15 DEF new, next, artifacts, output

\* Bytes that are not ahead of older texts and equal what newer texts make, are
\* what the older ones make too.
LEMMA EqualInBetween ==
  ASSUME NEW older \in Texts, NEW newer \in Texts, NEW o \in Artifact,
         \A f \in Fragment : older[f] <= newer[f],
         NotAhead(Assembled(newer, o), older, o)
  PROVE  Assembled(newer, o) = Assembled(older, o)
<1>1. \A i \in DOMAIN FragmentsOf[o] :
        /\ FragmentsOf[o][i] \in Fragment
        /\ newer[FragmentsOf[o][i]] \in Nat /\ older[FragmentsOf[o][i]] \in Nat
        /\ older[FragmentsOf[o][i]] <= newer[FragmentsOf[o][i]]
  BY AssembledType DEF Texts
<1>2. CASE Assembled(newer, o) = Broken
  <2>1. DOMAIN Assembled(newer, o) = {} /\ DOMAIN Assembled(newer, o) = DOMAIN FragmentsOf[o]
    <3>1. DOMAIN Assembled(newer, o) = DOMAIN FragmentsOf[o]
      BY DEF Assembled
    <3>2. DOMAIN Broken = {}
      BY DEF Broken
    <3> QED BY <1>2, <3>1, <3>2
  <2> QED BY <2>1 DEF Assembled
<1>3. CASE Assembled(newer, o) # Broken
  <2>1. \A i \in DOMAIN FragmentsOf[o] :
          Assembled(newer, o)[i] <= older[FragmentsOf[o][i]]
    BY <1>3 DEF NotAhead
  <2>2. \A i \in DOMAIN FragmentsOf[o] :
          newer[FragmentsOf[o][i]] = older[FragmentsOf[o][i]]
    <3>1. \A i \in DOMAIN FragmentsOf[o] : newer[FragmentsOf[o][i]] <= older[FragmentsOf[o][i]]
      BY <2>1 DEF Assembled
    <3> QED BY <1>1, <3>1
  <2> QED BY <2>2 DEF Assembled
<1> QED BY <1>2, <1>3

\* A comparison fails for what there was at the start, or tells the texts of one
\* moment.
LEMMA CompareKeeps ==
  ASSUME NEW run \in RunRecords, NEW dir \in Directories, RunOK(run, dir),
         run.place = "comparing"
  PROVE  LET output == Outputs[run.next]
             equal  == SeenBy(run, dir).artifacts[output] = Assembled(run.text, output)
             OK(new) == new \in RunRecords /\ RunOK(new, dir)
         IN /\ ~equal => OK(Goes(run, "failed", 1))
            /\ equal /\ run.next < Len(Outputs) => OK(Goes(run, "comparing", run.next + 1))
            /\ equal /\ run.next = Len(Outputs) => OK(Goes(run, "reported", 1))
<1> DEFINE output == Outputs[run.next]
           equal == SeenBy(run, dir).artifacts[output] = Assembled(run.text, output)
<1>1. /\ run.next \in Nat \ {0} /\ run.next + 1 \in Nat \ {0} /\ 1 \in Nat \ {0}
      /\ run.text \in Texts /\ run.between.text \in Texts /\ run.mode \in Modes
      /\ {"failed", "comparing", "reported"} \subseteq Places
  BY DEF RunRecords, Directories, Places, LivePlaces
<1>2. InPlace(run) /\ Honest(run, dir) /\ TwiceCollected(run, dir)
  BY DEF RunOK
<1>3. /\ run.mode \in {"write", "check", "tree"} /\ run.next <= Len(Outputs)
      /\ Len(Outputs) \in Nat
  BY <1>1, <1>2, ManifestPlaces DEF InPlace, Modes
<1>4. output \in Artifact
  BY <1>1, <1>3, ManifestPlaces
<1>5. LeftAlone(run) => SameFiles(run, dir) /\ Repaired(run, dir) /\ ReadAsStarted(run)
  BY <1>2 DEF Honest, LivePlaces
<1>6. LeftAlone(run) => run.text = run.start.text /\ ~run.start.unlisted
  BY <1>5 DEF ReadAsStarted
<1>7. LeftAlone(run) /\ run.mode # "write" =>
        SeenBy(run, dir).artifacts = run.start.artifacts
  BY <1>3, <1>5 DEF SeenBy, SameFiles, Writes
<1>8. ASSUME NEW place \in Places, NEW next \in Nat \ {0}
      PROVE  LET new == Goes(run, place, next)
             IN /\ new \in RunRecords
                /\ new.mode = run.mode /\ new.place = place /\ new.next = next
                /\ new.text = run.text /\ new.start = run.start
                /\ new.between = run.between /\ new.disturbed = run.disturbed
  BY GoesType DEF Goes, Run
<1>9. \A j \in 1 .. run.next : j \in 1 .. run.next - 1 \/ Outputs[j] = output
  BY <1>1
<1>10. equal /\ LeftAlone(run) /\ run.mode # "write" =>
         \A j \in 1 .. run.next :
           run.start.artifacts[Outputs[j]] = Assembled(run.text, Outputs[j])
  BY <1>5, <1>7, <1>9 DEF ReadAsStarted
<1>11. equal /\ run.mode = "write" =>
         \A j \in 1 .. run.next :
           Assembled(run.text, Outputs[j]) = Assembled(run.between.text, Outputs[j])
  <2> SUFFICES ASSUME equal, run.mode = "write"
               PROVE  \A j \in 1 .. run.next :
                        Assembled(run.text, Outputs[j]) = Assembled(run.between.text, Outputs[j])
    OBVIOUS
  <2>1. /\ \A o \in Artifact : NotAhead(dir.artifacts[o], run.between.text, o)
        /\ \A f \in Fragment : run.between.text[f] <= run.text[f]
        /\ \A j \in 1 .. run.next - 1 :
             Assembled(run.text, Outputs[j]) = Assembled(run.between.text, Outputs[j])
    BY <1>2 DEF TwiceCollected
  <2>2. dir.artifacts[output] = Assembled(run.text, output)
    BY DEF SeenBy
  <2>3. Assembled(run.text, output) = Assembled(run.between.text, output)
    <3>1. NotAhead(Assembled(run.text, output), run.between.text, output)
      BY <1>4, <2>1, <2>2
    <3> HIDE DEF output, equal
    <3> QED BY <1>1, <1>4, <2>1, <3>1, EqualInBetween
  <2> QED BY <1>9, <2>1, <2>3
<1> HIDE DEF equal, output
<1>12. ASSUME ~equal
       PROVE  LET new == Goes(run, "failed", 1) IN new \in RunRecords /\ RunOK(new, dir)
  <2> DEFINE new == Goes(run, "failed", 1)
  <2>1. /\ new \in RunRecords /\ new.mode = run.mode /\ new.place = "failed"
        /\ new.start = run.start /\ new.disturbed = run.disturbed
    BY <1>1, <1>8
  <2> HIDE DEF new
  <2>2. ASSUME LeftAlone(run) PROVE ~Writes(run.mode) /\ ~Consistent(run.start)
    <3>1. CASE run.mode = "write"
      <4>1. dir.artifacts[output] = Assembled(run.text, output)
        BY <1>4, <1>5, <1>6, <2>2, <3>1 DEF Repaired
      <4> QED BY <1>12, <3>1, <4>1 DEF equal, SeenBy
    <3>2. CASE run.mode # "write"
      <4>1. run.start.artifacts[output] # Assembled(run.start.text, output)
        BY <1>6, <1>7, <1>12, <2>2, <3>2 DEF equal
      <4>2. ~Writes(run.mode)
        BY <1>3, <3>2 DEF Writes
      <4> QED BY <1>4, <4>1, <4>2 DEF Consistent
    <3> QED BY <3>1, <3>2
  <2>3. InPlace(new) /\ TwiceCollected(new, dir)
    BY <2>1 DEF InPlace, TwiceCollected
  <2>4. Honest(new, dir)
    BY <2>1, <2>2 DEF Honest, LeftAlone, FailsForAReason, LivePlaces
  <2>5. new \in RunRecords /\ RunOK(new, dir)
    BY <2>1, <2>3, <2>4 DEF RunOK
  <2> QED BY <2>5 DEF new
<1>13. ASSUME equal, run.next < Len(Outputs)
       PROVE  LET new == Goes(run, "comparing", run.next + 1)
              IN new \in RunRecords /\ RunOK(new, dir)
  <2> DEFINE new == Goes(run, "comparing", run.next + 1)
  <2>1. /\ new \in RunRecords
        /\ new.mode = run.mode /\ new.place = "comparing" /\ new.next = run.next + 1
        /\ new.text = run.text /\ new.start = run.start
        /\ new.between = run.between /\ new.disturbed = run.disturbed
    BY <1>1, <1>8
  <2>2. 1 .. new.next - 1 = 1 .. run.next
    BY <1>1, <2>1
  <2> HIDE DEF new
  <2>3. InPlace(new)
    BY <1>1, <1>3, <1>13, <2>1 DEF InPlace
  <2>4. Honest(new, dir)
    <3> SUFFICES ASSUME LeftAlone(run) PROVE Honest(new, dir)
      BY <2>1 DEF Honest, LeftAlone
    <3>1. SameFiles(new, dir) /\ Repaired(new, dir)
      BY <1>5, <2>1 DEF SameFiles, Repaired
    <3>2. ReadAsStarted(new)
      BY <1>6, <1>10, <1>13, <2>1, <2>2 DEF ReadAsStarted
    <3> QED BY <2>1, <3>1, <3>2 DEF Honest, FailsForAReason
  <2>5. TwiceCollected(new, dir)
    BY <1>2, <1>11, <1>13, <2>1, <2>2 DEF TwiceCollected
  <2>6. new \in RunRecords /\ RunOK(new, dir)
    BY <2>1, <2>3, <2>4, <2>5 DEF RunOK
  <2> QED BY <2>6 DEF new
<1>14. ASSUME equal, run.next = Len(Outputs)
       PROVE  LET new == Goes(run, "reported", 1) IN new \in RunRecords /\ RunOK(new, dir)
  <2> DEFINE new == Goes(run, "reported", 1)
  <2>1. /\ new \in RunRecords /\ new.mode = run.mode /\ new.place = "reported"
        /\ new.text = run.text /\ new.start = run.start
        /\ new.between = run.between /\ new.disturbed = run.disturbed
    BY <1>1, <1>8
  <2> HIDE DEF new
  <2>2. \A o \in Artifact : \E j \in 1 .. run.next : o = Outputs[j]
    BY <1>14, ManifestPlaces
  <2>3. InPlace(new)
    BY <2>1 DEF InPlace
  <2>4. Honest(new, dir)
    BY <1>6, <1>10, <1>14, <2>1, <2>2
    DEF Honest, LeftAlone, FailsForAReason, LivePlaces, Consistent
  <2>5. TwiceCollected(new, dir)
    BY <1>11, <1>14, <2>1, <2>2 DEF TwiceCollected
  <2>6. new \in RunRecords /\ RunOK(new, dir)
    BY <2>1, <2>3, <2>4, <2>5 DEF RunOK
  <2> QED BY <2>6 DEF new
<1> QED BY <1>12, <1>13, <1>14 DEF equal, output

-----------------------------------------------------------------------------
(* The invariant.                                                          *)

\* What the invariant says of each run.
LEMMA RunsOK ==
  ASSUME Inductive
  PROVE  /\ files \in Directories
         /\ runs \in [Runs -> RunRecords]
         /\ \A r \in Runs : runs[r] \in RunRecords /\ RunOK(runs[r], files)
BY DEF Inductive, TypeOK, RunOK, RunRecords

\* In the beginning the artifacts are those of the fragments and nobody runs.
LEMMA InitInductive == Init => Inductive
<1> SUFFICES ASSUME Init PROVE Inductive
  OBVIOUS
<1> DEFINE text == [f \in Fragment |-> 0]
           artifacts == [o \in Artifact |-> Assembled(text, o)]
           run == Run("check", "none", 1, text, files, files, FALSE)
<1>1. text \in Texts
  BY DEF Texts
<1>2. artifacts \in [Artifact -> Seq(Nat)]
  <2> HIDE DEF text
  <2> QED BY <1>1, AssembledType
<1>3. files = Directory(text, FALSE, artifacts)
  BY DEF Init
<1>4. files \in Directories
  <2> HIDE DEF text, artifacts
  <2> QED BY <1>1, <1>2, <1>3 DEF Directory, Directories
<1>5. run \in RunRecords
  <2>1. "check" \in Modes /\ "none" \in Places /\ 1 \in Nat \ {0} /\ FALSE \in BOOLEAN
    BY DEF Modes, Places
  <2> HIDE DEF text
  <2> QED BY <1>1, <1>4, <2>1, RunType
<1>6. runs = [r \in Runs |-> run] /\ edits = 0 /\ crashes = 0
  BY DEF Init
<1>7. run.place = "none" /\ run.mode = "check"
  BY DEF Run
<1> HIDE DEF run, text, artifacts
<1>8. TypeOK
  BY <1>4, <1>5, <1>6 DEF TypeOK, RunRecords
<1>9. OneWriter
  BY <1>6, <1>7 DEF OneWriter, IsLive, LivePlaces
<1>10. InPlace(run) /\ Honest(run, files) /\ TwiceCollected(run, files)
  BY <1>7 DEF InPlace, Honest, TwiceCollected, FailsForAReason, LivePlaces
<1> QED BY <1>6, <1>8, <1>9, <1>10 DEF Inductive

\* A step of one run that leaves the files alone.
LEMMA OwnStep ==
  ASSUME Inductive, NEW r \in Runs, NEW new \in RunRecords, RunOK(new, files),
         runs' = [runs EXCEPT ![r] = new],
         files' = files, edits' \in Nat, crashes' \in Nat,
         new.place \in LivePlaces /\ Writes(new.mode) =>
           \A q \in Runs : q # r => ~(IsLive(q) /\ Writes(runs[q].mode))
  PROVE  Inductive'
<1>1. /\ files \in Directories /\ runs \in [Runs -> RunRecords]
      /\ \A q \in Runs : RunOK(runs[q], files)
  BY RunsOK
<1>2. /\ runs' \in [Runs -> RunRecords]
      /\ \A q \in Runs : runs'[q] = IF q = r THEN new ELSE runs[q]
  BY <1>1
<1>3. TypeOK'
  BY <1>1, <1>2 DEF TypeOK, RunRecords
<1>4. OneWriter'
  BY <1>2 DEF Inductive, OneWriter, IsLive
<1>5. \A q \in Runs : RunOK(runs'[q], files')
  BY <1>1, <1>2
<1> QED BY <1>3, <1>4, <1>5 DEF Inductive, RunOK

\* A step of a writer that writes one artifact.
LEMMA WriterStep ==
  ASSUME Inductive, NEW r \in Runs, IsLive(r), Writes(runs[r].mode),
         NEW new \in RunRecords, new.mode = runs[r].mode,
         NEW output \in Artifact, NEW bytes,
         SetArtifact(output, bytes), files' \in Directories, RunOK(new, files'),
         runs' = Others(r, new), edits' \in Nat, crashes' \in Nat
  PROVE  Inductive'
<1>1. /\ files \in Directories /\ runs \in [Runs -> RunRecords]
      /\ \A q \in Runs : runs[q] \in RunRecords /\ RunOK(runs[q], files)
  BY RunsOK
<1>2. \A q \in Runs : q # r => ~(IsLive(q) /\ Writes(runs[q].mode))
  BY DEF Inductive, OneWriter
<1>3. \A f \in Fragment : files.text[f] <= files'.text[f]
  BY <1>1 DEF SetArtifact, Directory, Directories, Texts
<1>4. \A q \in Runs : Disturbed(runs[q]) \in RunRecords
  <2> TAKE q \in Runs
  <2>1. "none" \in Places /\ 1 \in Nat \ {0}
    BY DEF Places
  <2> QED BY <1>1, <2>1, GoesType
<1>5. /\ runs' \in [Runs -> RunRecords]
      /\ \A q \in Runs : runs'[q] = IF q = r THEN new ELSE Disturbed(runs[q])
  BY <1>4 DEF Others
<1>6. TypeOK'
  BY <1>5 DEF TypeOK, RunRecords
<1>7. \A q \in Runs : /\ Disturbed(runs[q]).place = runs[q].place
                      /\ Disturbed(runs[q]).mode = runs[q].mode
  BY DEF Disturbed, Run
<1>8. OneWriter'
  BY <1>2, <1>5, <1>7 DEF OneWriter, IsLive
<1>9. ASSUME NEW q \in Runs PROVE RunOK(runs'[q], files')
  <2>1. CASE q = r
    BY <1>5, <2>1
  <2>2. CASE q # r
    <3>1. ~(runs[q].place \in LivePlaces /\ Writes(runs[q].mode))
      BY <1>2, <2>2 DEF IsLive
    <3>2. RunOK(Disturbed(runs[q]), files')
      BY <1>1, <1>3, <3>1, DisturbedKeeps
    <3> QED BY <1>5, <2>2, <3>2
  <2> QED BY <2>1, <2>2
<1> QED BY <1>6, <1>8, <1>9 DEF Inductive, RunOK

\* A step of the author.
LEMMA AuthorStep ==
  ASSUME Inductive, Edit
  PROVE  Inductive'
<1>1. /\ files \in Directories /\ runs \in [Runs -> RunRecords]
      /\ \A q \in Runs : runs[q] \in RunRecords /\ RunOK(runs[q], files)
  BY RunsOK
<1>2. /\ files' \in Directories
      /\ \A f \in Fragment : files.text[f] <= files'.text[f]
      /\ \A o \in Artifact : files'.artifacts[o] \in {files.artifacts[o], Broken}
  <2>1. CASE \E f \in Fragment :
               files' = Directory([files.text EXCEPT ![f] = @ + 1], files.unlisted, files.artifacts)
    BY <1>1, <2>1 DEF Directory, Directories, Texts
  <2>2. CASE files' = Directory(files.text, ~files.unlisted, files.artifacts)
    BY <1>1, <2>2 DEF Directory, Directories, Texts
  <2>3. CASE \E output \in Artifact : SetArtifact(output, Broken)
    <3>1. PICK output \in Artifact : SetArtifact(output, Broken)
      BY <2>3
    <3>2. Broken \in Seq(Nat) /\ files.text \in Texts /\ files.unlisted \in BOOLEAN
      BY <1>1 DEF Broken, Directories
    <3>3. files' \in Directories
      BY <1>1, <3>1, <3>2, DirectoryType DEF SetArtifact
    <3>4. \A f \in Fragment : files.text[f] <= files'.text[f]
      BY <1>1, <3>1 DEF SetArtifact, Directory, Directories, Texts
    <3>5. \A o \in Artifact : files'.artifacts[o] \in {files.artifacts[o], Broken}
      BY <1>1, <3>1 DEF SetArtifact, Directory, Directories
    <3> QED BY <3>3, <3>4, <3>5
  <2> QED BY <2>1, <2>2, <2>3 DEF Edit
<1>3. \A q \in Runs : Disturbed(runs[q]) \in RunRecords
  <2> TAKE q \in Runs
  <2>1. "none" \in Places /\ 1 \in Nat \ {0}
    BY DEF Places
  <2> QED BY <1>1, <2>1, GoesType
<1>4. /\ runs' \in [Runs -> RunRecords]
      /\ \A q \in Runs : runs'[q] = Disturbed(runs[q])
      /\ edits' \in Nat /\ crashes' \in Nat
  BY <1>3 DEF Edit, Inductive, TypeOK
<1>5. TypeOK'
  BY <1>2, <1>4 DEF TypeOK, RunRecords
<1>6. \A q \in Runs : /\ Disturbed(runs[q]).place = runs[q].place
                      /\ Disturbed(runs[q]).mode = runs[q].mode
  BY DEF Disturbed, Run
<1>7. OneWriter'
  BY <1>4, <1>6 DEF Inductive, OneWriter, IsLive
<1>8. \A q \in Runs : RunOK(runs'[q], files')
  BY <1>1, <1>2, <1>4, DisturbedKeeps
<1> QED BY <1>5, <1>7, <1>8 DEF Inductive, RunOK

\* A writer that goes on is still the only one.
LEMMA StillAlone ==
  ASSUME Inductive, NEW r \in Runs, IsLive(r), Writes(runs[r].mode)
  PROVE  \A q \in Runs : q # r => ~(IsLive(q) /\ Writes(runs[q].mode))
BY DEF Inductive, OneWriter

\* Every step keeps the invariant.
LEMMA NextInductive == Inductive /\ [Next]_vars => Inductive'
<1> SUFFICES ASSUME Inductive, [Next]_vars PROVE Inductive'
  OBVIOUS
<1>1. /\ files \in Directories /\ runs \in [Runs -> RunRecords]
      /\ \A q \in Runs : runs[q] \in RunRecords /\ RunOK(runs[q], files)
      /\ edits \in Nat /\ crashes \in Nat
  BY RunsOK DEF Inductive, TypeOK
<1>2. \A q \in Runs : Seen(q) = SeenBy(runs[q], files)
  BY DEF Seen, SeenBy
<1>3. ASSUME NEW r \in Runs, NEW mode \in Modes, Start(r, mode) PROVE Inductive'
  <2> DEFINE new == Run(mode, IF Writes(mode) THEN "assembling" ELSE "verifying", 1,
                        files.text, files, files, FALSE)
  <2>1. new \in RunRecords /\ RunOK(new, files)
    BY <1>1, StartKeeps
  <2>2. new.mode = mode
    BY DEF Run
  <2>3. Writes(new.mode) => \A q \in Runs : q # r => ~(IsLive(q) /\ Writes(runs[q].mode))
    BY <1>3, <2>2 DEF Start
  <2>4. /\ runs' = [runs EXCEPT ![r] = new] /\ files' = files
        /\ edits' \in Nat /\ crashes' \in Nat
    BY <1>1, <1>3 DEF Start
  <2> HIDE DEF new
  <2> QED BY <2>1, <2>3, <2>4, OwnStep
<1>4. ASSUME NEW r \in Runs, ReadFragment(r) PROVE Inductive'
  <2> DEFINE run == runs[r]
             f == Fragments[run.next]
             new == Run(run.mode, run.place, run.next + 1,
                        [run.text EXCEPT ![f] = SeenBy(run, files).text[f]],
                        run.start, run.between, run.disturbed)
  <2>1. run.place \in {"assembling", "verifying"} /\ run.next <= Len(Fragments)
    BY <1>4 DEF ReadFragment, Assembles
  <2>2. new \in RunRecords /\ RunOK(new, files)
    BY <1>1, <2>1, ReadKeeps
  <2>3. /\ runs' = [runs EXCEPT ![r] = new] /\ files' = files
        /\ edits' \in Nat /\ crashes' \in Nat
    BY <1>1, <1>2, <1>4 DEF ReadFragment
  <2>4. new.mode = run.mode
    BY DEF Run
  <2>5. IsLive(r)
    BY <2>1 DEF IsLive, LivePlaces
  <2>6. Writes(new.mode) => \A q \in Runs : q # r => ~(IsLive(q) /\ Writes(runs[q].mode))
    BY <2>4, <2>5, StillAlone
  <2> HIDE DEF new
  <2> QED BY <2>2, <2>3, <2>6, OwnStep
<1>5. ASSUME NEW r \in Runs, EndAssembly(r) PROVE Inductive'
  <2>1. /\ runs[r].place \in {"assembling", "verifying"}
        /\ runs[r].next > Len(Fragments)
    BY <1>5 DEF EndAssembly, Assembles
  <2>2. PICK new \in RunRecords :
          /\ RunOK(new, files) /\ new.mode = runs[r].mode
          /\ runs' = [runs EXCEPT ![r] = new]
    <3> DEFINE failed == Goes(runs[r], "failed", 1)
               writing == Run(runs[r].mode, "writing", 1, runs[r].text, runs[r].start,
                              files, runs[r].disturbed)
               comparing == Goes(runs[r], "comparing", 1)
    <3>1. /\ SeenBy(runs[r], files).unlisted => failed \in RunRecords /\ RunOK(failed, files)
          /\ ~SeenBy(runs[r], files).unlisted /\ runs[r].place = "assembling" =>
                writing \in RunRecords /\ RunOK(writing, files)
          /\ ~SeenBy(runs[r], files).unlisted /\ runs[r].place = "verifying" =>
                comparing \in RunRecords /\ RunOK(comparing, files)
      BY <1>1, <2>1, EndKeeps
    <3>2. failed.mode = runs[r].mode /\ writing.mode = runs[r].mode
          /\ comparing.mode = runs[r].mode
      BY DEF Goes, Run
    <3>3. \/ Seen(r).unlisted /\ runs' = [runs EXCEPT ![r] = failed]
          \/ /\ ~Seen(r).unlisted /\ runs[r].place = "assembling"
             /\ runs' = [runs EXCEPT ![r] = writing]
          \/ /\ ~Seen(r).unlisted /\ runs[r].place = "verifying"
             /\ runs' = [runs EXCEPT ![r] = comparing]
      BY <1>5 DEF EndAssembly
    <3> HIDE DEF failed, writing, comparing
    <3> QED BY <1>2, <3>1, <3>2, <3>3
  <2>3. IsLive(r) /\ files' = files /\ edits' \in Nat /\ crashes' \in Nat
    BY <1>1, <1>5, <2>1 DEF IsLive, LivePlaces, EndAssembly
  <2> QED BY <2>2, <2>3, StillAlone, OwnStep
<1>6. ASSUME NEW r \in Runs, OpenArtifact(r) PROVE Inductive'
  <2> DEFINE output == Outputs[runs[r].next]
             new == Goes(runs[r], "filling", runs[r].next)
  <2>1. runs[r].place = "writing" /\ IsLive(r)
    BY <1>6 DEF OpenArtifact, IsLive, LivePlaces
  <2>2. Writes(runs[r].mode)
    BY <1>1, <2>1 DEF RunOK, InPlace
  <2>3. SetArtifact(output, Broken)
    BY <1>6 DEF OpenArtifact
  <2>4. /\ output \in Artifact /\ files' \in Directories
        /\ new \in RunRecords /\ RunOK(new, files')
    BY <1>1, <2>1, <2>3, OpenKeeps DEF SetArtifact
  <2>5. runs' = Others(r, new) /\ edits' \in Nat /\ crashes' \in Nat
    BY <1>1, <1>6 DEF OpenArtifact
  <2>6. new.mode = runs[r].mode
    BY DEF Goes, Run
  <2> HIDE DEF output, new
  <2> QED BY <2>1, <2>2, <2>3, <2>4, <2>5, <2>6, WriterStep
<1>7. ASSUME NEW r \in Runs, FillArtifact(r) PROVE Inductive'
  <2> DEFINE output == Outputs[runs[r].next]
             new == AfterWrite(runs[r])
  <2>1. runs[r].place = "filling" /\ IsLive(r)
    BY <1>7 DEF FillArtifact, IsLive, LivePlaces
  <2>2. Writes(runs[r].mode)
    BY <1>1, <2>1 DEF RunOK, InPlace
  <2>3. SetArtifact(output, Assembled(runs[r].text, output))
    BY <1>7 DEF FillArtifact
  <2>4. /\ output \in Artifact /\ files' \in Directories
        /\ new \in RunRecords /\ RunOK(new, files')
    BY <1>1, <2>1, <2>3, FillKeeps DEF SetArtifact
  <2>5. runs' = Others(r, new) /\ edits' \in Nat /\ crashes' \in Nat
    BY <1>1, <1>7 DEF FillArtifact
  <2>6. new.mode = runs[r].mode
    BY DEF AfterWrite, Reread, Goes, Run
  <2> HIDE DEF output, new
  <2> QED BY <2>1, <2>2, <2>3, <2>4, <2>5, <2>6, WriterStep
<1>8. ASSUME NEW r \in Runs, Compare(r) PROVE Inductive'
  <2>1. runs[r].place = "comparing" /\ IsLive(r)
    BY <1>8 DEF Compare, IsLive, LivePlaces
  <2>2. PICK new \in RunRecords :
          /\ RunOK(new, files) /\ new.mode = runs[r].mode
          /\ runs' = [runs EXCEPT ![r] = new]
    <3> DEFINE output == Outputs[runs[r].next]
               equal == SeenBy(runs[r], files).artifacts[output] = Assembled(runs[r].text, output)
               failed == Goes(runs[r], "failed", 1)
               further == Goes(runs[r], "comparing", runs[r].next + 1)
               reported == Goes(runs[r], "reported", 1)
    <3>1. /\ ~equal => failed \in RunRecords /\ RunOK(failed, files)
          /\ equal /\ runs[r].next < Len(Outputs) =>
                further \in RunRecords /\ RunOK(further, files)
          /\ equal /\ runs[r].next = Len(Outputs) =>
                reported \in RunRecords /\ RunOK(reported, files)
      BY <1>1, <2>1, CompareKeeps
    <3>2. failed.mode = runs[r].mode /\ further.mode = runs[r].mode
          /\ reported.mode = runs[r].mode
      BY DEF Goes, Run
    <3>3. \/ ~equal /\ runs' = [runs EXCEPT ![r] = failed]
          \/ /\ equal /\ runs[r].next < Len(Outputs)
             /\ runs' = [runs EXCEPT ![r] = further]
          \/ /\ equal /\ runs[r].next = Len(Outputs)
             /\ runs' = [runs EXCEPT ![r] = reported]
      BY <1>2, <1>8 DEF Compare
    <3> HIDE DEF equal, failed, further, reported
    <3> QED BY <3>1, <3>2, <3>3
  <2>3. files' = files /\ edits' \in Nat /\ crashes' \in Nat
    BY <1>1, <1>8 DEF Compare
  <2> QED BY <2>1, <2>2, <2>3, StillAlone, OwnStep
<1>9. ASSUME NEW r \in Runs, Die(r) PROVE Inductive'
  <2> DEFINE new == Goes(runs[r], "dead", 1)
  <2>1. new.place = "dead" /\ "dead" \notin LivePlaces
    BY DEF Goes, Run, LivePlaces
  <2>2. new \in RunRecords /\ RunOK(new, files)
    BY <1>1, DeadKeeps
  <2>3. /\ runs' = [runs EXCEPT ![r] = new] /\ files' = files
        /\ edits' \in Nat /\ crashes' \in Nat
    BY <1>1, <1>9 DEF Die
  <2> HIDE DEF new
  <2> QED BY <2>1, <2>2, <2>3, OwnStep
<1>10. CASE Edit
  BY <1>10, AuthorStep
<1>11. CASE UNCHANGED vars
  BY <1>11 DEF vars, Inductive, TypeOK, OneWriter, IsLive
<1> QED
  BY <1>3, <1>4, <1>5, <1>6, <1>7, <1>8, <1>9, <1>10, <1>11 DEF Next

\* The invariant holds in every state: types, one writer, and for each run what
\* it has read tells of the files (artifact_assembly.py, assemble and verify).
THEOREM InductiveHolds == Spec => []Inductive
<1> QED
  BY InitInductive, NextInductive, PTL DEF Spec

\* What a script reports as verified was assembled from the fragments of one
\* moment, for every manifest, any number of runs, edits and crashes
\* (artifact_assembly.py, verify).
THEOREM ReportIsTrueHolds == Spec => []ReportIsTrue
<1>1. Inductive => ReportIsTrue
  <2> SUFFICES ASSUME Inductive, NEW r \in Runs, runs[r].place = "reported"
               PROVE  /\ runs[r].mode = "tree" => Consistent(runs[r].start)
                      /\ runs[r].mode = "check" => runs[r].disturbed \/ Consistent(runs[r].start)
                      /\ runs[r].mode = "write" =>
                           \A o \in Artifact :
                             Assembled(runs[r].text, o) = Assembled(runs[r].between.text, o)
    BY DEF ReportIsTrue
  <2>1. Honest(runs[r], files) /\ TwiceCollected(runs[r], files)
    BY DEF Inductive
  <2>2. runs[r].disturbed \in BOOLEAN
    BY DEF Inductive, TypeOK
  <2> QED BY <2>1, <2>2 DEF Honest, LeftAlone, TwiceCollected
<1> QED
  BY <1>1, InductiveHolds, PTL

\* A script nobody disturbs fails only for a reason that was there when it began
\* (artifact_assembly.py, main).
THEOREM FailureIsTrueHolds == Spec => []FailureIsTrue
<1>1. Inductive => FailureIsTrue
  <2> SUFFICES ASSUME Inductive, NEW r \in Runs, runs[r].place = "failed"
               PROVE  \/ runs[r].mode # "tree" /\ runs[r].disturbed
                      \/ runs[r].start.unlisted
                      \/ ~Writes(runs[r].mode) /\ ~Consistent(runs[r].start)
    BY DEF FailureIsTrue
  <2>1. Honest(runs[r], files) /\ runs[r].disturbed \in BOOLEAN
    BY DEF Inductive, TypeOK
  <2> QED BY <2>1 DEF Honest, LeftAlone, FailsForAReason
<1> QED
  BY <1>1, InductiveHolds, PTL
=============================================================================
