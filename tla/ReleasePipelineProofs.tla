------------------------ MODULE ReleasePipelineProofs ------------------------
(***************************************************************************)
(* A verified release stays right, for any number of commits, runs,        *)
(* failures and edits; one that is public and not verified is reported,    *)
(* for any number of failures, as long as nobody edits.                    *)
(*                                                                         *)
(* A step changes GitHub's state, a job, or both.  What a job has          *)
(* established survives every change of GitHub's state that keeps what is  *)
(* sealed (Keeps); what the job that moves has established anew is shown   *)
(* for each step.                                                          *)
(***************************************************************************)
EXTENDS ReleasePipeline, TLAPS

\* What no change of GitHub's state may do to a run's release.
Keeps(r) ==
  /\ Exists(r)' => Exists(r)
  /\ r \in attested => r \in attested'
  /\ IsSealed(r) => IsSealed(r)' /\ tags'[Version] = tags[Version]

GitHubOK ==
  /\ releases \in [Ids -> Release \cup {NoRelease}]
  /\ tags \in [Tags -> Commits \cup {NoCommit}]
  /\ setting \in BOOLEAN
  /\ attested \subseteq Runs
  /\ \A id \in Ids : Exists(id) /\ releases[id].draft => ~releases[id].immutable
  /\ \A x, y \in Published(Version) : x = y
  /\ Locked(Version) => tags[Version] # NoCommit

\* A step that ends, well or badly, leaves a job of the right type.
LEMMA FailureType ==
  ASSUME NEW job \in Job
  PROVE  AfterFailure(job) \in Job
BY DEF AfterFailure, Job, Active

\* So does one that goes on.
LEMMA PcType ==
  ASSUME NEW job \in Job, NEW pc \in Active \cup {"ended"}
  PROVE  [job EXCEPT !.pc = pc] \in Job
BY DEF Job, Active

\* Failing establishes nothing new: only a run past CI has a release to recover.
LEMMA FailureEstablished ==
  ASSUME NEW r \in Runs, NEW job \in Job, job.pc \in Active, Established(r, job)
  PROVE  /\ Established(r, AfterFailure(job))
         /\ Established(r, AfterFailure([job EXCEPT !.faulty = TRUE]))
BY DEF AfterFailure, Established, Job, Active, BeforeDraft, AfterAttest, AfterSeal, AfterTag

\* What a job has established survives a change that keeps what is sealed.
LEMMA EstablishedKept ==
  ASSUME NEW r \in Runs, NEW job, Established(r, job), Keeps(r)
  PROVE  Established(r, job)'
BY DEF Established, Keeps

\* The invariant holds after a step of one job if GitHub's state stays sound,
\* nothing sealed is lost and the job has established what its place needs.
LEMMA JobMoves ==
  ASSUME Inductive, NEW r \in Runs, NEW job \in Job,
         jobs' = [jobs EXCEPT ![r] = job],
         GitHubOK', failures' \in 0 .. MaxFailures, edits' = edits,
         \A x \in Runs \ {r} : Keeps(x),
         Established(r, job)'
  PROVE  Inductive'
<1>1. TypeOK'
  BY DEF Inductive, TypeOK, GitHubOK
<1>2. ASSUME NEW x \in Runs
      PROVE  Established(x, jobs[x])'
  <2>1. CASE x = r
    BY <2>1 DEF Inductive, TypeOK
  <2>2. CASE x # r
    <3>1. jobs'[x] = jobs[x]
      BY <2>2 DEF Inductive, TypeOK
    <3>2. Established(x, jobs[x])
      BY DEF Inductive
    <3>3. Established(x, jobs[x]')
      BY <3>1, <3>2
    <3> QED
      BY <3>1, <3>2, <2>2, EstablishedKept DEF Established, Keeps
  <2> QED
    BY <2>1, <2>2
<1> QED
  BY <1>1, <1>2 DEF Inductive, GitHubOK

\* The same for a change that no job takes part in.
LEMMA GitHubMoves ==
  ASSUME Inductive, UNCHANGED jobs, GitHubOK',
         failures' \in 0 .. MaxFailures, edits' \in 0 .. MaxEdits,
         \A x \in Runs : Keeps(x)
  PROVE  Inductive'
<1>1. TypeOK'
  BY DEF Inductive, TypeOK, GitHubOK
<1>2. ASSUME NEW x \in Runs
      PROVE  Established(x, jobs[x])'
  <2>1. Established(x, jobs[x])
    BY DEF Inductive
  <2> QED
    BY <2>1 DEF Established, Keeps
<1> QED
  BY <1>1, <1>2 DEF Inductive, GitHubOK

\* A step that leaves GitHub's state alone.
LEMMA JobOnly ==
  ASSUME Inductive, NEW r \in Runs, NEW job \in Job,
         jobs' = [jobs EXCEPT ![r] = job], Established(r, job),
         UNCHANGED <<github, edits>>, failures' \in 0 .. MaxFailures
  PROVE  Inductive'
<1>1. GitHubOK'
  BY DEF Inductive, TypeOK, GitHubOK, github, Exists, Published, Tagged, Locked
<1>2. \A x \in Runs : Keeps(x)
  BY DEF Keeps, github, Exists, Published, Tagged, IsSealed
<1>3. Established(r, job)'
  BY <1>2 DEF Established, Keeps
<1> QED
  BY <1>1, <1>2, <1>3, JobMoves

\* A step that only reads.
LEMMA CheckKeeps ==
  ASSUME Inductive, NEW r \in Runs, NEW at \in Active,
         NEW next \in Active \cup {"ended"}, NEW ok,
         Check(r, at, next, ok),
         ok => Established(r, [jobs[r] EXCEPT !.pc = next])
  PROVE  Inductive'
<1> DEFINE job == IF ok THEN [jobs[r] EXCEPT !.pc = next] ELSE AfterFailure(jobs[r])
<1>1. jobs[r] \in Job /\ jobs[r].pc \in Active /\ Established(r, jobs[r])
  BY DEF Inductive, TypeOK, Check
<1>2. job \in Job
  BY <1>1, FailureType, PcType
<1>3. Established(r, job)
  BY <1>1, FailureEstablished
<1>4. jobs' = [jobs EXCEPT ![r] = job]
  BY <1>1 DEF Check, Failed, Inductive, TypeOK
<1>5. UNCHANGED <<github, edits>> /\ failures' \in 0 .. MaxFailures
  BY DEF Check, Inductive, TypeOK
<1> HIDE DEF job
<1> QED
  BY <1>2, <1>3, <1>4, <1>5, JobOnly

\* A check between two places of which the second claims no more.
LEMMA PlainCheckKeeps ==
  ASSUME Inductive, NEW r \in Runs, NEW at \in Active \ {"ci"}, NEW next \in Active,
         NEW ok, Check(r, at, next, ok),
         next \in BeforeDraft => at \in BeforeDraft,
         next \in AfterAttest => at \in AfterAttest,
         next \in AfterSeal => at \in AfterSeal,
         next \in AfterTag => at \in AfterTag
  PROVE  Inductive'
<1>1. jobs[r] \in Job /\ jobs[r].pc = at /\ Established(r, jobs[r])
  BY DEF Inductive, TypeOK, Check
<1>2. Established(r, [jobs[r] EXCEPT !.pc = next])
  BY <1>1 DEF Established, Job
<1> QED
  BY <1>2, CheckKeeps

\* A call that GitHub refuses.
LEMMA RefusedKeeps ==
  ASSUME Inductive, NEW r \in Runs, jobs[r].pc \in Active, Refused(r)
  PROVE  Inductive'
<1>1. jobs[r] \in Job /\ Established(r, jobs[r])
  BY DEF Inductive, TypeOK
<1>2. AfterFailure(jobs[r]) \in Job /\ Established(r, AfterFailure(jobs[r]))
  BY <1>1, FailureType, FailureEstablished
<1>3. jobs' = [jobs EXCEPT ![r] = AfterFailure(jobs[r])]
  BY DEF Refused, Failed
<1>4. UNCHANGED <<github, edits>> /\ failures' \in 0 .. MaxFailures
  BY DEF Refused, Inductive, TypeOK
<1> QED
  BY <1>2, <1>3, <1>4, JobOnly

\* A call that changed GitHub's state, whether or not its answer arrives.
LEMMA AnswerMoves ==
  ASSUME Inductive, NEW r \in Runs, jobs[r].pc \in Active,
         NEW job \in Job, NEW fault, fault = Fault(r),
         Answer(r, job), GitHubOK', \A x \in Runs \ {r} : Keeps(x),
         Established(r, job)', Established(r, fault)'
  PROVE  Inductive'
<1>1. jobs[r] \in Job
  BY DEF Inductive, TypeOK
<1>2. edits' = edits
  BY DEF Answer
<1>3. CASE jobs' = [jobs EXCEPT ![r] = job] /\ UNCHANGED failures
  <2>1. failures' \in 0 .. MaxFailures
    BY <1>3 DEF Inductive, TypeOK
  <2> QED
    BY <1>2, <1>3, <2>1, JobMoves
<1>4. CASE /\ failures < MaxFailures
           /\ failures' = failures + 1
           /\ jobs' = [jobs EXCEPT ![r] = Fault(r)]
  <2>1. failures' \in 0 .. MaxFailures
    BY <1>4, ReleaseAssumption DEF Inductive, TypeOK
  <2>2. fault \in Job
    <3>1. [jobs[r] EXCEPT !.faulty = TRUE] \in Job
      BY <1>1 DEF Job
    <3> QED
      BY <3>1, FailureType DEF Fault
  <2> QED
    BY <1>2, <1>4, <2>1, <2>2, JobMoves
<1> QED
  BY <1>3, <1>4 DEF Answer

\* Such a call when it also keeps what its own run has established.
LEMMA AnswerKeeps ==
  ASSUME Inductive, NEW r \in Runs, jobs[r].pc \in Active, NEW job \in Job,
         Answer(r, job), GitHubOK', \A x \in Runs : Keeps(x), Established(r, job)'
  PROVE  Inductive'
<1>1. PICK fault : fault = Fault(r)
  OBVIOUS
<1>2. Established(r, fault)
  BY <1>1, FailureEstablished DEF Inductive, TypeOK, Fault
<1>3. Established(r, fault)'
  BY <1>2 DEF Established, Keeps
<1> QED
  BY <1>1, <1>3, AnswerMoves

-----------------------------------------------------------------------------
(* The steps of a run, in their order.                                     *)

\* Lines 259-298: uploading changes only a release that can still change.
LEMMA UploadKeeps ==
  ASSUME Inductive, NEW r \in Runs, NEW at \in {"archive", "checksum"},
         NEW next \in {"checksum", "draft"}, NEW before, NEW after \in Assets,
         Upload(r, at, next, before, after)
  PROVE  Inductive'
<1>0. jobs[r] \in Job /\ Established(r, jobs[r])
  BY DEF Inductive, TypeOK
<1>1. CASE Refused(r)
  BY <1>1, RefusedKeeps DEF Upload, Active
<1>2. CASE /\ jobs[r].pc = at
           /\ Exists(r) /\ ~releases[r].immutable
           /\ releases' = [releases EXCEPT ![r].assets = IF @ = before THEN after ELSE "other"]
           /\ Answer(r, At(r, next))
           /\ UNCHANGED <<tags, setting, attested>>
  <2>1. PICK job : job = [jobs[r] EXCEPT !.pc = next]
    OBVIOUS
  <2>2. PICK new \in Assets :
          releases' = [releases EXCEPT ![r] = [releases[r] EXCEPT !.assets = new]]
    BY <1>2 DEF Assets
  <2>3. GitHubOK'
    <3>1. r \in Ids /\ releases[r] \in Release
      BY <1>2 DEF Ids, Inductive, TypeOK, Exists
    <3>2. [releases[r] EXCEPT !.assets = new] \in Release
      BY <3>1 DEF Release
    <3> QED
      BY <1>2, <2>2, <3>1, <3>2, ReleaseAssumption
        DEF Inductive, TypeOK, GitHubOK, Release, Exists, Published, Tagged, Locked
  <2>4. \A x \in Runs : Keeps(x)
    BY <1>2, <2>2
      DEF Inductive, TypeOK, Keeps, Ids, Release, Exists, Published, Tagged, IsSealed
  <2>5. job \in Job /\ Established(r, job)'
    BY <1>0, <1>2, <2>1, <2>4
      DEF Keeps, Established, Job, BeforeDraft, Active, AfterAttest, AfterSeal, AfterTag
  <2> QED
    BY <1>2, <2>1, <2>3, <2>4, <2>5, AnswerKeeps DEF At, Active
<1> QED
  BY <1>1, <1>2 DEF Upload

\* Whatever a run does.
LEMMA RunStepKeeps ==
  ASSUME Inductive, NEW r \in Runs, Start(r) \/ Step(r)
  PROVE  Inductive'
<1> USE DEF At, Sha, Active, BeforeDraft, AfterAttest, AfterSeal, AfterTag
<1>0. jobs[r] \in Job /\ Established(r, jobs[r])
  BY DEF Inductive, TypeOK
<1>1. CASE Start(r)
  <2>1. PICK trigger \in Triggers, sha \in Commits :
          jobs' = [jobs EXCEPT ![r] = NewJob(trigger, sha)]
    BY <1>1 DEF Start
  <2>2. NewJob(trigger, sha) \in Job
    BY DEF NewJob, Job, Reports
  <2>3. Established(r, NewJob(trigger, sha))
    BY <1>0, <1>1 DEF Start, NewJob, Established
  <2>4. UNCHANGED <<github, edits>> /\ failures' \in 0 .. MaxFailures
    BY <1>1 DEF Start, Inductive, TypeOK
  <2> QED
    BY <2>1, <2>2, <2>3, <2>4, JobOnly
<1>2. CASE RequireCI(r)
  <2> DEFINE next == IF PushRelease(r) THEN "settings" ELSE "ended"
  <2>1. Sha(r) \in Tested => Established(r, [jobs[r] EXCEPT !.pc = next])
    BY <1>0, <1>2 DEF RequireCI, Check, Established, Job
  <2>2. next \in Active \cup {"ended"} /\ "ci" \in Active
    OBVIOUS
  <2>3. Check(r, "ci", next, Sha(r) \in Tested)
    BY <1>2 DEF RequireCI
  <2> HIDE DEF next
  <2> QED
    BY <2>1, <2>2, <2>3, CheckKeeps
<1>3. CASE RequireImmutableSetting(r)
  BY <1>3, PlainCheckKeeps DEF RequireImmutableSetting
<1>4. CASE RequireFreeNamespace(r)
  BY <1>4, PlainCheckKeeps DEF RequireFreeNamespace
<1>5. CASE RequireTag(r)
  BY <1>5, PlainCheckKeeps DEF RequireTag
<1>6. CASE RequireFreeStagingTag(r)
  BY <1>6, PlainCheckKeeps DEF RequireFreeStagingTag
<1>7. CASE CreateDraft(r)
  <2> DEFINE release == [tag |-> r, commit |-> jobs[r].sha, draft |-> TRUE,
                         immutable |-> FALSE, notes |-> TRUE, assets |-> "none"]
  <2>1. PICK job : job = [jobs[r] EXCEPT !.pc = "archive", !.known = TRUE]
    OBVIOUS
  <2>2. PICK fault : fault = Fault(r)
    OBVIOUS
  <2>3. /\ jobs[r].pc = "create"
        /\ releases' = [releases EXCEPT ![r] = release]
        /\ Answer(r, job)
        /\ UNCHANGED <<tags, setting, attested>>
    BY <1>7, <2>1 DEF CreateDraft
  <2>4. release \in Release
    BY <1>0 DEF Release, Tags, Job, Assets
  <2>5. GitHubOK'
    BY <2>3, <2>4, ReleaseAssumption
      DEF Inductive, TypeOK, GitHubOK, Ids, Exists, Published, Tagged, Locked
  <2>6. \A x \in Runs \ {r} : Keeps(x)
    BY <2>3 DEF Inductive, TypeOK, Keeps, Ids, Exists, Published, Tagged, IsSealed
  <2>7. job \in Job /\ Established(r, job)'
    BY <1>0, <2>1, <2>3 DEF Established, Job
  <2>8. Established(r, fault)'
    BY <1>0, <2>2, <2>3
      DEF Fault, AfterFailure, Established, Job
  <2> HIDE DEF release
  <2> QED
    BY <2>2, <2>3, <2>5, <2>6, <2>7, <2>8, AnswerMoves
<1>8. CASE UploadArchive(r)
  BY <1>8, UploadKeeps DEF UploadArchive, Assets
<1>9. CASE UploadChecksum(r)
  BY <1>9, UploadKeeps DEF UploadChecksum, Assets
<1>10. CASE VerifyDraft(r)
  BY <1>10, PlainCheckKeeps DEF VerifyDraft
<1>11. CASE VerifyDraftAssets(r)
  BY <1>11, PlainCheckKeeps DEF VerifyDraftAssets
<1>12. CASE Attest(r)
  <2>1. PICK job : job = [jobs[r] EXCEPT !.pc = "publish_namespace"]
    OBVIOUS
  <2>2. /\ jobs[r].pc = "attest"
        /\ attested' = attested \cup {r}
        /\ Answer(r, job)
        /\ UNCHANGED <<releases, tags, setting>>
    BY <1>12, <2>1 DEF Attest
  <2>3. GitHubOK'
    BY <2>2 DEF Inductive, TypeOK, GitHubOK, Exists, Published, Tagged, Locked
  <2>4. \A x \in Runs : Keeps(x)
    BY <2>2 DEF Keeps, Exists, Published, Tagged, IsSealed
  <2>5. job \in Job /\ Established(r, job)'
    BY <1>0, <2>1, <2>2, <2>4
      DEF Keeps, Established, Job
  <2> QED
    BY <2>2, <2>3, <2>4, <2>5, AnswerKeeps
<1>13. CASE RecheckNamespace(r)
  BY <1>13, PlainCheckKeeps DEF RecheckNamespace
<1>14. CASE RecheckTag(r)
  BY <1>14, PlainCheckKeeps DEF RecheckTag
<1>15. CASE RecheckDraft(r)
  BY <1>15, PlainCheckKeeps DEF RecheckDraft
<1>16. CASE VerifyAttestation(r)
  BY <1>16, PlainCheckKeeps DEF VerifyAttestation
<1>17. CASE RecheckSetting(r)
  BY <1>17, PlainCheckKeeps DEF RecheckSetting
<1>18. CASE CheckFinalDraft(r)
  BY <1>18, PlainCheckKeeps DEF CheckFinalDraft
<1>19. CASE CheckFinalNamespace(r)
  BY <1>19, PlainCheckKeeps DEF CheckFinalNamespace
<1>20. CASE ClaimTag(r)
  <2>1. CASE tags[Version] = NoCommit
    <3>1. PICK job : job = [jobs[r] EXCEPT !.pc = "final_tag"]
      OBVIOUS
    <3>2. /\ jobs[r].pc = "claim"
          /\ tags' = [tags EXCEPT ![Version] = jobs[r].sha]
          /\ Answer(r, job)
          /\ UNCHANGED <<releases, setting, attested>>
      BY <1>20, <2>1, <3>1 DEF ClaimTag
    <3>3. GitHubOK'
      BY <1>0, <3>2, ReleaseAssumption
        DEF Inductive, TypeOK, GitHubOK, Job, Tags, Exists, Published, Tagged, Locked
    <3>4. \A x \in Runs : Keeps(x)
      BY <2>1, <3>2
        DEF Inductive, TypeOK, Keeps, Tags, Exists, Published, Tagged, IsSealed, Locked
    <3>5. job \in Job /\ Established(r, job)'
      BY <1>0, <3>1, <3>2, <3>4
        DEF Keeps, Established, Job
    <3> QED
      BY <3>2, <3>3, <3>4, <3>5, AnswerKeeps
  <2>2. CASE tags[Version] # NoCommit
    BY <1>20, <2>2, RefusedKeeps DEF ClaimTag
  <2> QED
    BY <2>1, <2>2
<1>21. CASE CheckFinalTag(r)
  BY <1>21, PlainCheckKeeps DEF CheckFinalTag
<1>22. CASE PublishRelease(r)
  <2>1. CASE Exists(r) /\ ~releases[r].immutable /\ Published(Version) \subseteq {r}
    <3> DEFINE release == [releases[r] EXCEPT !.tag = Version, !.commit = jobs[r].sha,
                             !.draft = FALSE, !.immutable = releases[r].draft /\ setting]
               tag == IF tags[Version] = NoCommit THEN jobs[r].sha ELSE tags[Version]
    <3>1. PICK job : job = [jobs[r] EXCEPT !.pc = "published"]
      OBVIOUS
    <3>2. /\ jobs[r].pc = "publish"
          /\ releases' = [releases EXCEPT ![r] = release]
          /\ tags' = [tags EXCEPT ![Version] = tag]
          /\ Answer(r, job)
          /\ UNCHANGED <<setting, attested>>
      BY <1>22, <2>1, <3>1 DEF PublishRelease
    <3>3. /\ r \in Ids /\ releases[r] \in Release
          /\ releases[r].draft \in BOOLEAN
      BY <2>1 DEF Ids, Inductive, TypeOK, Exists, Release
    <3>4. /\ release \in Release /\ release.tag = Version
          /\ release.draft = FALSE
      BY <1>0, <3>3 DEF Release, Tags, Job, Inductive, TypeOK
    <3>5. tag \in Commits /\ tag # NoCommit
      BY <1>0, ReleaseAssumption DEF Inductive, TypeOK, Tags, Job
    <3> HIDE DEF release, tag
    <3>6. \A x \in Ids \ {r} : x \notin Published(Version) /\ x \notin Published(Version)'
      BY <2>1, <3>2, <3>3 DEF Inductive, TypeOK, Exists, Published, Tagged
    <3>7. GitHubOK'
      <4>1. releases' \in [Ids -> Release \cup {NoRelease}] /\ releases'[r] = release
        BY <3>2, <3>3, <3>4 DEF Inductive, TypeOK
      <4>2. tags' \in [Tags -> Commits \cup {NoCommit}] /\ tags'[Version] # NoCommit
        BY <3>2, <3>5 DEF Inductive, TypeOK, Tags
      <4>3. \A id \in Ids : Exists(id)' /\ releases'[id].draft => ~releases'[id].immutable
        BY <3>2, <3>3, <3>4, <4>1 DEF Inductive, TypeOK, Exists
      <4>4. \A x, y \in Published(Version)' : x = y
        BY <3>6 DEF Published, Tagged
      <4> QED
        BY <3>2, <4>1, <4>2, <4>3, <4>4 DEF Inductive, TypeOK, GitHubOK
    <3>8. \A x \in Runs : Keeps(x)
      BY <2>1, <3>2, <3>3, <3>6 DEF Keeps, Ids, Inductive, TypeOK, Exists, IsSealed
    <3>9. job \in Job /\ Established(r, job)'
      BY <1>0, <3>1, <3>2, <3>8
        DEF Keeps, Established, Job
    <3> QED
      BY <3>2, <3>7, <3>8, <3>9, AnswerKeeps
  <2>2. CASE ~(Exists(r) /\ ~releases[r].immutable /\ Published(Version) \subseteq {r})
    BY <1>22, <2>2, RefusedKeeps DEF PublishRelease
  <2> QED
    BY <2>1, <2>2
<1>23. CASE VerifyPublished(r)
  <2>1. IsOwnRelease(r) => Established(r, [jobs[r] EXCEPT !.pc = "published_tag"])
    BY <1>0, <1>23
      DEF VerifyPublished, Check, IsOwnRelease, HasOwnAssets, IsSealed, Published, Tagged,
          Ids, Established, Job
  <2> QED
    BY <1>23, <2>1, CheckKeeps DEF VerifyPublished
<1>24. CASE VerifyPublishedTag(r)
  <2>1. tags[Version] = jobs[r].sha =>
          Established(r, [jobs[r] EXCEPT !.pc = "published_staging_tag"])
    BY <1>0, <1>24
      DEF VerifyPublishedTag, Check, Established, Job
  <2> QED
    BY <1>24, <2>1, CheckKeeps DEF VerifyPublishedTag
<1>25. CASE VerifyStagingTag(r)
  <2>1. /\ jobs[r].pc = "published_staging_tag"
        /\ UNCHANGED <<github, edits>> /\ failures' \in 0 .. MaxFailures
    BY <1>25 DEF VerifyStagingTag, Inductive, TypeOK
  <2>2. PICK job \in { [jobs[r] EXCEPT !.pc = "recover", !.verified = TRUE],
                       [jobs[r] EXCEPT !.pc = "delete_staging_tag"],
                       AfterFailure(jobs[r]) } : jobs' = [jobs EXCEPT ![r] = job]
    BY <1>25 DEF VerifyStagingTag, Failed, Inductive, TypeOK
  <2>3. /\ [jobs[r] EXCEPT !.pc = "recover", !.verified = TRUE] \in Job
        /\ [jobs[r] EXCEPT !.pc = "delete_staging_tag"] \in Job
        /\ AfterFailure(jobs[r]) \in Job
    BY <1>0, FailureType DEF Job
  <2>4. /\ Established(r, [jobs[r] EXCEPT !.pc = "recover", !.verified = TRUE])
        /\ Established(r, [jobs[r] EXCEPT !.pc = "delete_staging_tag"])
    BY <1>0, <2>1 DEF Established, Job
  <2>5. Established(r, AfterFailure(jobs[r]))
    BY <1>0, <2>1, FailureEstablished
  <2>6. job \in Job /\ Established(r, job)
    BY <2>2, <2>3, <2>4, <2>5
  <2> QED
    BY <2>1, <2>2, <2>6, JobOnly
<1>26. CASE DeleteStagingTag(r)
  <2>1. CASE tags[r] # NoCommit
    <3>1. PICK job : job = [jobs[r] EXCEPT !.pc = "recover", !.verified = TRUE]
      OBVIOUS
    <3>2. /\ jobs[r].pc = "delete_staging_tag"
          /\ tags' = [tags EXCEPT ![r] = NoCommit]
          /\ Answer(r, job)
          /\ UNCHANGED <<releases, setting, attested>>
      BY <1>26, <2>1, <3>1 DEF DeleteStagingTag
    <3>3. tags' \in [Tags -> Commits \cup {NoCommit}] /\ tags'[Version] = tags[Version]
      BY <3>2, ReleaseAssumption DEF Inductive, TypeOK, Tags
    <3>4. GitHubOK'
      BY <3>2, <3>3 DEF Inductive, TypeOK, GitHubOK, Exists, Published, Tagged, Locked
    <3>5. \A x \in Runs : Keeps(x)
      BY <3>2, <3>3 DEF Keeps, Exists, Published, Tagged, IsSealed
    <3>6. job \in Job /\ Established(r, job)'
      BY <1>0, <3>1, <3>2, <3>5
        DEF Keeps, Established, Job
    <3> QED
      BY <3>2, <3>4, <3>5, <3>6, AnswerKeeps
  <2>2. CASE tags[r] = NoCommit
    BY <1>26, <2>2, RefusedKeeps DEF DeleteStagingTag
  <2> QED
    BY <2>1, <2>2
<1>27. CASE Recover(r)
  <2> DEFINE job == [jobs[r] EXCEPT !.pc = "ended", !.report = ReportOf(r)]
  <2>1. /\ jobs[r].pc = "recover"
        /\ jobs' = [jobs EXCEPT ![r] = job]
        /\ UNCHANGED <<github, edits>> /\ failures' \in 0 .. MaxFailures
    BY <1>27 DEF Recover, Inductive, TypeOK
  <2>2. ReportOf(r) \in Reports
    BY DEF ReportOf, Reports
  <2>3. job \in Job /\ Established(r, job)
    BY <1>0, <2>1, <2>2 DEF Established, Job
  <2> HIDE DEF job
  <2> QED
    BY <2>1, <2>3, JobOnly
<1>28. CASE Fail(r)
  <2>1. /\ jobs[r].pc \in Active
        /\ jobs' = [jobs EXCEPT ![r] = Fault(r)]
        /\ UNCHANGED <<github, edits>>
    BY <1>28 DEF Fail, Running
  <2>2. failures' \in 0 .. MaxFailures
    BY <1>28, ReleaseAssumption DEF Fail, Inductive, TypeOK
  <2>3. Fault(r) \in Job
    <3>1. [jobs[r] EXCEPT !.faulty = TRUE] \in Job
      BY <1>0 DEF Job
    <3> QED
      BY <3>1, FailureType DEF Fault
  <2>4. Established(r, Fault(r))
    BY <1>0, <2>1, FailureEstablished DEF Fault
  <2> QED
    BY <2>1, <2>2, <2>3, <2>4, JobOnly
<1>29. CASE Lose(r)
  <2> DEFINE job == [jobs[r] EXCEPT !.pc = "lost", !.faulty = TRUE]
  <2>1. /\ jobs[r].pc \in Active
        /\ jobs' = [jobs EXCEPT ![r] = job]
        /\ UNCHANGED <<github, edits>>
    BY <1>29 DEF Lose, Running
  <2>2. failures' \in 0 .. MaxFailures
    BY <1>29, ReleaseAssumption DEF Lose, Inductive, TypeOK
  <2>3. job \in Job /\ Established(r, job)
    BY <1>0, <2>1 DEF Established, Job
  <2> HIDE DEF job
  <2> QED
    BY <2>1, <2>2, <2>3, JobOnly
<1> QED
  BY <1>1, <1>2, <1>3, <1>4, <1>5, <1>6, <1>7, <1>8, <1>9, <1>10, <1>11, <1>12,
     <1>13, <1>14, <1>15, <1>16, <1>17, <1>18, <1>19, <1>20, <1>21, <1>22, <1>23,
     <1>24, <1>25, <1>26, <1>27, <1>28, <1>29 DEF Step

-----------------------------------------------------------------------------
(* Maintainers.                                                            *)

\* Any change of a release that can still change, short of publishing it.
LEMMA MutableChange ==
  ASSUME Inductive, NEW id \in Ids, Exists(id), ~releases[id].immutable,
         NEW new \in Release \cup {NoRelease},
         \/ new = NoRelease
         \/ /\ new # NoRelease /\ ~new.immutable
            /\ new.draft = releases[id].draft
            /\ new.draft \/ new.tag = releases[id].tag,
         releases' = [releases EXCEPT ![id] = new], UNCHANGED <<tags, setting, attested>>
  PROVE  GitHubOK' /\ \A x \in Runs : Keeps(x)
<1>1. releases' \in [Ids -> Release \cup {NoRelease}] /\ releases'[id] = new
  BY DEF Inductive, TypeOK
<1>2. \A x \in Ids \ {id} : releases'[x] = releases[x]
  BY DEF Inductive, TypeOK
<1>3. Published(Version)' \subseteq Published(Version)
  BY <1>1, <1>2 DEF Published, Tagged, Exists
<1>4. Locked(Version)' => Locked(Version)
  BY <1>1, <1>2, <1>3 DEF Locked, Published, Tagged, Exists
<1>5. \A x \in Ids : Exists(x)' /\ releases'[x].draft => ~releases'[x].immutable
  BY <1>1, <1>2 DEF Inductive, Exists
<1>6. GitHubOK'
  BY <1>1, <1>3, <1>4, <1>5 DEF GitHubOK, Inductive, TypeOK
<1>7. \A x \in Runs : Keeps(x)
  BY <1>1, <1>2 DEF Keeps, IsSealed, Published, Tagged, Exists, Ids
<1> QED
  BY <1>6, <1>7

\* Whatever a maintainer does: nothing sealed can be undone.
LEMMA MaintainerKeeps ==
  ASSUME Inductive, Maintainer
  PROVE  Inductive'
<1>1. /\ UNCHANGED <<attested, jobs, failures>>
      /\ failures' \in 0 .. MaxFailures /\ edits' \in 0 .. MaxEdits
  <2>1. Edit
    BY DEF Maintainer, EditTag, EditRelease, RenameDraft, PublishByHand, DraftByHand,
           ToggleSetting
  <2> QED
    BY <2>1, ReleaseAssumption DEF Edit, Inductive, TypeOK
<1>2. CASE EditTag
  <2>1. PICK tag \in Tags, commit \in Commits \cup {NoCommit} :
          ~Locked(tag) /\ tags' = [tags EXCEPT ![tag] = commit]
    BY <1>2 DEF EditTag
  <2>2. UNCHANGED <<releases, setting>>
    BY <1>2 DEF EditTag
  <2>3. Locked(Version) => tags'[Version] = tags[Version]
    BY <2>1 DEF Inductive, TypeOK, Tags
  <2>4. GitHubOK'
    BY <1>1, <2>1, <2>2, <2>3
      DEF GitHubOK, Inductive, TypeOK, Locked, Published, Tagged, Exists
  <2>5. \A x \in Runs : Keeps(x)
    BY <1>1, <2>2, <2>3 DEF Keeps, IsSealed, Locked, Published, Tagged, Exists
  <2> QED
    BY <1>1, <2>4, <2>5, GitHubMoves
<1>3. CASE EditRelease
  <2>0. UNCHANGED <<tags, setting, attested>>
    BY <1>1, <1>3 DEF EditRelease
  <2>1. PICK id \in Ids :
          /\ Exists(id)
          /\ \/ releases' = [releases EXCEPT ![id].notes = ~@]
             \/ /\ ~releases[id].immutable
                /\ \/ \E assets \in Assets : releases' = [releases EXCEPT ![id].assets = assets]
                   \/ \E commit \in Commits : releases' = [releases EXCEPT ![id].commit = commit]
                   \/ releases' = [releases EXCEPT ![id] = NoRelease]
    BY <1>3 DEF EditRelease
  <2>2. releases[id] \in Release
    BY <2>1 DEF Exists, Inductive, TypeOK
  <2>3. CASE releases' = [releases EXCEPT ![id].notes = ~@]
    <3>1. PICK notes \in BOOLEAN : releases' = [releases EXCEPT ![id].notes = notes]
      BY <2>2, <2>3 DEF Release
    <3>2. [releases[id] EXCEPT !.notes = notes] \in Release
      BY <2>2 DEF Release
    <3>3. GitHubOK'
      BY <2>0, <2>2, <3>1, <3>2, ReleaseAssumption
        DEF GitHubOK, Inductive, TypeOK, Release, Locked, Published, Tagged, Exists
    <3>4. \A x \in Runs : Keeps(x)
      BY <2>0, <2>1, <2>2, <3>1, <3>2, ReleaseAssumption
        DEF Keeps, Inductive, TypeOK, Release, Ids, IsSealed, Published, Tagged, Exists
    <3> QED
      BY <1>1, <3>3, <3>4, GitHubMoves
  <2>4. CASE /\ ~releases[id].immutable
             /\ \E new \in Release : /\ new.draft = releases[id].draft
                                     /\ new.tag = releases[id].tag
                                     /\ new.immutable = releases[id].immutable
                                     /\ releases' = [releases EXCEPT ![id] = new]
    <3>1. PICK new \in Release : /\ new.draft = releases[id].draft
                                 /\ new.tag = releases[id].tag
                                 /\ new.immutable = releases[id].immutable
                                 /\ releases' = [releases EXCEPT ![id] = new]
      BY <2>4
    <3>2. GitHubOK' /\ \A x \in Runs : Keeps(x)
      BY <2>0, <2>1, <2>4, <3>1, MutableChange, ReleaseAssumption
    <3> QED
      BY <1>1, <3>2, GitHubMoves
  <2>5. CASE ~releases[id].immutable /\ releases' = [releases EXCEPT ![id] = NoRelease]
    <3>1. GitHubOK' /\ \A x \in Runs : Keeps(x)
      BY <2>0, <2>1, <2>5, MutableChange
    <3> QED
      BY <1>1, <3>1, GitHubMoves
  <2>6. ASSUME NEW assets \in Assets, releases' = [releases EXCEPT ![id].assets = assets]
        PROVE  \E new \in Release : /\ new.draft = releases[id].draft
                                    /\ new.tag = releases[id].tag
                                    /\ new.immutable = releases[id].immutable
                                    /\ releases' = [releases EXCEPT ![id] = new]
    BY <2>2, <2>6 DEF Release
  <2>7. ASSUME NEW commit \in Commits, releases' = [releases EXCEPT ![id].commit = commit]
        PROVE  \E new \in Release : /\ new.draft = releases[id].draft
                                    /\ new.tag = releases[id].tag
                                    /\ new.immutable = releases[id].immutable
                                    /\ releases' = [releases EXCEPT ![id] = new]
    BY <2>2, <2>7 DEF Release
  <2> QED
    BY <2>1, <2>3, <2>4, <2>5, <2>6, <2>7
<1>4. CASE RenameDraft
  <2>1. PICK id \in Ids, tag \in Tags :
          /\ Exists(id) /\ releases[id].draft
          /\ releases' = [releases EXCEPT ![id].tag = tag]
    BY <1>4 DEF RenameDraft
  <2>2. PICK new : new = [releases[id] EXCEPT !.tag = tag]
    OBVIOUS
  <2>3. /\ new \in Release /\ ~new.immutable /\ ~releases[id].immutable
        /\ new.draft /\ new.draft = releases[id].draft
        /\ releases' = [releases EXCEPT ![id] = new]
    BY <2>1, <2>2 DEF Exists, Inductive, TypeOK, Release
  <2>4. UNCHANGED <<tags, setting, attested>>
    BY <1>1, <1>4 DEF RenameDraft
  <2>5. GitHubOK' /\ \A x \in Runs : Keeps(x)
    BY <2>1, <2>3, <2>4, MutableChange, ReleaseAssumption
  <2> QED
    BY <1>1, <2>5, GitHubMoves
<1>5. CASE PublishByHand
  <2>1. PICK id \in Ids :
          /\ Exists(id) /\ releases[id].draft
          /\ Published(releases[id].tag) = {}
          /\ releases' = [releases EXCEPT ![id].draft = FALSE, ![id].immutable = setting]
          /\ tags' = [tags EXCEPT ![releases[id].tag] = IF @ = NoCommit THEN releases[id].commit
                                                                        ELSE @]
    BY <1>5 DEF PublishByHand
  <2>2. PICK new : new = [releases[id] EXCEPT !.draft = FALSE, !.immutable = setting]
    OBVIOUS
  <2>3. setting' = setting /\ attested' = attested
    BY <1>1, <1>5 DEF PublishByHand
  <2>4. /\ releases[id] \in Release /\ new \in Release /\ new.draft = FALSE
        /\ new.tag = releases[id].tag
        /\ releases' = [releases EXCEPT ![id] = new]
    BY <2>1, <2>2 DEF Exists, Inductive, TypeOK, Release
  <2>5. /\ releases' \in [Ids -> Release \cup {NoRelease}] /\ releases'[id] = new
        /\ \A x \in Ids \ {id} : releases'[x] = releases[x]
    BY <2>4 DEF Inductive, TypeOK
  <2>6. tags' \in [Tags -> Commits \cup {NoCommit}]
    BY <2>1, <2>4 DEF Inductive, TypeOK, Release
  <2>7. \A x \in Ids : Exists(x)' /\ releases'[x].draft => ~releases'[x].immutable
    BY <2>4, <2>5 DEF Inductive, Exists
  <2>8. CASE releases[id].tag = Version
    <3>1. Published(Version) = {} /\ Published(Version)' \subseteq {id}
      BY <2>1, <2>5, <2>8 DEF Published, Tagged, Exists
    <3>2. tags'[Version] # NoCommit
      BY <2>1, <2>4, <2>8, ReleaseAssumption DEF Inductive, TypeOK, Tags, Release
    <3>3. GitHubOK'
      BY <2>3, <2>5, <2>6, <2>7, <3>1, <3>2 DEF GitHubOK, Inductive, TypeOK
    <3>4. \A x \in Runs : Keeps(x)
      BY <2>1, <2>3, <2>5, <3>1 DEF Keeps, IsSealed, Ids, Exists
    <3> QED
      BY <1>1, <3>3, <3>4, GitHubMoves
  <2>9. CASE releases[id].tag # Version
    <3>1. Published(Version)' = Published(Version) /\ id \notin Published(Version)
      BY <2>4, <2>5, <2>9 DEF Published, Tagged, Exists
    <3>2. tags'[Version] = tags[Version]
      BY <2>1, <2>9 DEF Inductive, TypeOK, Tags
    <3>3. Locked(Version)' => Locked(Version)
      BY <2>5, <3>1 DEF Locked, Published, Tagged
    <3>4. GitHubOK'
      BY <2>3, <2>5, <2>6, <2>7, <3>1, <3>2, <3>3 DEF GitHubOK, Inductive, TypeOK
    <3>5. \A x \in Runs : Keeps(x)
      BY <2>1, <2>3, <2>5, <3>1, <3>2 DEF Keeps, IsSealed, Ids, Exists
    <3> QED
      BY <1>1, <3>4, <3>5, GitHubMoves
  <2> QED
    BY <2>8, <2>9
<1>6. CASE DraftByHand
  <2>1. PICK new \in Release : new.draft /\ ~new.immutable
                               /\ releases' = [releases EXCEPT ![ByHand] = new]
    <3>1. PICK commit \in Commits : releases' = [releases EXCEPT ![ByHand] =
            [tag |-> Version, commit |-> commit, draft |-> TRUE, immutable |-> FALSE,
             notes |-> FALSE, assets |-> "other"]]
      BY <1>6 DEF DraftByHand
    <3> QED
      BY <3>1 DEF Release, Tags, Assets
  <2>2. UNCHANGED <<tags, setting, attested>> /\ ~Exists(ByHand)
    BY <1>1, <1>6 DEF DraftByHand
  <2>3. GitHubOK'
    BY <2>1, <2>2, ReleaseAssumption
      DEF GitHubOK, Inductive, TypeOK, Ids, Locked, Published, Tagged, Exists
  <2>4. \A x \in Runs : Keeps(x)
    BY <2>1, <2>2, ReleaseAssumption
      DEF Keeps, Inductive, TypeOK, Ids, IsSealed, Published, Tagged, Exists
  <2> QED
    BY <1>1, <2>3, <2>4, GitHubMoves
<1>7. CASE ToggleSetting
  <2>1. UNCHANGED <<releases, tags, attested>> /\ setting' \in BOOLEAN
    BY <1>1, <1>7 DEF ToggleSetting, Inductive, TypeOK
  <2>2. GitHubOK'
    BY <2>1 DEF GitHubOK, Inductive, TypeOK, Locked, Published, Tagged, Exists
  <2>3. \A x \in Runs : Keeps(x)
    BY <2>1 DEF Keeps, IsSealed, Published, Tagged, Exists
  <2> QED
    BY <1>1, <2>2, <2>3, GitHubMoves
<1> QED
  BY <1>2, <1>3, <1>4, <1>5, <1>6, <1>7 DEF Maintainer

-----------------------------------------------------------------------------
\* At first no run has established anything.
LEMMA InitInductive == Init => Inductive
<1> SUFFICES ASSUME Init PROVE Inductive
  OBVIOUS
<1> DEFINE idle == [NewJob(CHOOSE trigger \in Triggers : TRUE,
                          CHOOSE commit \in Commits : TRUE) EXCEPT !.pc = "idle"]
<1>1. idle \in Job /\ idle.pc = "idle" /\ ~idle.known /\ ~idle.verified
  <2>1. /\ (CHOOSE trigger \in Triggers : TRUE) \in Triggers
        /\ (CHOOSE commit \in Commits : TRUE) \in Commits
    BY ReleaseAssumption
  <2> QED
    BY <2>1 DEF NewJob, Job, Active, Reports
<1>2. jobs = [r \in Runs |-> idle]
  BY DEF Init
<1> HIDE DEF idle
<1>3. \A id \in Ids : ~Exists(id)
  BY DEF Init, Exists
<1>4. TypeOK
  BY <1>1, <1>2, ReleaseAssumption DEF Init, TypeOK
<1>5. \A r \in Runs : Established(r, jobs[r])
  BY <1>1, <1>2, <1>3
    DEF Established, Active, BeforeDraft, AfterAttest, AfterSeal, AfterTag, Ids
<1> QED
  BY <1>3, <1>4, <1>5 DEF Inductive, Published, Tagged, Locked

\* The invariant is inductive.
LEMMA StepKeeps == Inductive /\ [Next]_vars => Inductive'
<1> SUFFICES ASSUME Inductive, [Next]_vars PROVE Inductive'
  OBVIOUS
<1>1. CASE UNCHANGED vars
  BY <1>1 DEF vars, Inductive, TypeOK, Established, IsSealed, Published, Tagged, Exists, Locked
<1>2. ASSUME NEW r \in Runs, Start(r) \/ Step(r) PROVE Inductive'
  BY <1>2, RunStepKeeps
<1>3. CASE Maintainer
  BY <1>3, MaintainerKeeps
<1> QED
  BY <1>1, <1>2, <1>3 DEF Next

\* The invariant holds for any number of commits, runs, failures and edits.
THEOREM ReleaseInductive == Spec => []Inductive
BY InitInductive, StepKeeps, PTL DEF Spec

\* Lines 523-579: what a run has verified is right, and stays right whatever is
\* done to the repository afterwards.
THEOREM ReleaseVerifiedForGood == Spec => []VerifiedForGood
<1>1. Inductive => VerifiedForGood
  BY DEF Inductive, Established, VerifiedForGood, IsSealed, IsComplete, Published, Tagged,
         Sha
<1> QED
  BY <1>1, ReleaseInductive, PTL

-----------------------------------------------------------------------------
(* What is reported, as long as no maintainer changes anything.            *)

\* A failed step takes a run that knows of a release to its recovery step.
LEMMA FailureAnswers ==
  ASSUME NEW r \in Runs, NEW job \in Job, job.pc \in Active, Answerable(r, job)
  PROVE  /\ Answerable(r, AfterFailure(job))
         /\ Answerable(r, AfterFailure([job EXCEPT !.faulty = TRUE]))
BY DEF AfterFailure, Answerable, Job, Active, BeforeDraft, AfterPublish, AfterSeal

\* The step of one run, which touches no other run's release.
LEMMA AnswerableMoves ==
  ASSUME Inductive, \A x \in Runs : Answerable(x, jobs[x]), NEW r \in Runs, NEW job,
         jobs' = [jobs EXCEPT ![r] = job],
         \A x \in Runs \ {r} : releases'[x] = releases[x],
         Answerable(r, job)'
  PROVE  \A x \in Runs : Answerable(x, jobs[x])'
<1> SUFFICES ASSUME NEW x \in Runs PROVE Answerable(x, jobs[x])'
  OBVIOUS
<1>1. CASE x = r
  BY <1>1 DEF Inductive, TypeOK
<1>2. CASE x # r
  <2>1. jobs'[x] = jobs[x] /\ releases'[x] = releases[x]
    BY <1>2 DEF Inductive, TypeOK
  <2>2. Answerable(x, jobs[x])
    OBVIOUS
  <2> QED
    BY <2>1, <2>2 DEF Answerable, Published, Tagged, Exists
<1> QED
  BY <1>1, <1>2

\* A step that leaves the releases alone.
LEMMA ReadAnswers ==
  ASSUME Inductive, \A x \in Runs : Answerable(x, jobs[x]), NEW r \in Runs, NEW job,
         jobs' = [jobs EXCEPT ![r] = job], UNCHANGED releases, Answerable(r, job)
  PROVE  \A x \in Runs : Answerable(x, jobs[x])'
<1>1. Answerable(r, job)'
  BY DEF Answerable, Published, Tagged, Exists
<1> QED
  BY <1>1, AnswerableMoves

\* A step that only reads, between two places of which the second asks for no more.
LEMMA CheckAnswers ==
  ASSUME Inductive, \A x \in Runs : Answerable(x, jobs[x]), NEW r \in Runs,
         NEW at \in Active, NEW next \in Active, NEW ok, Check(r, at, next, ok),
         next \in BeforeDraft \/ at \notin BeforeDraft,
         at \in AfterPublish => next \in AfterPublish
  PROVE  \A x \in Runs : Answerable(x, jobs[x])'
<1> DEFINE job == IF ok THEN [jobs[r] EXCEPT !.pc = next] ELSE AfterFailure(jobs[r])
<1>1. jobs[r] \in Job /\ jobs[r].pc = at /\ Answerable(r, jobs[r])
  BY DEF Inductive, TypeOK, Check
<1>2. Answerable(r, AfterFailure(jobs[r]))
  BY <1>1, FailureAnswers
<1>3. Answerable(r, [jobs[r] EXCEPT !.pc = next])
  BY <1>1 DEF Answerable, Job, Active
<1>4. jobs' = [jobs EXCEPT ![r] = job] /\ UNCHANGED releases
  BY <1>1 DEF Check, Failed, github, Inductive, TypeOK
<1>5. Answerable(r, job)
  BY <1>2, <1>3
<1> HIDE DEF job
<1> QED
  BY <1>4, <1>5, ReadAnswers

\* A call that GitHub refuses.
LEMMA RefusedAnswers ==
  ASSUME Inductive, \A x \in Runs : Answerable(x, jobs[x]), NEW r \in Runs,
         jobs[r].pc \in Active, Refused(r)
  PROVE  \A x \in Runs : Answerable(x, jobs[x])'
<1>1. jobs[r] \in Job /\ Answerable(r, jobs[r])
  BY DEF Inductive, TypeOK
<1>2. jobs' = [jobs EXCEPT ![r] = AfterFailure(jobs[r])] /\ UNCHANGED releases
  BY DEF Refused, Failed, github
<1>3. Answerable(r, AfterFailure(jobs[r]))
  BY <1>1, FailureAnswers
<1> QED
  BY <1>2, <1>3, ReadAnswers

\* A call that took effect: its answer arrives, or a known release is recovered.
LEMMA AnsweredOrRecovered ==
  ASSUME NEW r \in Runs, NEW job, Answer(r, job)
  PROVE  \E next \in {job, Fault(r)} : jobs' = [jobs EXCEPT ![r] = next]
BY DEF Answer

\* Such a call when it leaves the releases alone.
LEMMA AnswerAnswers ==
  ASSUME Inductive, \A x \in Runs : Answerable(x, jobs[x]), NEW r \in Runs,
         jobs[r].pc \in Active, NEW job, Answer(r, job), UNCHANGED releases,
         Answerable(r, job)
  PROVE  \A x \in Runs : Answerable(x, jobs[x])'
<1>1. jobs[r] \in Job /\ Answerable(r, jobs[r])
  BY DEF Inductive, TypeOK
<1>2. Answerable(r, Fault(r))
  BY <1>1, FailureAnswers DEF Fault
<1>3. PICK next \in {job, Fault(r)} : jobs' = [jobs EXCEPT ![r] = next]
  BY AnsweredOrRecovered
<1>4. Answerable(r, next)
  BY <1>2, <1>3
<1> QED
  BY <1>3, <1>4, ReadAnswers

\* Lines 259-298: what is uploaded to is no release that the run has published.
LEMMA UploadAnswers ==
  ASSUME Inductive, \A x \in Runs : Answerable(x, jobs[x]), NEW r \in Runs,
         NEW at \in {"archive", "checksum"}, NEW next \in {"checksum", "draft"},
         NEW before, NEW after, Upload(r, at, next, before, after)
  PROVE  \A x \in Runs : Answerable(x, jobs[x])'
<1>1. jobs[r] \in Job /\ jobs[r].pc = at /\ Answerable(r, jobs[r])
  BY DEF Inductive, TypeOK, Upload
<1>2. r \notin Published(Version) /\ jobs[r].known
  BY <1>1 DEF Answerable, AfterPublish, AfterSeal, Active, BeforeDraft
<1>3. CASE Refused(r)
  BY <1>1, <1>3, RefusedAnswers DEF Active
<1>4. CASE /\ Exists(r)
           /\ releases' = [releases EXCEPT ![r].assets = IF @ = before THEN after ELSE "other"]
           /\ Answer(r, At(r, next))
  <2>1. PICK new : releases' = [releases EXCEPT ![r] = [releases[r] EXCEPT !.assets = new]]
    BY <1>4
  <2>2. releases[r] \in Release /\ r \in Ids
    BY <1>4 DEF Ids, Inductive, TypeOK, Exists
  <2>3. /\ releases'[r].tag = releases[r].tag /\ releases'[r].draft = releases[r].draft
        /\ \A x \in Runs \ {r} : releases'[x] = releases[x]
    BY <2>1, <2>2 DEF Inductive, TypeOK, Release, Ids
  <2>4. r \notin Published(Version)'
    BY <1>2, <1>4, <2>2, <2>3 DEF Published, Tagged, Exists
  <2>5. PICK job \in {At(r, next), Fault(r)} : jobs' = [jobs EXCEPT ![r] = job]
    BY <1>4, AnsweredOrRecovered
  <2>6. job.known
    BY <1>1, <1>2, <2>5 DEF At, Fault, AfterFailure, Job
  <2>7. Answerable(r, job)'
    BY <2>4, <2>6 DEF Answerable
  <2> QED
    BY <2>3, <2>5, <2>7, AnswerableMoves
<1> QED
  BY <1>3, <1>4 DEF Upload

\* Whatever a run does, it stays answerable for its release.
LEMMA RunStepAnswers ==
  ASSUME Inductive, \A x \in Runs : Answerable(x, jobs[x]), NEW r \in Runs,
         Start(r) \/ Step(r)
  PROVE  \A x \in Runs : Answerable(x, jobs[x])'
<1> USE DEF At, Sha, Active, BeforeDraft, AfterPublish, AfterSeal
<1>0. jobs[r] \in Job /\ Answerable(r, jobs[r])
  BY DEF Inductive, TypeOK
<1>1. CASE Start(r)
  <2>1. PICK trigger \in Triggers, sha \in Commits :
          jobs' = [jobs EXCEPT ![r] = NewJob(trigger, sha)]
    BY <1>1 DEF Start
  <2>2. r \notin Published(Version) /\ UNCHANGED releases
    BY <1>0, <1>1 DEF Start, Answerable, github
  <2>3. Answerable(r, NewJob(trigger, sha))
    BY <2>2 DEF NewJob, Answerable
  <2> QED
    BY <2>1, <2>2, <2>3, ReadAnswers
<1>2. CASE RequireCI(r)
  <2>1. CASE ~PushRelease(r) /\ Sha(r) \in Tested
    <3>1. jobs[r].pc = "ci" /\ UNCHANGED releases
      BY <1>2 DEF RequireCI, Check, github
    <3>2. jobs' = [jobs EXCEPT ![r] = [jobs[r] EXCEPT !.pc = "ended"]]
      BY <1>2, <2>1 DEF RequireCI, Check
    <3>3. Answerable(r, [jobs[r] EXCEPT !.pc = "ended"])
      BY <1>0, <3>1 DEF Answerable, Job
    <3> QED
      BY <3>1, <3>2, <3>3, ReadAnswers
  <2>2. CASE ~(~PushRelease(r) /\ Sha(r) \in Tested)
    <3>1. Check(r, "ci", "settings", Sha(r) \in Tested)
      BY <1>2, <2>2 DEF RequireCI, Check
    <3> QED
      BY <3>1, CheckAnswers
  <2> QED
    BY <2>1, <2>2
<1>3. CASE RequireImmutableSetting(r)
  BY <1>3, CheckAnswers DEF RequireImmutableSetting
<1>4. CASE RequireFreeNamespace(r)
  BY <1>4, CheckAnswers DEF RequireFreeNamespace
<1>5. CASE RequireTag(r)
  BY <1>5, CheckAnswers DEF RequireTag
<1>6. CASE RequireFreeStagingTag(r)
  BY <1>6, CheckAnswers DEF RequireFreeStagingTag
<1>7. CASE CreateDraft(r)
  <2> DEFINE release == [tag |-> r, commit |-> jobs[r].sha, draft |-> TRUE,
                         immutable |-> FALSE, notes |-> TRUE, assets |-> "none"]
  <2>1. PICK job : job = [jobs[r] EXCEPT !.pc = "archive", !.known = TRUE]
    OBVIOUS
  <2>2. /\ jobs[r].pc = "create"
        /\ releases' = [releases EXCEPT ![r] = release]
        /\ Answer(r, job)
    BY <1>7, <2>1 DEF CreateDraft
  <2>3. r \notin Published(Version)' /\ \A x \in Runs \ {r} : releases'[x] = releases[x]
    BY <2>2 DEF Inductive, TypeOK, Ids, Published, Tagged
  <2>4. PICK next \in {job, Fault(r)} : jobs' = [jobs EXCEPT ![r] = next]
    BY <2>2, AnsweredOrRecovered
  <2>5. next.known \/ next.pc = "ended"
    BY <1>0, <2>1, <2>2, <2>4 DEF Fault, AfterFailure, Job
  <2>6. Answerable(r, next)'
    BY <2>3, <2>5 DEF Answerable
  <2> QED
    BY <2>3, <2>4, <2>6, AnswerableMoves
<1>8. CASE UploadArchive(r)
  BY <1>8, UploadAnswers DEF UploadArchive
<1>9. CASE UploadChecksum(r)
  BY <1>9, UploadAnswers DEF UploadChecksum
<1>10. CASE VerifyDraft(r)
  BY <1>10, CheckAnswers DEF VerifyDraft
<1>11. CASE VerifyDraftAssets(r)
  BY <1>11, CheckAnswers DEF VerifyDraftAssets
<1>12. CASE Attest(r)
  <2>1. PICK job : job = [jobs[r] EXCEPT !.pc = "publish_namespace"]
    OBVIOUS
  <2>2. jobs[r].pc = "attest" /\ Answer(r, job) /\ UNCHANGED releases
    BY <1>12, <2>1 DEF Attest
  <2>3. Answerable(r, job)
    BY <1>0, <2>1, <2>2 DEF Answerable, Job
  <2> QED
    BY <2>2, <2>3, AnswerAnswers
<1>13. CASE RecheckNamespace(r)
  BY <1>13, CheckAnswers DEF RecheckNamespace
<1>14. CASE RecheckTag(r)
  BY <1>14, CheckAnswers DEF RecheckTag
<1>15. CASE RecheckDraft(r)
  BY <1>15, CheckAnswers DEF RecheckDraft
<1>16. CASE VerifyAttestation(r)
  BY <1>16, CheckAnswers DEF VerifyAttestation
<1>17. CASE RecheckSetting(r)
  BY <1>17, CheckAnswers DEF RecheckSetting
<1>18. CASE CheckFinalDraft(r)
  BY <1>18, CheckAnswers DEF CheckFinalDraft
<1>19. CASE CheckFinalNamespace(r)
  BY <1>19, CheckAnswers DEF CheckFinalNamespace
<1>20. CASE ClaimTag(r)
  <2>1. CASE Refused(r)
    BY <1>20, <2>1, RefusedAnswers DEF ClaimTag
  <2>2. CASE tags[Version] = NoCommit
    <3>1. PICK job : job = [jobs[r] EXCEPT !.pc = "final_tag"]
      OBVIOUS
    <3>2. jobs[r].pc = "claim" /\ Answer(r, job) /\ UNCHANGED releases
      BY <1>20, <2>2, <3>1 DEF ClaimTag
    <3>3. Answerable(r, job)
      BY <1>0, <3>1, <3>2 DEF Answerable, Job
    <3> QED
      BY <3>2, <3>3, AnswerAnswers
  <2> QED
    BY <1>20, <2>1, <2>2 DEF ClaimTag
<1>21. CASE CheckFinalTag(r)
  BY <1>21, CheckAnswers DEF CheckFinalTag
<1>22. CASE PublishRelease(r)
  <2>1. CASE Refused(r)
    BY <1>22, <2>1, RefusedAnswers DEF PublishRelease
  <2>2. CASE Exists(r) /\ ~releases[r].immutable /\ Published(Version) \subseteq {r}
    <3>1. PICK job : job = [jobs[r] EXCEPT !.pc = "published"]
      OBVIOUS
    <3>2. PICK release : releases' = [releases EXCEPT ![r] = release]
      BY <1>22, <2>2 DEF PublishRelease
    <3>3. jobs[r].pc = "publish" /\ Answer(r, job)
      BY <1>22, <2>2, <3>1 DEF PublishRelease
    <3>4. \A x \in Runs \ {r} : releases'[x] = releases[x]
      BY <3>2 DEF Inductive, TypeOK, Ids
    <3>5. PICK next \in {job, Fault(r)} : jobs' = [jobs EXCEPT ![r] = next]
      BY <3>3, AnsweredOrRecovered
    <3>6. next.known /\ next.pc \in {"published", "recover"}
      BY <1>0, <3>1, <3>3, <3>5 DEF Answerable, Fault, AfterFailure, Job
    <3>7. Answerable(r, next)'
      BY <3>6 DEF Answerable
    <3> QED
      BY <3>4, <3>5, <3>7, AnswerableMoves
  <2> QED
    BY <1>22, <2>1, <2>2 DEF PublishRelease
<1>23. CASE VerifyPublished(r)
  BY <1>23, CheckAnswers DEF VerifyPublished
<1>24. CASE VerifyPublishedTag(r)
  BY <1>24, CheckAnswers DEF VerifyPublishedTag
<1>25. CASE VerifyStagingTag(r)
  <2>1. jobs[r].pc = "published_staging_tag" /\ UNCHANGED releases
    BY <1>25 DEF VerifyStagingTag, github
  <2>2. PICK job \in { [jobs[r] EXCEPT !.pc = "recover", !.verified = TRUE],
                       [jobs[r] EXCEPT !.pc = "delete_staging_tag"],
                       AfterFailure(jobs[r]) } : jobs' = [jobs EXCEPT ![r] = job]
    BY <1>25 DEF VerifyStagingTag, Failed, Inductive, TypeOK
  <2>3. Answerable(r, job)
    BY <1>0, <2>1, <2>2 DEF Answerable, AfterFailure, Job
  <2> QED
    BY <2>1, <2>2, <2>3, ReadAnswers
<1>26. CASE DeleteStagingTag(r)
  <2>1. CASE Refused(r)
    BY <1>26, <2>1, RefusedAnswers DEF DeleteStagingTag
  <2>2. CASE tags[r] # NoCommit
    <3>1. PICK job : job = [jobs[r] EXCEPT !.pc = "recover", !.verified = TRUE]
      OBVIOUS
    <3>2. jobs[r].pc = "delete_staging_tag" /\ Answer(r, job) /\ UNCHANGED releases
      BY <1>26, <2>2, <3>1 DEF DeleteStagingTag
    <3>3. Answerable(r, job)
      BY <1>0, <3>1, <3>2 DEF Answerable, Job
    <3> QED
      BY <3>2, <3>3, AnswerAnswers
  <2> QED
    BY <1>26, <2>1, <2>2 DEF DeleteStagingTag
<1>27. CASE Recover(r)
  <2> DEFINE job == [jobs[r] EXCEPT !.pc = "ended", !.report = ReportOf(r)]
  <2>1. /\ jobs[r].pc = "recover" /\ UNCHANGED releases
        /\ jobs' = [jobs EXCEPT ![r] = job]
    BY <1>27 DEF Recover, github
  <2>2. r \in Published(Version) =>
          ReportOf(r) = IF jobs[r].verified THEN "verified" ELSE "unverified"
    BY DEF ReportOf, Published, Tagged
  <2>3. Answerable(r, job)
    BY <1>0, <2>1, <2>2 DEF Answerable, Job
  <2> HIDE DEF job
  <2> QED
    BY <2>1, <2>3, ReadAnswers
<1>28. CASE Fail(r)
  <2>1. /\ jobs[r].pc \in Active /\ UNCHANGED releases
        /\ jobs' = [jobs EXCEPT ![r] = Fault(r)]
    BY <1>28 DEF Fail, Running, github
  <2>2. Answerable(r, Fault(r))
    BY <1>0, <2>1, FailureAnswers DEF Fault
  <2> QED
    BY <2>1, <2>2, ReadAnswers
<1>29. CASE Lose(r)
  <2> DEFINE job == [jobs[r] EXCEPT !.pc = "lost", !.faulty = TRUE]
  <2>1. UNCHANGED releases /\ jobs' = [jobs EXCEPT ![r] = job]
    BY <1>29 DEF Lose, github
  <2>2. Answerable(r, job)
    BY <1>0 DEF Answerable, Job
  <2> HIDE DEF job
  <2> QED
    BY <2>1, <2>2, ReadAnswers
<1> QED
  BY <1>1, <1>2, <1>3, <1>4, <1>5, <1>6, <1>7, <1>8, <1>9, <1>10, <1>11, <1>12,
     <1>13, <1>14, <1>15, <1>16, <1>17, <1>18, <1>19, <1>20, <1>21, <1>22, <1>23,
     <1>24, <1>25, <1>26, <1>27, <1>28, <1>29 DEF Step

\* A step changes nothing a maintainer could: edits are counted.
LEMMA LeftAloneKept == Inductive /\ LeftAlone /\ [Next]_vars => LeftAlone'
<1> SUFFICES ASSUME Inductive, LeftAlone, [Next]_vars, edits' = 0
             PROVE  \A x \in Runs : Answerable(x, jobs[x])'
  BY DEF LeftAlone
<1>1. CASE UNCHANGED vars
  BY <1>1 DEF vars, LeftAlone, Answerable, Published, Tagged, Exists
<1>2. ASSUME NEW r \in Runs, Start(r) \/ Step(r)
      PROVE  \A x \in Runs : Answerable(x, jobs[x])'
  <2>1. edits' = edits
    BY <1>2 DEF Start, Step, RequireCI, RequireImmutableSetting, RequireFreeNamespace,
      RequireTag, RequireFreeStagingTag, CreateDraft, UploadArchive, UploadChecksum, Upload,
      VerifyDraft, VerifyDraftAssets, Attest, RecheckNamespace, RecheckTag, RecheckDraft,
      VerifyAttestation, RecheckSetting, CheckFinalDraft, CheckFinalNamespace, ClaimTag,
      CheckFinalTag, PublishRelease, VerifyPublished, VerifyPublishedTag, VerifyStagingTag,
      DeleteStagingTag, Recover, Fail, Lose, Check, Answer, Refused
  <2> QED
    BY <1>2, <2>1, RunStepAnswers DEF LeftAlone
<1>3. CASE Maintainer
  <2>1. edits' = edits + 1
    BY <1>3 DEF Maintainer, EditTag, EditRelease, RenameDraft, PublishByHand, DraftByHand,
                ToggleSetting, Edit
  <2> QED
    BY <2>1 DEF Inductive, TypeOK
<1> QED
  BY <1>1, <1>2, <1>3 DEF Next

\* Lines 581-617: a run that published and did not verify has said so once it
\* ends, whatever calls, answers and steps failed in this and in other runs, as
\* long as no maintainer has changed anything.
THEOREM ReleaseUnverifiedIsReported == Spec => [](edits = 0 => UnverifiedIsReported)
<1>1. Init => LeftAlone
  BY DEF Init, LeftAlone, Answerable, NewJob, Published, Tagged, Exists, Active, BeforeDraft
<1>2. LeftAlone => (edits = 0 => UnverifiedIsReported)
  BY DEF LeftAlone, Answerable, UnverifiedIsReported
<1> QED
  BY <1>1, <1>2, LeftAloneKept, ReleaseInductive, PTL DEF Spec
=============================================================================
