------------------------- MODULE ReleaseTrustProofs -------------------------
(***************************************************************************)
(* A run changes only what is its own, and the workflow implements         *)
(* TrustedRelease, for any number of commits, runs, failures and edits.    *)
(*                                                                         *)
(* Both follow from what a step of a run, or of a maintainer, changes      *)
(* (Effect, MaintainerEffect), given the invariant of                      *)
(* ReleasePipelineProofs.                                                  *)
(***************************************************************************)
EXTENDS ReleasePipelineProofs

(* What a step changes.                                                    *)

\* A run changes its own release and staging tag, and may make the version's.
OwnChange(r) ==
  /\ \A id \in Ids \ {r} : releases'[id] = releases[id]
  /\ Exists(r) => releases'[r] # NoRelease
  /\ \A tag \in Tags \ {r, Version} : tags'[tag] = tags[tag]
  /\ tags'[Version] # tags[Version] =>
       tags[Version] = NoCommit /\ tags'[Version] = Sha(r)

\* What is sealed under the version stays as it is.
SealedStays ==
  \A id \in Published(Version) :
    releases[id].immutable =>
      /\ id \in Published(Version)'
      /\ releases'[id].immutable
      /\ releases'[id].assets = releases[id].assets
      /\ tags'[Version] = tags[Version]

\* Being verified changes nothing else, but for the run's staging tag.
Verifies(r) ==
  /\ jobs[r].pc \in AfterTag
  /\ jobs'[r].verified
  /\ UNCHANGED <<releases, attested>>
  /\ tags'[Version] = tags[Version]

\* Attesting adds the run's files and nothing else.
Attests(r) ==
  /\ attested' = attested \cup {r}
  /\ jobs'[r].verified = jobs[r].verified
  /\ UNCHANGED <<releases, tags>>

\* What a run may change in one step.
Effect(r) ==
  /\ \A x \in Runs \ {r} : jobs'[x] = jobs[x]
  /\ jobs'[r].sha = jobs[r].sha \/ ~Exists(r)
  /\ OwnChange(r)
  /\ SealedStays
  /\ \/ Verifies(r)
     \/ Attests(r)
     \/ attested' = attested /\ jobs'[r].verified = jobs[r].verified

\* A failing step changes neither the commit of its run nor the verdict on it.
LEMMA FailureKeepsFields ==
  ASSUME NEW job \in Job
  PROVE  LET faulty == AfterFailure([job EXCEPT !.faulty = TRUE])
             failed == AfterFailure(job)
         IN /\ faulty.sha = job.sha /\ faulty.verified = job.verified
            /\ failed.sha = job.sha /\ failed.verified = job.verified
BY DEF AfterFailure, Job

\* A step that changes no more than its own job.
LEMMA QuietEffect ==
  ASSUME Inductive, NEW r \in Runs, NEW job, jobs' = [jobs EXCEPT ![r] = job],
         job.sha = jobs[r].sha \/ ~Exists(r), job.verified = jobs[r].verified,
         UNCHANGED github
  PROVE  Effect(r)
<1>1. jobs'[r] = job /\ \A x \in Runs \ {r} : jobs'[x] = jobs[x]
  BY DEF Inductive, TypeOK
<1>2. OwnChange(r)
  BY DEF OwnChange, github, Exists
<1>3. SealedStays
  BY DEF SealedStays, github, Published, Tagged, Exists
<1> QED
  BY <1>1, <1>2, <1>3 DEF Effect, github

\* A step that only reads.
LEMMA CheckEffect ==
  ASSUME Inductive, NEW r \in Runs, NEW at, NEW next, NEW ok, Check(r, at, next, ok)
  PROVE  Effect(r)
<1> DEFINE job == IF ok THEN [jobs[r] EXCEPT !.pc = next] ELSE AfterFailure(jobs[r])
<1>1. jobs[r] \in Job
  BY DEF Inductive, TypeOK
<1>2. job.sha = jobs[r].sha /\ job.verified = jobs[r].verified
  BY <1>1, FailureKeepsFields DEF Job
<1>3. jobs' = [jobs EXCEPT ![r] = job] /\ UNCHANGED github
  BY <1>1 DEF Check, Failed, Inductive, TypeOK
<1> HIDE DEF job
<1> QED
  BY <1>2, <1>3, QuietEffect

\* A call that GitHub refuses.
LEMMA RefusedEffect ==
  ASSUME Inductive, NEW r \in Runs, Refused(r)
  PROVE  Effect(r)
<1>1. jobs[r] \in Job
  BY DEF Inductive, TypeOK
<1>2. jobs' = [jobs EXCEPT ![r] = AfterFailure(jobs[r])] /\ UNCHANGED github
  BY DEF Refused, Failed
<1> QED
  BY <1>1, <1>2, FailureKeepsFields, QuietEffect

\* A call: its job and its failed job have the same commit and verdict, unless
\* the call is the one that completes the verification.
LEMMA AnswerFields ==
  ASSUME Inductive, NEW r \in Runs, NEW job, Answer(r, job), job.sha = jobs[r].sha
  PROVE  /\ \A x \in Runs \ {r} : jobs'[x] = jobs[x]
         /\ jobs'[r].sha = jobs[r].sha
         /\ jobs'[r].verified \in {job.verified, jobs[r].verified}
<1>1. jobs[r] \in Job
  BY DEF Inductive, TypeOK
<1>2. Fault(r).sha = jobs[r].sha /\ Fault(r).verified = jobs[r].verified
  BY <1>1, FailureKeepsFields DEF Fault
<1>3. jobs'[r] \in {job, Fault(r)} /\ \A x \in Runs \ {r} : jobs'[x] = jobs[x]
  BY DEF Answer, Inductive, TypeOK
<1> QED
  BY <1>2, <1>3

\* Lines 259-298: uploading changes only the run's own draft.
LEMMA UploadEffect ==
  ASSUME Inductive, NEW r \in Runs, NEW at, NEW next, NEW before, NEW after \in Assets,
         Upload(r, at, next, before, after)
  PROVE  Effect(r)
<1>0. jobs[r] \in Job
  BY DEF Inductive, TypeOK
<1>1. CASE Refused(r)
  BY <1>1, RefusedEffect
<1>2. CASE /\ Exists(r) /\ ~releases[r].immutable
           /\ releases' = [releases EXCEPT ![r].assets = IF @ = before THEN after ELSE "other"]
           /\ Answer(r, At(r, next))
           /\ UNCHANGED <<tags, setting, attested>>
  <2>1. /\ At(r, next).sha = jobs[r].sha
        /\ At(r, next).verified = jobs[r].verified
    BY <1>0 DEF At, Job
  <2>2. PICK new \in Assets :
          releases' = [releases EXCEPT ![r] = [releases[r] EXCEPT !.assets = new]]
    BY <1>2 DEF Assets
  <2>3. releases[r] \in Release
    BY <1>2 DEF Inductive, TypeOK, Ids, Exists
  <2>4. PICK release : release = [releases[r] EXCEPT !.assets = new]
    OBVIOUS
  <2>5. release # NoRelease
    BY <2>3, <2>4, ReleaseAssumption DEF Release
  <2>6. OwnChange(r)
    BY <1>2, <2>2, <2>4, <2>5 DEF OwnChange, Inductive, TypeOK, Ids
  <2>7. SealedStays
    BY <1>2, <2>2 DEF SealedStays, Inductive, TypeOK, Published, Tagged, Exists
  <2> QED
    BY <1>2, <2>1, <2>6, <2>7, AnswerFields DEF Effect
<1> QED
  BY <1>1, <1>2 DEF Upload

\* Whatever a run does.
LEMMA RunEffect ==
  ASSUME Inductive, NEW r \in Runs, Start(r) \/ Step(r)
  PROVE  Effect(r)
<1>0. /\ jobs[r] \in Job /\ Established(r, jobs[r])
      /\ r \in Ids /\ r \in Tags /\ Version \in Tags /\ Version # r
  BY ReleaseAssumption DEF Inductive, TypeOK, Ids, Tags
<1>1. CASE Start(r)
  <2>1. PICK trigger \in Triggers, sha \in Commits :
          jobs' = [jobs EXCEPT ![r] = NewJob(trigger, sha)]
    BY <1>1 DEF Start
  <2>2. ~Exists(r) /\ ~jobs[r].verified
    BY <1>0, <1>1 DEF Start, Established, BeforeDraft
  <2>3. NewJob(trigger, sha).verified = jobs[r].verified
    BY <1>0, <2>2 DEF NewJob, Job
  <2> QED
    BY <1>1, <2>1, <2>2, <2>3, QuietEffect DEF Start
<1>2. CASE \/ RequireCI(r) \/ RequireImmutableSetting(r) \/ RequireFreeNamespace(r)
           \/ RequireTag(r) \/ RequireFreeStagingTag(r)
           \/ VerifyDraft(r) \/ VerifyDraftAssets(r)
           \/ RecheckNamespace(r) \/ RecheckTag(r) \/ RecheckDraft(r)
           \/ VerifyAttestation(r) \/ RecheckSetting(r)
           \/ CheckFinalDraft(r) \/ CheckFinalNamespace(r) \/ CheckFinalTag(r)
           \/ VerifyPublished(r) \/ VerifyPublishedTag(r)
  BY <1>2, CheckEffect
    DEF RequireCI, RequireImmutableSetting, RequireFreeNamespace, RequireTag,
        RequireFreeStagingTag, VerifyDraft, VerifyDraftAssets, RecheckNamespace,
        RecheckTag, RecheckDraft, VerifyAttestation, RecheckSetting, CheckFinalDraft,
        CheckFinalNamespace, CheckFinalTag, VerifyPublished, VerifyPublishedTag
<1>3. CASE CreateDraft(r)
  <2> DEFINE release == [tag |-> r, commit |-> jobs[r].sha, draft |-> TRUE,
                         immutable |-> FALSE, notes |-> TRUE, assets |-> "none"]
             job == [jobs[r] EXCEPT !.pc = "archive", !.known = TRUE]
  <2>1. /\ jobs[r].pc = "create"
        /\ releases' = [releases EXCEPT ![r] = release]
        /\ Answer(r, job)
        /\ UNCHANGED <<tags, setting, attested>>
    BY <1>3 DEF CreateDraft, At, Sha
  <2>2. release # NoRelease /\ ~Exists(r)
    <3>1. release \in Release
      BY <1>0 DEF Release, Assets, Job
    <3> QED
      BY <1>0, <2>1, <3>1, ReleaseAssumption DEF Established, BeforeDraft
  <2>3. job.sha = jobs[r].sha /\ job.verified = jobs[r].verified
    BY <1>0 DEF Job
  <2> HIDE DEF release, job
  <2>4. OwnChange(r)
    BY <2>1, <2>2 DEF OwnChange, Inductive, TypeOK
  <2>5. SealedStays
    BY <2>1, <2>2 DEF SealedStays, Inductive, TypeOK, Published, Tagged, Exists
  <2> QED
    BY <2>1, <2>3, <2>4, <2>5, AnswerFields DEF Effect
<1>4. CASE UploadArchive(r) \/ UploadChecksum(r)
  BY <1>4, UploadEffect DEF UploadArchive, UploadChecksum, Assets
<1>5. CASE Attest(r)
  <2> DEFINE job == [jobs[r] EXCEPT !.pc = "publish_namespace"]
  <2>1. /\ attested' = attested \cup {r}
        /\ Answer(r, job)
        /\ UNCHANGED <<releases, tags, setting>>
    BY <1>5 DEF Attest, At
  <2>2. job.sha = jobs[r].sha /\ job.verified = jobs[r].verified
    BY <1>0 DEF Job
  <2> HIDE DEF job
  <2>3. OwnChange(r) /\ SealedStays
    BY <2>1 DEF OwnChange, SealedStays, Published, Tagged, Exists
  <2> QED
    BY <2>1, <2>2, <2>3, AnswerFields DEF Effect, Attests
<1>6. CASE ClaimTag(r)
  <2>1. CASE tags[Version] = NoCommit
    <3> DEFINE job == [jobs[r] EXCEPT !.pc = "final_tag"]
    <3>1. /\ tags' = [tags EXCEPT ![Version] = jobs[r].sha]
          /\ Answer(r, job)
          /\ UNCHANGED <<releases, setting, attested>>
      BY <1>6, <2>1 DEF ClaimTag, At, Sha
    <3>2. job.sha = jobs[r].sha /\ job.verified = jobs[r].verified
      BY <1>0 DEF Job
    <3> HIDE DEF job
    <3>3. OwnChange(r)
      BY <1>0, <2>1, <3>1 DEF OwnChange, Inductive, TypeOK, Sha, Exists
    <3>4. SealedStays
      BY <2>1 DEF SealedStays, Inductive, Locked
    <3> QED
      BY <3>1, <3>2, <3>3, <3>4, AnswerFields DEF Effect
  <2>2. CASE tags[Version] # NoCommit
    BY <1>6, <2>2, RefusedEffect DEF ClaimTag
  <2> QED
    BY <2>1, <2>2
<1>7. CASE PublishRelease(r)
  <2>1. CASE Exists(r) /\ ~releases[r].immutable /\ Published(Version) \subseteq {r}
    <3> DEFINE release == [releases[r] EXCEPT !.tag = Version, !.commit = jobs[r].sha,
                             !.draft = FALSE, !.immutable = releases[r].draft /\ setting]
               job == [jobs[r] EXCEPT !.pc = "published"]
    <3>1. /\ releases' = [releases EXCEPT ![r] = release]
          /\ tags' = [tags EXCEPT ![Version] = IF @ = NoCommit THEN jobs[r].sha ELSE @]
          /\ Answer(r, job)
          /\ UNCHANGED <<setting, attested>>
      BY <1>7, <2>1 DEF PublishRelease, At, Sha
    <3>2. job.sha = jobs[r].sha /\ job.verified = jobs[r].verified
      BY <1>0 DEF Job
    <3>3. release # NoRelease
      <4>1. releases[r] \in Release /\ setting \in BOOLEAN
        BY <1>0, <2>1 DEF Inductive, TypeOK, Exists
      <4>2. release \in Release
        BY <1>0, <4>1 DEF Release, Job
      <4> QED
        BY <4>2, ReleaseAssumption
    <3> HIDE DEF job, release
    <3>4. OwnChange(r)
      BY <1>0, <3>1, <3>3 DEF OwnChange, Inductive, TypeOK, Sha
    <3>5. SealedStays
      BY <2>1 DEF SealedStays
    <3> QED
      BY <3>1, <3>2, <3>4, <3>5, AnswerFields DEF Effect
  <2>2. CASE ~(Exists(r) /\ ~releases[r].immutable /\ Published(Version) \subseteq {r})
    BY <1>7, <2>2, RefusedEffect DEF PublishRelease
  <2> QED
    BY <2>1, <2>2
<1>8. CASE VerifyStagingTag(r)
  <2>1. jobs[r].pc = "published_staging_tag" /\ UNCHANGED github
    BY <1>8 DEF VerifyStagingTag
  <2>2. PICK job \in { [jobs[r] EXCEPT !.pc = "recover", !.verified = TRUE],
                       [jobs[r] EXCEPT !.pc = "delete_staging_tag"],
                       AfterFailure(jobs[r]) } : jobs' = [jobs EXCEPT ![r] = job]
    BY <1>8 DEF VerifyStagingTag, Failed, Inductive, TypeOK, At
  <2>3. CASE job = [jobs[r] EXCEPT !.pc = "recover", !.verified = TRUE]
    <3>1. /\ jobs'[r].verified /\ jobs'[r].sha = jobs[r].sha
          /\ \A x \in Runs \ {r} : jobs'[x] = jobs[x]
      BY <1>0, <2>2, <2>3 DEF Inductive, TypeOK, Job
    <3>2. OwnChange(r) /\ SealedStays
      BY <2>1 DEF OwnChange, SealedStays, github, Published, Tagged, Exists
    <3> QED
      BY <2>1, <3>1, <3>2 DEF Effect, Verifies, AfterTag, github
  <2>4. CASE job = [jobs[r] EXCEPT !.pc = "delete_staging_tag"]
    <3>1. job.sha = jobs[r].sha /\ job.verified = jobs[r].verified
      BY <1>0, <2>4 DEF Job
    <3> QED
      BY <2>1, <2>2, <3>1, QuietEffect
  <2>5. CASE job = AfterFailure(jobs[r])
    BY <1>0, <2>1, <2>2, <2>5, FailureKeepsFields, QuietEffect
  <2> QED
    BY <2>2, <2>3, <2>4, <2>5
<1>9. CASE DeleteStagingTag(r)
  <2>1. CASE tags[r] # NoCommit
    <3> DEFINE job == [jobs[r] EXCEPT !.pc = "recover", !.verified = TRUE]
    <3>1. /\ jobs[r].pc = "delete_staging_tag"
          /\ tags' = [tags EXCEPT ![r] = NoCommit]
          /\ Answer(r, job)
          /\ UNCHANGED <<releases, setting, attested>>
      BY <1>9, <2>1 DEF DeleteStagingTag, At
    <3>2. job.sha = jobs[r].sha /\ job.verified = TRUE
      BY <1>0 DEF Job
    <3> HIDE DEF job
    <3>3. /\ \A tag \in Tags \ {r} : tags'[tag] = tags[tag]
          /\ tags'[Version] = tags[Version]
      BY <1>0, <3>1 DEF Inductive, TypeOK
    <3>4. OwnChange(r) /\ SealedStays
      BY <3>1, <3>3 DEF OwnChange, SealedStays, Published, Tagged, Exists
    <3>5. /\ \A x \in Runs \ {r} : jobs'[x] = jobs[x]
          /\ jobs'[r].sha = jobs[r].sha
          /\ jobs'[r].verified \in {TRUE, jobs[r].verified}
      BY <3>1, <3>2, AnswerFields
    <3> QED
      BY <3>1, <3>3, <3>4, <3>5 DEF Effect, Verifies, AfterTag
  <2>2. CASE tags[r] = NoCommit
    BY <1>9, <2>2, RefusedEffect DEF DeleteStagingTag
  <2> QED
    BY <2>1, <2>2
<1>10. CASE Recover(r)
  <2> DEFINE job == [jobs[r] EXCEPT !.pc = "ended", !.report = ReportOf(r)]
  <2>1. jobs' = [jobs EXCEPT ![r] = job] /\ UNCHANGED github
    BY <1>10 DEF Recover, At
  <2>2. job.sha = jobs[r].sha /\ job.verified = jobs[r].verified
    BY <1>0 DEF Job
  <2> HIDE DEF job
  <2> QED
    BY <2>1, <2>2, QuietEffect
<1>11. CASE Fail(r)
  <2>1. jobs' = [jobs EXCEPT ![r] = Fault(r)] /\ UNCHANGED github
    BY <1>11 DEF Fail
  <2>2. Fault(r).sha = jobs[r].sha /\ Fault(r).verified = jobs[r].verified
    BY <1>0, FailureKeepsFields DEF Fault
  <2> QED
    BY <2>1, <2>2, QuietEffect
<1>12. CASE Lose(r)
  <2> DEFINE job == [jobs[r] EXCEPT !.pc = "lost", !.faulty = TRUE]
  <2>1. jobs' = [jobs EXCEPT ![r] = job] /\ UNCHANGED github
    BY <1>12 DEF Lose, At
  <2>2. job.sha = jobs[r].sha /\ job.verified = jobs[r].verified
    BY <1>0 DEF Job
  <2> HIDE DEF job
  <2> QED
    BY <2>1, <2>2, QuietEffect
<1> QED
  BY <1>1, <1>2, <1>3, <1>4, <1>5, <1>6, <1>7, <1>8, <1>9, <1>10, <1>11, <1>12 DEF Step

\* Whatever a maintainer does.
LEMMA MaintainerEffect ==
  ASSUME Inductive, Maintainer
  PROVE  SealedStays /\ UNCHANGED <<jobs, attested>>
<1>0. UNCHANGED <<jobs, attested>>
  BY DEF Maintainer, EditTag, EditRelease, RenameDraft, PublishByHand, DraftByHand,
         ToggleSetting, Edit
<1>1. CASE EditTag
  <2>1. PICK tag \in Tags, commit \in Commits \cup {NoCommit} :
          ~Locked(tag) /\ tags' = [tags EXCEPT ![tag] = commit]
    BY <1>1 DEF EditTag
  <2>2. releases' = releases
    BY <1>1 DEF EditTag
  <2>3. Locked(Version) => tags'[Version] = tags[Version]
    BY <2>1 DEF Inductive, TypeOK, Tags
  <2> QED
    BY <1>0, <2>2, <2>3 DEF SealedStays, Locked, Published, Tagged, Exists
<1>2. CASE EditRelease
  <2>1. PICK id \in Ids, new \in Release \cup {NoRelease} :
          /\ releases' = [releases EXCEPT ![id] = new]
          /\ releases[id].immutable =>
               /\ new \in Release
               /\ new = [releases[id] EXCEPT !.notes = new.notes]
          /\ Exists(id)
    <3>1. PICK id \in Ids :
            /\ Exists(id)
            /\ \/ releases' = [releases EXCEPT ![id].notes = ~@]
               \/ /\ ~releases[id].immutable
                  /\ \/ \E assets \in Assets : releases' = [releases EXCEPT ![id].assets = assets]
                     \/ \E commit \in Commits : releases' = [releases EXCEPT ![id].commit = commit]
                     \/ releases' = [releases EXCEPT ![id] = NoRelease]
      BY <1>2 DEF EditRelease
    <3>2. releases[id] \in Release
      BY <3>1 DEF Exists, Inductive, TypeOK
    <3>3. CASE releases' = [releases EXCEPT ![id].notes = ~@]
      <4>1. PICK notes \in BOOLEAN : releases' = [releases EXCEPT ![id].notes = notes]
        BY <3>2, <3>3 DEF Release
      <4>2. PICK new : new = [releases[id] EXCEPT !.notes = notes]
        OBVIOUS
      <4>3. new \in Release /\ new.notes = notes
        BY <3>2, <4>2 DEF Release
      <4> QED
        BY <3>1, <4>1, <4>2, <4>3
    <3>4. CASE ~releases[id].immutable /\ releases' = [releases EXCEPT ![id] = NoRelease]
      BY <3>1, <3>4
    <3>5. ASSUME NEW assets \in Assets, ~releases[id].immutable,
                 releases' = [releases EXCEPT ![id].assets = assets]
          PROVE  \E new \in Release : releases' = [releases EXCEPT ![id] = new]
      BY <3>2, <3>5 DEF Release
    <3>6. ASSUME NEW commit \in Commits, ~releases[id].immutable,
                 releases' = [releases EXCEPT ![id].commit = commit]
          PROVE  \E new \in Release : releases' = [releases EXCEPT ![id] = new]
      BY <3>2, <3>6 DEF Release
    <3> QED
      BY <3>1, <3>3, <3>4, <3>5, <3>6
  <2>2. tags' = tags
    BY <1>2 DEF EditRelease
  <2>3. releases'[id] = new /\ \A x \in Ids \ {id} : releases'[x] = releases[x]
    BY <2>1 DEF Inductive, TypeOK
  <2>4. ASSUME releases[id].immutable
        PROVE  /\ Exists(id)' /\ releases'[id].tag = releases[id].tag
               /\ releases'[id].draft = releases[id].draft
               /\ releases'[id].immutable
               /\ releases'[id].assets = releases[id].assets
    <3>1. releases[id] \in Release
      BY <2>1 DEF Exists, Inductive, TypeOK
    <3> QED
      BY <2>1, <2>3, <2>4, <3>1, ReleaseAssumption DEF Release, Exists
  <2>5. \A x \in Published(Version) :
          releases[x].immutable => x \in Published(Version)' /\ releases'[x].immutable
                                   /\ releases'[x].assets = releases[x].assets
    BY <2>3, <2>4 DEF Published, Tagged, Exists
  <2> QED
    BY <1>0, <2>2, <2>5 DEF SealedStays
<1>3. CASE RenameDraft
  <2>1. PICK id \in Ids, tag \in Tags :
          /\ Exists(id) /\ releases[id].draft
          /\ releases' = [releases EXCEPT ![id].tag = tag]
    BY <1>3 DEF RenameDraft
  <2>2. tags' = tags /\ \A x \in Ids \ {id} : releases'[x] = releases[x]
    BY <1>3, <2>1 DEF RenameDraft, Inductive, TypeOK
  <2> QED
    BY <1>0, <2>1, <2>2 DEF SealedStays, Published, Tagged, Exists
<1>4. CASE PublishByHand
  <2>1. PICK id \in Ids :
          /\ Exists(id) /\ releases[id].draft
          /\ Published(releases[id].tag) = {}
          /\ releases' = [releases EXCEPT ![id].draft = FALSE, ![id].immutable = setting]
          /\ tags' = [tags EXCEPT ![releases[id].tag] = IF @ = NoCommit THEN releases[id].commit
                                                                        ELSE @]
    BY <1>4 DEF PublishByHand
  <2>2. /\ \A x \in Ids \ {id} : releases'[x] = releases[x]
        /\ releases[id].tag # Version => tags'[Version] = tags[Version]
    BY <2>1, ReleaseAssumption DEF Inductive, TypeOK, Tags
  <2> QED
    BY <1>0, <2>1, <2>2 DEF SealedStays, Published, Tagged, Exists
<1>5. CASE DraftByHand
  <2>1. PICK new : releases' = [releases EXCEPT ![ByHand] = new] /\ ~Exists(ByHand)
    BY <1>5 DEF DraftByHand
  <2>2. tags' = tags /\ \A x \in Ids \ {ByHand} : releases'[x] = releases[x]
    BY <1>5, <2>1 DEF DraftByHand, Inductive, TypeOK
  <2> QED
    BY <1>0, <2>1, <2>2 DEF SealedStays, Published, Tagged, Exists
<1>6. CASE ToggleSetting
  BY <1>0, <1>6 DEF ToggleSetting, SealedStays, Published, Tagged, Exists
<1> QED
  BY <1>1, <1>2, <1>3, <1>4, <1>5, <1>6 DEF Maintainer

-----------------------------------------------------------------------------
\* Lines 228-305, 472-521 and 566-579: a run creates one draft, claims one
\* missing tag and deletes one staging tag, and touches nothing else.
THEOREM ReleaseOnlyOwnChanges == Spec => OnlyOwnChanges
<1> DEFINE Own == \A r \in Runs : jobs'[r] # jobs[r] => OwnChange(r)
<1>1. Inductive /\ [Next]_vars => [Own]_vars
  <2> SUFFICES ASSUME Inductive, Next PROVE Own
    OBVIOUS
  <2>1. ASSUME NEW x \in Runs, Start(x) \/ Step(x) PROVE Own
    <3>1. Effect(x)
      BY <2>1, RunEffect
    <3> QED
      BY <3>1 DEF Effect
  <2>2. CASE Maintainer
    BY <2>2, MaintainerEffect
  <2> QED
    BY <2>1, <2>2 DEF Next
<1>2. OnlyOwnChanges <=> [][Own]_vars
  BY DEF OnlyOwnChanges, OwnChange
<1> HIDE DEF Own
<1> QED
  BY <1>1, <1>2, ReleaseInductive, PTL DEF Spec

-----------------------------------------------------------------------------
(* The workflow implements TrustedRelease.                                 *)

\* The release has exactly the files of the run that made it.
Complete(id) == id # ByHand /\ IsComplete(id)

\* A public release determines what is shown of the version, if there is one.
ShownIsPublished ==
  /\ Published(Version) = {} => ShownRelease = NoRelease
  /\ \A id \in Published(Version) :
       ShownRelease =
         [build |-> id, commit |-> tags[Version], sealed |-> releases[id].immutable,
          complete |-> Complete(id)]
  /\ ShownRelease \in Outside!Shown \cup {NoRelease}
  /\ Published(Version) # {} => ShownRelease \in Outside!Shown

\* It is unique, and has the type the abstract specification asks for.
LEMMA ShownUnique == Inductive => ShownIsPublished
<1> SUFFICES ASSUME Inductive PROVE ShownIsPublished
  OBVIOUS
<1>1. CASE Published(Version) = {}
  BY <1>1 DEF ShownRelease, ShownIsPublished
<1>2. ASSUME NEW id \in Published(Version)
      PROVE  /\ ShownRelease =
                  [build |-> id, commit |-> tags[Version],
                   sealed |-> releases[id].immutable, complete |-> Complete(id)]
             /\ ShownRelease \in Outside!Shown
  <2>1. (CHOOSE x \in Published(Version) : TRUE) = id
    BY <1>2 DEF Inductive
  <2>2. ShownRelease =
          [build |-> id, commit |-> tags[Version], sealed |-> releases[id].immutable,
           complete |-> Complete(id)]
    BY <1>2, <2>1 DEF ShownRelease, Complete
  <2>3. id \in Ids /\ releases[id] \in Release /\ tags[Version] \in Commits \cup {NoCommit}
    BY <1>2 DEF Published, Tagged, Exists, Inductive, TypeOK, Tags
  <2>4. releases[id].immutable \in BOOLEAN /\ Complete(id) \in BOOLEAN
    BY <2>3 DEF Release, Complete, IsComplete
  <2> QED
    BY <2>2, <2>3, <2>4 DEF Outside!Shown
<1> QED
  BY <1>1, <1>2 DEF ShownIsPublished

\* And so it is after a step.
LEMMA ShownUniqueAfter == Inductive' => ShownIsPublished'
BY ShownUnique, PTL

\* A release that is sealed is shown as it was, as long as the runs that made
\* releases keep their commits.
LEMMA SealedShown ==
  ASSUME Inductive, Inductive', SealedStays, Outside!Sealed,
         \A r \in Runs : Exists(r) => jobs'[r].sha = jobs[r].sha
  PROVE  ShownRelease' = ShownRelease
<1>1. PICK id \in Published(Version) : TRUE
  BY ShownUnique DEF ShownIsPublished, Outside!Sealed
<1>2. releases[id].immutable
  BY <1>1, ShownUnique DEF ShownIsPublished, Outside!Sealed
<1>3. /\ id \in Published(Version)'
      /\ releases'[id].immutable
      /\ releases'[id].assets = releases[id].assets
      /\ tags'[Version] = tags[Version]
  BY <1>1, <1>2 DEF SealedStays
<1>4. Complete(id)' = Complete(id)
  <2>1. CASE id = ByHand
    BY <2>1 DEF Complete
  <2>2. CASE id # ByHand
    <3>1. id \in Runs /\ Exists(id)
      BY <1>1, <2>2 DEF Published, Tagged, Ids
    <3> QED
      BY <1>3, <3>1 DEF Complete, IsComplete, Sha
  <2> QED
    BY <2>1, <2>2
<1>5. releases[id].immutable \in BOOLEAN /\ releases'[id].immutable \in BOOLEAN
  BY <1>1, <1>3 DEF Inductive, TypeOK, Published, Tagged, Exists, Release
<1>6. ShownRelease =
        [build |-> id, commit |-> tags[Version], sealed |-> releases[id].immutable,
         complete |-> Complete(id)]
  BY <1>1, ShownUnique DEF ShownIsPublished
<1>7. ShownRelease' =
        [build |-> id, commit |-> tags'[Version], sealed |-> releases'[id].immutable,
         complete |-> Complete(id)']
  BY <1>3, ShownUniqueAfter DEF ShownIsPublished
<1> QED
  BY <1>2, <1>3, <1>4, <1>5, <1>6, <1>7

\* A change that neither attests nor verifies shows something else, or nothing
\* has changed.
LEMMA OtherStep ==
  ASSUME Inductive, Inductive', SealedStays, attested' = attested,
         \A r \in Runs : jobs'[r].verified = jobs[r].verified,
         \A r \in Runs : Exists(r) => jobs'[r].sha = jobs[r].sha
  PROVE  [Outside!Next]_(Outside!vars)
<1>1. {r \in Runs : jobs[r].verified}' = {r \in Runs : jobs[r].verified}
  OBVIOUS
<1>2. CASE Outside!Sealed
  BY <1>1, <1>2, SealedShown DEF Outside!vars
<1>3. CASE ~Outside!Sealed
  <2>1. ShownRelease' \in Outside!Shown \cup {NoRelease}
    BY ShownUniqueAfter DEF ShownIsPublished, Outside!Shown
  <2> QED
    BY <1>1, <1>3, <2>1 DEF Outside!Show, Outside!Next
<1> QED
  BY <1>2, <1>3

\* Only what is shown, sealed and complete, is ever verified.
LEMMA VerifyingStep ==
  ASSUME Inductive, Inductive', NEW r \in Runs, Verifies(r),
         \A x \in Runs \ {r} : jobs'[x] = jobs[x], jobs'[r].sha = jobs[r].sha
  PROVE  [Outside!Next]_(Outside!vars)
<1>1. /\ IsSealed(r) /\ tags[Version] = jobs[r].sha
      /\ r \in attested /\ jobs[r].sha \in Tested
  BY DEF Verifies, Inductive, Established, AfterTag, AfterSeal, AfterAttest, Active
<1>2. r \in Published(Version) /\ releases[r].immutable /\ releases[r].assets = "both"
  BY <1>1 DEF IsSealed
<1>3. ShownRelease =
        [build |-> r, commit |-> tags[Version], sealed |-> releases[r].immutable,
         complete |-> Complete(r)]
  BY <1>2, ShownUnique DEF ShownIsPublished
<1>4. ShownRelease # NoRelease
  BY <1>2, ShownUnique, NoReleaseAssumption DEF ShownIsPublished
<1>5. Outside!Sealed
  BY <1>2, <1>3, <1>4 DEF Outside!Sealed
<1>6. ShownRelease.complete /\ ShownRelease.commit \in Tested /\ ShownRelease.build = r
  BY <1>1, <1>2, <1>3, ReleaseAssumption DEF Complete, IsComplete, Sha
<1>7. {x \in Runs : jobs[x].verified}' = {x \in Runs : jobs[x].verified} \cup {r}
  BY DEF Verifies
<1>8. ShownRelease' = ShownRelease
  <2>1. SealedStays
    BY DEF Verifies, SealedStays, Published, Tagged, Exists
  <2> QED
    BY <1>5, <2>1, SealedShown
<1> QED
  BY <1>1, <1>5, <1>6, <1>7, <1>8 DEF Outside!Trust, Outside!Next, Verifies

\* Attesting shows nothing and verifies nothing.
LEMMA AttestingStep ==
  ASSUME Inductive, Inductive', NEW r \in Runs, Attests(r),
         \A x \in Runs \ {r} : jobs'[x] = jobs[x],
         Exists(r) => jobs'[r].sha = jobs[r].sha
  PROVE  [Outside!Next]_(Outside!vars)
<1>1. {x \in Runs : jobs[x].verified}' = {x \in Runs : jobs[x].verified}
  BY DEF Attests
<1>2. Published(Version)' = Published(Version)
  BY DEF Attests, Published, Tagged, Exists
<1>3. ShownRelease' = ShownRelease
  <2>1. CASE Published(Version) = {}
    BY <1>2, <2>1, ShownUnique, ShownUniqueAfter DEF ShownIsPublished
  <2>2. ASSUME NEW id \in Published(Version) PROVE ShownRelease' = ShownRelease
    <3>1. id # ByHand => id \in Runs /\ Exists(id)
      BY <2>2 DEF Published, Tagged, Ids
    <3>2. Complete(id)' = Complete(id)
      BY <3>1 DEF Attests, Complete, IsComplete, Sha
    <3>3. ShownRelease =
            [build |-> id, commit |-> tags[Version], sealed |-> releases[id].immutable,
             complete |-> Complete(id)]
      BY <2>2, ShownUnique DEF ShownIsPublished
    <3>4. ShownRelease' =
            [build |-> id, commit |-> tags'[Version], sealed |-> releases'[id].immutable,
             complete |-> Complete(id)']
      BY <1>2, <2>2, ShownUniqueAfter DEF ShownIsPublished
    <3> QED
      BY <3>2, <3>3, <3>4 DEF Attests
  <2> QED
    BY <2>1, <2>2
<1> QED
  BY <1>1, <1>3 DEF Attests, Outside!Attest, Outside!Next, Outside!vars, Ids

\* Lines 307-579: only a sealed, complete release of a tested commit is ever
\* verified, and what is sealed is shown for good: the workflow implements what
\* it promises its consumers.
THEOREM ReleaseImplements == Spec => ImplementsTrustedRelease
<1>1. Init => Outside!Init
  <2> SUFFICES ASSUME Init PROVE Outside!Init
    OBVIOUS
  <2>1. Inductive
    BY InitInductive
  <2>2. Published(Version) = {}
    BY DEF Init, Published, Tagged, Exists
  <2>3. \A r \in Runs : ~jobs[r].verified
    BY DEF Init, NewJob
  <2> QED
    BY <2>1, <2>2, <2>3, ShownUnique DEF ShownIsPublished, Outside!Init, Init
<1>2. Inductive /\ Inductive' /\ [Next]_vars => [Outside!Next]_(Outside!vars)
  <2> SUFFICES ASSUME Inductive, Inductive', [Next]_vars
               PROVE  [Outside!Next]_(Outside!vars)
    OBVIOUS
  <2>1. ASSUME NEW r \in Runs, Start(r) \/ Step(r)
        PROVE  [Outside!Next]_(Outside!vars)
    <3>1. /\ \A x \in Runs \ {r} : jobs'[x] = jobs[x]
          /\ Exists(r) => jobs'[r].sha = jobs[r].sha
          /\ SealedStays
          /\ \/ Verifies(r)
             \/ Attests(r)
             \/ attested' = attested /\ jobs'[r].verified = jobs[r].verified
      BY <2>1, RunEffect DEF Effect
    <3>2. CASE Verifies(r)
      <4>1. Exists(r)
        BY <3>2 DEF Verifies, Inductive, Established, AfterTag, IsSealed, Published, Tagged
      <4> QED
        BY <3>1, <3>2, <4>1, VerifyingStep
    <3>3. CASE Attests(r)
      BY <3>1, <3>3, AttestingStep
    <3>4. CASE attested' = attested /\ jobs'[r].verified = jobs[r].verified
      BY <3>1, <3>4, OtherStep
    <3> QED
      BY <3>1, <3>2, <3>3, <3>4
  <2>2. CASE Maintainer
    BY <2>2, MaintainerEffect, OtherStep
  <2>3. CASE UNCHANGED vars
    <3>1. SealedStays
      BY <2>3 DEF vars, SealedStays, Published, Tagged, Exists
    <3> QED
      BY <2>3, <3>1, OtherStep DEF vars
  <2> QED
    BY <2>1, <2>2, <2>3 DEF Next
<1> QED
  BY <1>1, <1>2, ReleaseInductive, PTL DEF Spec, ImplementsTrustedRelease, Outside!Spec

\* What the workflow promises its consumers: what was verified is what is shown
\* of the version, for good.
THEOREM ReleaseTrustedIsShown == Spec => []Outside!TrustedIsShown
<1> USE DEF Outside!TrustedIsShown, Outside!Sealed
<1>1. Outside!Init => Outside!TrustedIsShown
  BY DEF Outside!Init
<1>2. Outside!TrustedIsShown /\ [Outside!Next]_(Outside!vars) => Outside!TrustedIsShown'
  <2> SUFFICES ASSUME Outside!TrustedIsShown, [Outside!Next]_(Outside!vars)
               PROVE  Outside!TrustedIsShown'
    OBVIOUS
  <2>1. CASE Outside!Show
    BY <2>1 DEF Outside!Show
  <2>2. CASE Outside!Attest
    BY <2>2 DEF Outside!Attest
  <2>3. CASE Outside!Trust
    BY <2>3 DEF Outside!Trust
  <2>4. CASE UNCHANGED Outside!vars
    BY <2>4 DEF Outside!vars
  <2> QED
    BY <2>1, <2>2, <2>3, <2>4 DEF Outside!Next
<1> QED
  BY <1>1, <1>2, ReleaseImplements, PTL DEF ImplementsTrustedRelease, Outside!Spec
=============================================================================
