--------------------------- MODULE ReleasePipeline ---------------------------
(***************************************************************************)
(* The release workflow, src/.github/workflows/release-contracts.yml, for  *)
(* one version.                                                            *)
(*                                                                         *)
(* Each step of a run that talks to GitHub is an action: it reads what is  *)
(* there at that moment, and everything may change before the next.  The   *)
(* response of a call may be lost after it took effect; any step may fail, *)
(* and the runner may vanish.  Maintainers may move tags, edit, delete and *)
(* publish releases and toggle the repository's setting between any two    *)
(* steps.  What GitHub itself guarantees is in the section External.       *)
(*                                                                         *)
(* A run is a workflow run attempt.  It has a staging tag of its own, and  *)
(* at most one draft: both carry the run's name.  A release's files are    *)
(* compared by digest with those the run has built: assets says which of   *)
(* them are attached, "other" is anything but the run's own.               *)
(*                                                                         *)
(* Left out: the deletion of an immutable release, which is beyond what a  *)
(* workflow can promise; renaming a public release; the paging and delays  *)
(* of GitHub's listings; the nesting of annotated tags (a tag stands for   *)
(* the commit it resolves to); a version's name, and the packaging of its  *)
(* files.                                                                  *)
(***************************************************************************)
EXTENDS Naturals, FiniteSets

CONSTANTS
  Commits,        \* commits of the repository
  Tested,         \* those with a successful run of ci.yml
  Runs,           \* run attempts of the workflow
  Triggers,       \* how a run may be started
  Version,        \* the version's tag
  ByHand,         \* a release of the version that a maintainer makes
  NoCommit,       \* a tag that does not exist
  NoRelease,      \* a release that does not exist
  MaxFailures,    \* bound: failures of calls and runners
  MaxEdits        \* bound: changes by maintainers

Ids == Runs \cup {ByHand}
Tags == Runs \cup {Version}

Assets == {"none", "archive", "both", "other"}

Release ==
  [tag: Tags, commit: Commits, draft: BOOLEAN, immutable: BOOLEAN,
   notes: BOOLEAN, assets: Assets]

\* A tag was pushed, or the workflow dispatched on a tag or on a branch; only
\* a dispatch has the input push_release.
AnyTrigger ==
  [event: {"push"}, onTag: {TRUE}, pushRelease: {FALSE}]
    \cup [event: {"dispatch"}, onTag: BOOLEAN, pushRelease: BOOLEAN]

ASSUME ReleaseAssumption ==
  /\ Tested \subseteq Commits
  /\ Triggers \subseteq AnyTrigger
  /\ Commits # {}
  /\ Triggers # {}
  /\ Version \notin Runs
  /\ ByHand \notin Runs
  /\ NoCommit \notin Commits
  /\ NoRelease \notin Release
  /\ MaxFailures \in Nat
  /\ MaxEdits \in Nat

VARIABLES
  releases,       \* GitHub's releases: a run's draft or what became of it
  tags,           \* the commit each tag resolves to
  setting,        \* the repository makes published releases immutable
  attested,       \* runs whose files are attested
  jobs,           \* the state of each run
  failures, edits \* how many there have been

github == <<releases, tags, setting, attested>>
vars == <<releases, tags, setting, attested, jobs, failures, edits>>

\* The steps, in their order.
Active ==
  {"ci", "settings", "namespace", "tag", "staging_tag", "create", "archive",
   "checksum", "draft", "draft_assets", "attest", "publish_namespace",
   "publish_tag", "publish_draft", "publish_attested", "publish_settings",
   "final_draft", "final_namespace", "claim", "final_tag", "publish",
   "published", "published_tag", "published_staging_tag", "delete_staging_tag",
   "recover"}

Reports == {"none", "absent", "preserved", "verified", "unverified", "unexpected"}

\* known: create-draft has set its release_id.  faulty: a call or the runner
\* failed in this run (read by properties only).
Job ==
  [pc: Active \cup {"idle", "ended", "lost"}, trigger: Triggers, sha: Commits,
   known: BOOLEAN, verified: BOOLEAN, report: Reports, faulty: BOOLEAN]

NewJob(trigger, sha) ==
  [pc |-> "ci", trigger |-> trigger, sha |-> sha, known |-> FALSE,
   verified |-> FALSE, report |-> "none", faulty |-> FALSE]

Exists(id) == releases[id] # NoRelease
Tagged(tag) == {id \in Ids : Exists(id) /\ releases[id].tag = tag}
Published(tag) == {id \in Tagged(tag) : ~releases[id].draft}

Running == {r \in Runs : jobs[r].pc \in Active}

-----------------------------------------------------------------------------
(* How a step ends.                                                        *)

\* Mutant of AfterFailure: the recovery step is skipped after a failed step.
AfterFailureSkipped(job) == [job EXCEPT !.pc = IF job.pc = "recover" THEN "lost" ELSE "ended"]

\* Mutant of AfterFailure: the recovery step does not depend on release_id.
AfterFailureAlways(job) == [job EXCEPT !.pc = IF job.pc = "recover" THEN "lost" ELSE "recover"]

\* The recovery step runs always() once release_id is set, and last.
AfterFailure(job) ==
  IF job.known /\ job.pc # "recover" THEN [job EXCEPT !.pc = "recover"]
  ELSE [job EXCEPT !.pc = IF job.pc = "recover" THEN "lost" ELSE "ended"]

Failed(r) == [jobs EXCEPT ![r] = AfterFailure(jobs[r])]

Fault(r) == AfterFailure([jobs[r] EXCEPT !.faulty = TRUE])

\* A step that only reads, and goes on to the next if what it reads is so.
Check(r, at, next, ok) ==
  /\ jobs[r].pc = at
  /\ jobs' = IF ok THEN [jobs EXCEPT ![r].pc = next] ELSE Failed(r)
  /\ UNCHANGED <<github, failures, edits>>

\* A call has taken effect; its response arrives, or is lost.
Answer(r, job) ==
  /\ \/ jobs' = [jobs EXCEPT ![r] = job] /\ UNCHANGED failures
     \/ /\ failures < MaxFailures
        /\ failures' = failures + 1
        /\ jobs' = [jobs EXCEPT ![r] = Fault(r)]
  /\ UNCHANGED edits

\* GitHub refuses a call.
Refused(r) == jobs' = Failed(r) /\ UNCHANGED <<github, failures, edits>>

At(r, pc) == [jobs[r] EXCEPT !.pc = pc]
Sha(r) == jobs[r].sha
OnTag(r) == jobs[r].trigger.onTag
PushRelease(r) == OnTag(r) \/ jobs[r].trigger.pushRelease

\* What the checks of a draft ask for; not all of them ask for all of it.
IsOwnDraft(r) ==
  Exists(r) /\ releases[r].tag = r /\ releases[r].draft /\ releases[r].notes
ForCommit(r) == releases[r].commit = Sha(r)
HasOwnAssets(r) == Exists(r) /\ releases[r].assets = "both"

-----------------------------------------------------------------------------
(* The steps of a run.                                                     *)

\* One run of a version at a time; a run may start long after its trigger.
Start(r) ==
  /\ Running = {}
  /\ jobs[r].pc = "idle"
  /\ \E trigger \in Triggers, sha \in Commits :
       jobs' = [jobs EXCEPT ![r] = NewJob(trigger, sha)]
  /\ UNCHANGED <<github, failures, edits>>

\* A run that does not release stops here: all later steps are skipped.
RequireCI(r) ==
  Check(r, "ci", IF PushRelease(r) THEN "settings" ELSE "ended", Sha(r) \in Tested)

RequireImmutableSetting(r) == Check(r, "settings", "namespace", setting)

\* Mutant of RequireFreeNamespace: the drafts of earlier attempts are in the way.
RequireNoRelease(r) == Check(r, "namespace", "tag", \A id \in Ids : ~Exists(id))

RequireFreeNamespace(r) ==
  Check(r, "namespace", "tag", Tagged(Version) = {} /\ Tagged(r) = {})

TagAllowsRelease(r) == tags[Version] = IF OnTag(r) THEN Sha(r) ELSE NoCommit

RequireTag(r) == Check(r, "tag", "staging_tag", TagAllowsRelease(r))

RequireFreeStagingTag(r) == Check(r, "staging_tag", "create", tags[r] = NoCommit)

CreateDraft(r) ==
  /\ jobs[r].pc = "create"
  /\ releases' = [releases EXCEPT ![r] =
       [tag |-> r, commit |-> Sha(r), draft |-> TRUE, immutable |-> FALSE,
        notes |-> TRUE, assets |-> "none"]]
  /\ Answer(r, [At(r, "archive") EXCEPT !.known = TRUE])
  /\ UNCHANGED <<tags, setting, attested>>

\* Uploading a name that is there is refused, so that the retry of a call
\* whose response was lost fails.  The name may be among the other assets.
Upload(r, at, next, before, after) ==
  /\ jobs[r].pc = at
  /\ \/ /\ Exists(r) /\ ~releases[r].immutable
        /\ releases[r].assets \in {before, "none", "other"}
        /\ releases' = [releases EXCEPT ![r].assets = IF @ = before THEN after ELSE "other"]
        /\ Answer(r, At(r, next))
        /\ UNCHANGED <<tags, setting, attested>>
     \/ /\ ~(/\ Exists(r) /\ ~releases[r].immutable
             /\ releases[r].assets \in {before, "none"})
        /\ Refused(r)

UploadArchive(r) == Upload(r, "archive", "checksum", "none", "archive")
UploadChecksum(r) == Upload(r, "checksum", "draft", "archive", "both")

VerifyDraft(r) == Check(r, "draft", "draft_assets", IsOwnDraft(r) /\ ForCommit(r))
VerifyDraftAssets(r) == Check(r, "draft_assets", "attest", HasOwnAssets(r))

Attest(r) ==
  /\ jobs[r].pc = "attest"
  /\ attested' = attested \cup {r}
  /\ Answer(r, At(r, "publish_namespace"))
  /\ UNCHANGED <<releases, tags, setting>>

RecheckNamespace(r) == Check(r, "publish_namespace", "publish_tag", Tagged(Version) = {})
RecheckTag(r) == Check(r, "publish_tag", "publish_draft", TagAllowsRelease(r))
RecheckDraft(r) == Check(r, "publish_draft", "publish_attested", IsOwnDraft(r))
VerifyAttestation(r) == Check(r, "publish_attested", "publish_settings", r \in attested)
RecheckSetting(r) == Check(r, "publish_settings", "final_draft", setting)

CheckFinalDraft(r) ==
  Check(r, "final_draft", "final_namespace",
        IsOwnDraft(r) /\ ForCommit(r) /\ HasOwnAssets(r))

CheckFinalNamespace(r) ==
  Check(r, "final_namespace", IF OnTag(r) THEN "final_tag" ELSE "claim",
        Tagged(Version) = {})

\* Mutant of ClaimTag: the tag is set, whether or not it exists.
ForceTag(r) ==
  /\ jobs[r].pc = "claim"
  /\ ~\E id \in Published(Version) : releases[id].immutable
  /\ tags' = [tags EXCEPT ![Version] = Sha(r)]
  /\ Answer(r, At(r, "final_tag"))
  /\ UNCHANGED <<releases, setting, attested>>

\* Only a run on a branch creates the version's tag; it must not exist.
ClaimTag(r) ==
  /\ jobs[r].pc = "claim"
  /\ IF tags[Version] = NoCommit
       THEN /\ tags' = [tags EXCEPT ![Version] = Sha(r)]
            /\ Answer(r, At(r, "final_tag"))
            /\ UNCHANGED <<releases, setting, attested>>
       ELSE Refused(r)

CheckFinalTag(r) == Check(r, "final_tag", "publish", tags[Version] = Sha(r))

\* GitHub makes a missing tag, refuses a second public release of a tag and
\* any change of an immutable one, and seals what is published if it is set to.
PublishRelease(r) ==
  /\ jobs[r].pc = "publish"
  /\ IF Exists(r) /\ ~releases[r].immutable /\ Published(Version) \subseteq {r}
       THEN /\ releases' = [releases EXCEPT ![r] =
                 [@ EXCEPT !.tag = Version, !.commit = Sha(r), !.draft = FALSE,
                           !.immutable = releases[r].draft /\ setting]]
            /\ tags' = [tags EXCEPT ![Version] = IF @ = NoCommit THEN Sha(r) ELSE @]
            /\ Answer(r, At(r, "published"))
            /\ UNCHANGED <<setting, attested>>
       ELSE Refused(r)

\* Mutant of IsOwnRelease: what was published may still change.
IsOwnMutableRelease(r) ==
  HasOwnAssets(r) /\ releases[r].tag = Version /\ ~releases[r].draft /\ releases[r].notes

IsOwnRelease(r) ==
  /\ HasOwnAssets(r)
  /\ releases[r].tag = Version
  /\ ~releases[r].draft
  /\ releases[r].immutable
  /\ releases[r].notes

VerifyPublished(r) == Check(r, "published", "published_tag", IsOwnRelease(r))

\* Mutant of VerifyPublishedTag: the tag is not compared with the commit.
VerifyTagExists(r) ==
  Check(r, "published_tag", "published_staging_tag", tags[Version] # NoCommit)

VerifyPublishedTag(r) ==
  Check(r, "published_tag", "published_staging_tag", tags[Version] = Sha(r))

\* A staging tag somebody made is deleted if it names the run's commit.
VerifyStagingTag(r) ==
  /\ jobs[r].pc = "published_staging_tag"
  /\ jobs' = CASE tags[r] = NoCommit ->
                    [jobs EXCEPT ![r] = [At(r, "recover") EXCEPT !.verified = TRUE]]
               [] tags[r] = Sha(r) -> [jobs EXCEPT ![r].pc = "delete_staging_tag"]
               [] OTHER -> Failed(r)
  /\ UNCHANGED <<github, failures, edits>>

DeleteStagingTag(r) ==
  /\ jobs[r].pc = "delete_staging_tag"
  /\ IF tags[r] # NoCommit
       THEN /\ tags' = [tags EXCEPT ![r] = NoCommit]
            /\ Answer(r, [At(r, "recover") EXCEPT !.verified = TRUE])
            /\ UNCHANGED <<releases, setting, attested>>
       ELSE Refused(r)

ReportOf(r) ==
  IF ~Exists(r) THEN "absent"
  ELSE IF releases[r].draft /\ releases[r].tag = r THEN "preserved"
  ELSE IF releases[r].tag # Version THEN "unexpected"
  ELSE IF jobs[r].verified THEN "verified"
  ELSE "unverified"

Recover(r) ==
  /\ jobs[r].pc = "recover"
  /\ jobs' = [jobs EXCEPT ![r] = [At(r, "ended") EXCEPT !.report = ReportOf(r)]]
  /\ UNCHANGED <<github, failures, edits>>

\* A step fails for a reason of its own, or the run is cancelled.
Fail(r) ==
  /\ r \in Running
  /\ failures < MaxFailures
  /\ failures' = failures + 1
  /\ jobs' = [jobs EXCEPT ![r] = Fault(r)]
  /\ UNCHANGED <<github, edits>>

\* The runner is lost, and the recovery step with it.
Lose(r) ==
  /\ r \in Running
  /\ failures < MaxFailures
  /\ failures' = failures + 1
  /\ jobs' = [jobs EXCEPT ![r] = [At(r, "lost") EXCEPT !.faulty = TRUE]]
  /\ UNCHANGED <<github, edits>>

Step(r) ==
  \/ RequireCI(r) \/ RequireImmutableSetting(r) \/ RequireFreeNamespace(r)
  \/ RequireTag(r) \/ RequireFreeStagingTag(r) \/ CreateDraft(r)
  \/ UploadArchive(r) \/ UploadChecksum(r)
  \/ VerifyDraft(r) \/ VerifyDraftAssets(r) \/ Attest(r)
  \/ RecheckNamespace(r) \/ RecheckTag(r) \/ RecheckDraft(r)
  \/ VerifyAttestation(r) \/ RecheckSetting(r)
  \/ CheckFinalDraft(r) \/ CheckFinalNamespace(r) \/ ClaimTag(r) \/ CheckFinalTag(r)
  \/ PublishRelease(r) \/ VerifyPublished(r) \/ VerifyPublishedTag(r)
  \/ VerifyStagingTag(r) \/ DeleteStagingTag(r) \/ Recover(r)
  \/ Fail(r) \/ Lose(r)

-----------------------------------------------------------------------------
(* External: maintainers, within what GitHub lets them do.                 *)

Edit ==
  /\ edits < MaxEdits
  /\ edits' = edits + 1
  /\ UNCHANGED <<attested, jobs, failures>>

\* The tag of an immutable release can neither be moved nor deleted.
Locked(tag) == \E id \in Published(tag) : releases[id].immutable

EditTag ==
  /\ Edit
  /\ \E tag \in Tags, commit \in Commits \cup {NoCommit} :
       /\ ~Locked(tag)
       /\ tags' = [tags EXCEPT ![tag] = commit]
  /\ UNCHANGED <<releases, setting>>

\* Of an immutable release only the notes can be edited.
EditRelease ==
  /\ Edit
  /\ \E id \in Ids :
       /\ Exists(id)
       /\ \/ releases' = [releases EXCEPT ![id].notes = ~@]
          \/ /\ ~releases[id].immutable
             /\ \/ \E assets \in Assets : releases' = [releases EXCEPT ![id].assets = assets]
                \/ \E commit \in Commits : releases' = [releases EXCEPT ![id].commit = commit]
                \/ releases' = [releases EXCEPT ![id] = NoRelease]
  /\ UNCHANGED <<tags, setting>>

\* A draft is renamed to the version, or to something of its run again.
RenameDraft ==
  /\ Edit
  /\ \E id \in Ids, tag \in Tags :
       /\ Exists(id) /\ releases[id].draft
       /\ releases' = [releases EXCEPT ![id].tag = tag]
  /\ UNCHANGED <<tags, setting>>

PublishByHand ==
  /\ Edit
  /\ \E id \in Ids :
       /\ Exists(id) /\ releases[id].draft
       /\ Published(releases[id].tag) = {}
       /\ releases' = [releases EXCEPT ![id].draft = FALSE, ![id].immutable = setting]
       /\ tags' = [tags EXCEPT ![releases[id].tag] = IF @ = NoCommit THEN releases[id].commit
                                                                     ELSE @]
  /\ UNCHANGED setting

DraftByHand ==
  /\ Edit
  /\ ~Exists(ByHand)
  /\ \E commit \in Commits :
       releases' = [releases EXCEPT ![ByHand] =
         [tag |-> Version, commit |-> commit, draft |-> TRUE, immutable |-> FALSE,
          notes |-> FALSE, assets |-> "other"]]
  /\ UNCHANGED <<tags, setting>>

ToggleSetting ==
  /\ Edit
  /\ setting' = ~setting
  /\ UNCHANGED <<releases, tags>>

Maintainer ==
  \/ EditTag \/ EditRelease \/ RenameDraft \/ PublishByHand \/ DraftByHand
  \/ ToggleSetting

-----------------------------------------------------------------------------
Init ==
  /\ releases = [id \in Ids |-> NoRelease]
  /\ \E commit \in Commits \cup {NoCommit} :
       tags = [tag \in Tags |-> IF tag = Version THEN commit ELSE NoCommit]
  /\ setting \in BOOLEAN
  /\ attested = {}
  /\ jobs = [r \in Runs |->
               [NewJob(CHOOSE trigger \in Triggers : TRUE, CHOOSE commit \in Commits : TRUE)
                  EXCEPT !.pc = "idle"]]
  /\ failures = 0
  /\ edits = 0

Next == (\E r \in Runs : Start(r) \/ Step(r)) \/ Maintainer

Spec == Init /\ [][Next]_vars

\* A runner goes on with its steps; nobody has to start a run or change things.
FairSpec == Spec /\ \A r \in Runs : WF_vars(Step(r))

-----------------------------------------------------------------------------
(* Properties.                                                             *)

TypeOK ==
  /\ releases \in [Ids -> Release \cup {NoRelease}]
  /\ tags \in [Tags -> Commits \cup {NoCommit}]
  /\ setting \in BOOLEAN
  /\ attested \subseteq Runs
  /\ jobs \in [Runs -> Job]
  /\ failures \in 0 .. MaxFailures
  /\ edits \in 0 .. MaxEdits

\* A release of exactly the files of a run, tagged with the run's commit.
IsComplete(r) == releases[r].assets = "both" /\ tags[Version] = Sha(r)

\* A run that reports its release verified is right, and stays right whatever
\* is done to the repository afterwards: the release is public and immutable,
\* has the run's own attested files, and its tag is the commit CI has passed.
VerifiedForGood ==
  \A r \in Runs :
    jobs[r].verified =>
      /\ Published(Version) = {r}
      /\ releases[r].immutable
      /\ IsComplete(r)
      /\ r \in attested
      /\ Sha(r) \in Tested

BeforeDraft == {"idle", "ci", "settings", "namespace", "tag", "staging_tag", "create"}
AfterAttest ==
  {"publish_namespace", "publish_tag", "publish_draft", "publish_attested",
   "publish_settings", "final_draft", "final_namespace", "claim", "final_tag",
   "publish", "published", "published_tag", "published_staging_tag",
   "delete_staging_tag"}
AfterSeal == {"published_tag", "published_staging_tag", "delete_staging_tag"}
AfterTag == {"published_staging_tag", "delete_staging_tag"}

IsSealed(id) ==
  id \in Published(Version) /\ releases[id].immutable /\ releases[id].assets = "both"

\* What a run has established by the time its job is as given.
Established(r, job) ==
  /\ job.pc \in BeforeDraft => ~Exists(r) /\ ~job.known /\ ~job.verified
  /\ job.pc \in Active \ {"ci"} \/ job.verified => job.sha \in Tested
  /\ job.pc \in AfterAttest \/ job.verified => r \in attested
  /\ job.pc \in AfterSeal \/ job.verified => IsSealed(r)
  /\ job.pc \in AfterTag \/ job.verified => IsSealed(r) /\ tags[Version] = job.sha

\* Why a verified release stays right: a step's findings hold until the run has
\* published, a sealed release and its tag cannot change, and a version has one
\* public release.
Inductive ==
  /\ TypeOK
  /\ \A id \in Ids : Exists(id) /\ releases[id].draft => ~releases[id].immutable
  /\ \A x, y \in Published(Version) : x = y
  /\ Locked(Version) => tags[Version] # NoCommit
  /\ \A r \in Runs : Established(r, jobs[r])

\* A run that published and did not verify says so, whatever failed on the way:
\* only a lost runner or a failing recovery step leaves it unsaid.
UnverifiedIsReported ==
  \A r \in Runs :
    /\ jobs[r].pc = "ended"
    /\ r \in Published(Version)
    /\ ~jobs[r].verified
    => jobs[r].report = "unverified"

AfterPublish == AfterSeal \cup {"published", "recover", "ended", "lost"}

\* Why it says so, as long as nobody but the runs changes a release: what a run
\* has made after its draft it knows of, and only a run that has got to its call
\* has published, so that its recovery step follows and comes last.
Answerable(r, job) ==
  /\ job.pc \in Active \ BeforeDraft => job.known
  /\ r \in Published(Version) =>
       /\ job.known /\ job.pc \in AfterPublish
       /\ job.pc = "ended" => job.report = IF job.verified THEN "verified" ELSE "unverified"

LeftAlone == edits = 0 => \A r \in Runs : Answerable(r, jobs[r])

\* A run changes nothing it has not made: it deletes no release, moves and
\* deletes no version tag, and touches no other run's draft or tag.
OnlyOwnChanges ==
  [][\A r \in Runs :
       jobs'[r] # jobs[r] =>
         /\ \A id \in Ids \ {r} : releases'[id] = releases[id]
         /\ Exists(r) => releases'[r] # NoRelease
         /\ \A tag \in Tags \ {r, Version} : tags'[tag] = tags[tag]
         /\ tags'[Version] # tags[Version] =>
              tags[Version] = NoCommit /\ tags'[Version] = Sha(r)]_vars

\* What a run needs to succeed, whatever earlier runs have left behind.
Ready(r) ==
  /\ jobs[r].pc = "ci"
  /\ PushRelease(r)
  /\ Sha(r) \in Tested
  /\ setting
  /\ Published(Version) = {}
  /\ TagAllowsRelease(r)

\* Left alone, such a run releases the version: drafts, tags and attestations
\* of failed attempts are never in the way of a retry.
ReadyRunVerifies ==
  \A r \in Runs : Ready(r) ~> (jobs[r].report = "verified" \/ jobs[r].faulty)

\* "Attach artifacts to a GitHub Release": a dispatch that does not ask for it
\* makes no release.
DryRunReleasesNothing ==
  \A r \in Runs :
    jobs[r].trigger.event = "dispatch" /\ ~jobs[r].trigger.pushRelease => ~Exists(r)

\* What is to be seen of the version from outside.
ShownRelease ==
  IF Published(Version) = {} THEN NoRelease
  ELSE LET id == CHOOSE id \in Published(Version) : TRUE
       IN [build |-> id, commit |-> tags[Version], sealed |-> releases[id].immutable,
           complete |-> id # ByHand /\ IsComplete(id)]

Outside == INSTANCE TrustedRelease WITH
  Commits <- Commits \cup {NoCommit}, Builds <- Ids, Nothing <- NoRelease,
  shown <- ShownRelease, trusted <- {r \in Runs : jobs[r].verified}

ASSUME NoReleaseAssumption == NoRelease \notin Outside!Shown

\* The workflow implements what it promises: nothing is reported verified but a
\* sealed and complete release of a tested commit, and that is shown for good.
ImplementsTrustedRelease == Outside!Spec
=============================================================================
