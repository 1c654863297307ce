----------------------------- MODULE UpdaterJob -----------------------------
(***************************************************************************)
(* An updater job from claim to verdict, over a network that loses,        *)
(* delays, repeats and reorders: a Control Panel that leases commands, an  *)
(* Updater that reports on them, a root Executor that changes the host     *)
(* under one-time grants, and the Agent that follows the policy.           *)
(*                                                                         *)
(* The four programs are not in the repository; what each may do is what   *)
(* the validators of UpdaterProtocol let it do.  What is assumed of them   *)
(* beyond that is said at the action.  A lease is held as the name of its  *)
(* command, its generation and its expiry; LeaseOf gives the envelope.     *)
(***************************************************************************)
EXTENDS UpdaterProtocol

CONSTANTS
  Commands,       \* the jobs of the host
  Envelope,       \* the command envelope of each
  MaxTime,        \* the clock stops here
  MaxGeneration,  \* leases of one command
  MaxResults,     \* results ever sent
  MaxProgress     \* progress reports ever sent

ASSUME CommandsAssumption ==
  /\ Commands \subseteq Names
  /\ Nil \notin Commands
  /\ \A c \in Commands :
       /\ ValidUpdaterCommand(Envelope[c])
       /\ Envelope[c].authorization.target.kind = "application"
       /\ Envelope[c].authorization.expires \in Time

ASSUME BoundsAssumption ==
  /\ MaxTime \in Nat \ {0}
  /\ MaxGeneration \in Nat
  /\ MaxResults \in Nat
  /\ MaxProgress \in Nat

VARIABLES
  now,       \* the clock
  lease,     \* the panel: the lease it gave last, or Nil
  sequence,  \* the panel: the last progress report it accepted on that lease
  verdict,   \* the panel: the result that decided each command that is decided
  held,      \* the updater: the lease it works under, or Nil
  sent,      \* the updater: it has sent a result under that lease
  grants,    \* grants that have been issued and not used
  session,   \* the executor: the mutation it is carrying out, or Nil
  host,      \* the configuration revision each place of the host is at
  progress,  \* progress reports ever sent
  results    \* results ever sent

panel == <<lease, sequence, verdict>>
updater == <<held, sent>>
executor == <<grants, session>>
wire == <<progress, results>>
vars == <<now, panel, updater, executor, host, wire>>

-----------------------------------------------------------------------------
(* The places a port move must be seen in.  The service answers a probe of *)
(* the application at its listener.                                        *)
Places == {"policyDisk", "policyMemory", "agentProjection", "listener"}

Goals == {"target", "rollback"}

Lease(c) == [command: {c}, generation: 1 .. MaxGeneration, expires: 1 .. MaxTime]
Leases == UNION {Lease(c) : c \in Commands}

ASSUME NoLeaseAssumption == Nil \notin Leases

LeaseOf(l) ==
  [version |-> 2, id |-> l.command, generation |-> l.generation, expires |-> l.expires,
   command |-> Envelope[l.command]]

OperationOf(l) == Envelope[l.command].desired.operation

SameLease(left, right) ==
  left.command = right.command /\ left.generation = right.generation

Authorization(c) == Envelope[c].authorization
PlanOf(c) == PortPlanOf(Envelope[c]).plan
MovesPort(c) == IsPortV2(Envelope[c])

\* The revision a command takes the host to, and the one it falls back to.
RevisionOf(c, goal) ==
  LET command == Envelope[c]
  IN IF IsPortV2(command)
       THEN IF goal = "target" THEN PortPlanOf(command).plan.target.configRev
                               ELSE PortPlanOf(command).plan.rollback.configRev
       ELSE IF goal = "target" THEN command.authorization.desiredRev
                               ELSE command.authorization.target.expectedConfigRev

PlacesOf(c) == IF MovesPort(c) THEN Places ELSE {"listener"}

Reached(c, goal) ==
  LET rev == RevisionOf(c, goal) IN \A p \in PlacesOf(c) : host[p] = rev

Undecided(c) == c \notin DOMAIN verdict

\* The panel still leases this generation and waits for its result.
Current(l) == lease # Nil /\ SameLease(l, lease) /\ Undecided(l.command)

-----------------------------------------------------------------------------
Init ==
  /\ now = 1
  /\ lease = Nil
  /\ sequence = 0
  /\ verdict = [c \in {} |-> Nil]
  /\ held = Nil
  /\ sent = FALSE
  /\ grants = {}
  /\ session = Nil
  /\ host \in {[p \in Places |-> Authorization(c).target.expectedConfigRev] : c \in Commands}
  /\ progress = {}
  /\ results = {}

\* The clock stops while there is still a later time to expire at.
Tick ==
  /\ now + 1 < MaxTime
  /\ now' = now + 1
  /\ UNCHANGED <<panel, updater, executor, host, wire>>

-----------------------------------------------------------------------------
(* The panel and the updater: claims.                                      *)

\* The generation of the next lease of a command.
NextGeneration(c) ==
  IF lease # Nil /\ lease.command = c THEN lease.generation + 1 ELSE 1

\* A host works on one command at a time.
MayLease(c) ==
  /\ Undecided(c)
  /\ lease # Nil => lease.command = c \/ ~Undecided(lease.command)

\* A claim with an active job renews that job's lease and no other.
Claim(c, expires) ==
  LET new == [command |-> c, generation |-> NextGeneration(c), expires |-> expires]
  IN /\ MayLease(c)
     /\ held # Nil => held.command = c
     /\ new.generation <= MaxGeneration
     /\ ValidUpdaterLease(now, LeaseOf(new))
     /\ lease' = new
     /\ sequence' = 0
     /\ \/ /\ ValidLeaseEnvelope(now, EncodeLease(LeaseOf(new)))
           /\ held' = new
           /\ sent' = FALSE
        \/ UNCHANGED updater        \* the answer is lost
     /\ UNCHANGED <<now, verdict, executor, host, wire>>

\* The panel answers a claim for a decided job by clear_active_job_id.
ClearActiveJob ==
  /\ held # Nil
  /\ ~Undecided(held.command)
  /\ held' = Nil
  /\ sent' = FALSE
  /\ UNCHANGED <<now, panel, executor, host, wire>>

UpdaterCrash ==
  /\ held # Nil
  /\ held' = Nil
  /\ sent' = FALSE
  /\ UNCHANGED <<now, panel, executor, host, wire>>

-----------------------------------------------------------------------------
(* Grants and the executor.                                                *)

\* The updater asks for no grant after its result, and for one at a time.
IssueGrant(expires) ==
  /\ held # Nil
  /\ ~sent
  /\ \A g \in grants : ~SameLease(g.lease, held)
  /\ Current(held)
  /\ {op \in MutationsFor(OperationOf(held)) :
        ValidGrantRequest(now, [lease |-> EncodeLease(LeaseOf(held)), operation |-> op,
                                session |-> held.command])} # {}
  /\ ValidGrantResponseForLease(now, LeaseOf(held), [expires |-> expires])
  /\ grants' = grants \cup {[lease |-> held, expires |-> expires]}
  /\ UNCHANGED <<now, panel, updater, session, host, wire>>

\* The panel lets a grant be used once, while it is bound to the current
\* lease of an undecided job.  The executor works on one thing at a time.
Consume(g) ==
  /\ session = Nil
  /\ now < g.expires
  /\ Current(g.lease)
  /\ {op \in MutationsFor(OperationOf(g.lease)) :
        ValidGrantBinding(now, [lease |-> LeaseOf(g.lease), operation |-> op,
                                session |-> g.lease.command])} # {}
  /\ grants' = grants \ {g}
  /\ session' = [lease |-> g.lease, goal |-> "target", seen |-> {}, since |-> now]
  /\ UNCHANGED <<now, panel, updater, host, wire>>

Discard(g) ==
  /\ grants' = grants \ {g}
  /\ UNCHANGED <<now, panel, updater, session, host, wire>>

\* What has been seen before a change is not evidence after it.
Write(place) ==
  LET rev == RevisionOf(session.lease.command, session.goal)
  IN /\ session # Nil
     /\ place \in PlacesOf(session.lease.command) \ {"agentProjection"}
     /\ host[place] # rev
     /\ host' = [host EXCEPT ![place] = rev]
     /\ session' = [session EXCEPT !.seen = {}]
     /\ UNCHANGED <<now, panel, updater, grants, wire>>

\* The Agent follows the policy on disk in its own time.
AgentFollows ==
  /\ host' = [host EXCEPT !["agentProjection"] = host["policyDisk"]]
  /\ UNCHANGED <<now, panel, updater, executor, wire>>

TurnBack ==
  /\ session # Nil
  /\ session.goal = "target"
  /\ session' = [session EXCEPT !.goal = "rollback", !.seen = {}]
  /\ UNCHANGED <<now, panel, updater, grants, host, wire>>

\* The places are probed one at a time, while the Agent may still move.
Probe(place) ==
  /\ session # Nil
  /\ place \in PlacesOf(session.lease.command) \ session.seen
  /\ host[place] = RevisionOf(session.lease.command, session.goal)
  /\ session' = [session EXCEPT !.seen = @ \cup {place}]
  /\ UNCHANGED <<now, panel, updater, grants, host, wire>>

ExecutorCrash ==
  /\ session # Nil
  /\ session' = Nil
  /\ UNCHANGED <<now, panel, updater, grants, host, wire>>

-----------------------------------------------------------------------------
(* Results: the updater reports what the session saw, and claims anything. *)

\* What a port result may say; "none" is a result without one.
Claims(c) ==
  {"none"} \cup IF MovesPort(c) THEN {"applied", "unchanged", "rolled_back",
                                      "rollback_failed"} ELSE {}

Observation(seen) ==
  [policyDisk |-> "policyDisk" \in seen, policyMemory |-> "policyMemory" \in seen,
   agentProjection |-> "agentProjection" \in seen, listener |-> "listener" \in seen,
   at |-> now]

RuntimeOf(plan, ref) ==
  IF ref.docker = NoDocker THEN NoDocker
  ELSE [containerID |-> plan.dockerBaseline.containerID, image |-> ref.docker.image]

\* A claim is backed by what its session saw of the goal it claims.
PortReport(plan, claim, seen) ==
  LET ref == ClaimedRef(plan, [result |-> claim])
  IN IF claim = "rollback_failed"
       THEN [result |-> claim, snapshot |-> NoDigest, configRev |-> 0,
             configSHA |-> NoDigest, executorRev |-> 0, executorSHA |-> NoDigest,
             observation |-> Observation({}), runtime |-> NoDocker]
       ELSE [result |-> claim, snapshot |-> ref.snapshot, configRev |-> ref.configRev,
             configSHA |-> ref.configSHA, executorRev |-> ref.executorRev,
             executorSHA |-> ref.executorSHA, observation |-> Observation(seen),
             runtime |-> RuntimeOf(plan, ref)]

GoalOf(outcome) == IF outcome = "rolled_back" THEN "rollback" ELSE "target"

AppliedRev(c, outcome) ==
  IF outcome \in {"succeeded", "rolled_back"} THEN RevisionOf(c, GoalOf(outcome)) ELSE 0

\* The service was probed, and if it was after a rollback that is verified too.
EvidenceOf(c, outcome, seen) ==
  LET item(code) == [code |-> code, at |-> now, rev |-> RevisionOf(c, GoalOf(outcome))]
      probed == IF "listener" \in seen THEN {"application_probe_verified"} ELSE {}
  IN {item(code) : code \in
        CASE outcome = "succeeded"   -> {"phase_observed"} \cup probed
          [] outcome = "rolled_back" ->
               probed \cup IF probed # {} THEN {"rollback_verified"} ELSE {"phase_observed"}
          [] outcome = "ambiguous"   -> {"outcome_ambiguous"}
          [] OTHER                   -> {"phase_observed"}}

StatusOf(outcome) == IF outcome = "ambiguous" THEN "reconciling" ELSE outcome

ErrorOf(outcome) ==
  CASE outcome = "failed"    -> [code |-> "execution_failed", correlation |-> NoName]
    [] outcome = "ambiguous" -> [code |-> "outcome_ambiguous", correlation |-> NoName]
    [] OTHER                 -> Nil

ResultFor(l, outcome, claim, seen) ==
  [version |-> 2, bound |-> ResultBinding(LeaseOf(l)), resend |-> FALSE,
   outcome |-> outcome, status |-> StatusOf(outcome),
   appliedRev |-> AppliedRev(l.command, outcome),
   evidence |-> EvidenceOf(l.command, outcome, seen),
   safeError |-> ErrorOf(outcome),
   port |-> IF claim = "none" THEN Nil ELSE PortReport(PlanOf(l.command), claim, seen)]

\* What the executor's session has seen of a goal of the held lease.
SeenOf(l, goal) ==
  IF session # Nil /\ SameLease(session.lease, l) /\ session.goal = goal
    THEN session.seen ELSE {}

\* Every result the Updater could make up, true of what its session has seen.
Reports ==
  IF held = Nil THEN {}
  ELSE {ResultFor(held, outcome, claim, SeenOf(held, GoalOf(outcome))) :
          outcome \in Outcomes, claim \in Claims(held.command)}

\* The executor has stopped for good when its result is sent: the session
\* ends with it, and no grant of the lease is left.
SendResult(result) ==
  /\ held # Nil
  /\ ~sent
  /\ Cardinality(results) < MaxResults
  /\ \A g \in grants : ~SameLease(g.lease, held)
  /\ ValidUpdaterResult(LeaseOf(held), result)
  /\ results' = results \cup {EncodeResult(result)}
  /\ sent' = TRUE
  /\ session' = IF session # Nil /\ SameLease(session.lease, held) THEN Nil ELSE session
  /\ UNCHANGED <<now, panel, held, grants, host, progress>>

\* A port result that was sent is observed again, later, and sent again.
ObservedAgain(document, time) ==
  [DecodeResult(document) EXCEPT !.port.observation.at = time]

ResendResult(document) ==
  /\ held # Nil
  /\ sent
  /\ Cardinality(results) < MaxResults
  /\ DecodeResult(document).port # Nil
  /\ ValidUpdaterResult(LeaseOf(held), ObservedAgain(document, now))
  /\ results' = results \cup {EncodeResult(ObservedAgain(document, now))}
  /\ UNCHANGED <<now, panel, updater, executor, host, progress>>

\* An ambiguous outcome and a failed rollback decide nothing: the job stays
\* with the host until it is reconciled.
Decides(result) ==
  /\ result.outcome # "ambiguous"
  /\ result.port # Nil => IsAcceptedResult(result.port)

\* The panel decides by the validator alone: it is given no current time.
AcceptResult(document) ==
  /\ lease # Nil
  /\ Undecided(lease.command)
  /\ ValidResultEnvelope(LeaseOf(lease), document)
  /\ Decides(DecodeResult(document))
  /\ verdict' = [c \in DOMAIN verdict \cup {lease.command} |->
                   IF c = lease.command THEN DecodeResult(document) ELSE verdict[c]]
  /\ UNCHANGED <<now, lease, sequence, updater, executor, host, wire>>

\* A repeated port result is stored again if it is equal to the accepted one.
AcceptAgain(document) ==
  /\ lease # Nil
  /\ ~Undecided(lease.command)
  /\ verdict[lease.command].port # Nil
  /\ ValidResultEnvelope(LeaseOf(lease), document)
  /\ DecodeResult(document).port # Nil
  /\ EqualPortResults(verdict[lease.command].port, DecodeResult(document).port)
  /\ verdict' = [verdict EXCEPT ![lease.command] = DecodeResult(document)]
  /\ UNCHANGED <<now, lease, sequence, updater, executor, host, wire>>

-----------------------------------------------------------------------------
(* Progress renews the lease it belongs to.                                *)

SendProgress(number) ==
  LET report == [version |-> 2, bound |-> ProgressBinding(LeaseOf(held)),
                 sequence |-> number, phase |-> "executing", progress |-> 50, at |-> now]
  IN /\ held # Nil
     /\ Cardinality(progress) < MaxProgress
     /\ ValidUpdaterProgress(LeaseOf(held), report)
     /\ progress' = progress \cup {report}
     /\ UNCHANGED <<now, panel, updater, executor, host, results>>

AcceptProgress(report, expires) ==
  LET renewed == [lease EXCEPT !.expires = expires]
  IN /\ lease # Nil
     /\ Undecided(lease.command)
     /\ report.sequence > sequence
     /\ expires >= lease.expires
     /\ ValidProgressEnvelope(LeaseOf(lease), report)
     /\ sequence' = report.sequence
     /\ ValidUpdaterLease(now, LeaseOf(renewed))
     /\ lease' = renewed
     /\ \/ held # Nil /\ SameLease(held, lease) /\ held' = renewed
        \/ UNCHANGED held          \* the answer is lost
     /\ UNCHANGED <<now, verdict, sent, executor, host, wire>>

-----------------------------------------------------------------------------
PanelNext ==
  \/ \E c \in Commands, t \in 1 .. MaxTime : Claim(c, t)
  \/ \E d \in results : AcceptResult(d) \/ AcceptAgain(d)
  \/ \E r \in progress, t \in 1 .. MaxTime : AcceptProgress(r, t)

UpdaterNext ==
  \/ ClearActiveJob
  \/ UpdaterCrash
  \/ \E t \in 1 .. MaxTime : IssueGrant(t)
  \/ \E r \in Reports : SendResult(r)
  \/ \E d \in results : ResendResult(d)
  \/ \E n \in 1 .. MaxProgress : SendProgress(n)

ExecutorNext ==
  \/ \E g \in grants : Consume(g) \/ Discard(g)
  \/ \E p \in Places : Write(p) \/ Probe(p)
  \/ TurnBack
  \/ ExecutorCrash

Next == Tick \/ PanelNext \/ UpdaterNext \/ ExecutorNext \/ AgentFollows

Spec == Init /\ [][Next]_vars
-----------------------------------------------------------------------------
(* Properties.                                                             *)

\* The types of the state.
TypeOK ==
  /\ now \in 1 .. MaxTime
  /\ lease \in Leases \cup {Nil}
  /\ sequence \in Nat
  /\ DOMAIN verdict \subseteq Commands
  /\ held \in Leases \cup {Nil}
  /\ sent \in BOOLEAN
  /\ grants \subseteq [lease: Leases, expires: 1 .. MaxTime]
  /\ session \in [lease: Leases, goal: Goals, seen: SUBSET Places, since: 1 .. MaxTime]
                   \cup {Nil}
  /\ host = [p \in Places |-> host[p]]
  /\ \A r \in progress : r.sequence \in Nat
  /\ \A d \in results : HasFields(d, {"bound", "outcome"})

\* No chain of claims and renewals lets anyone work past the authorization of
\* the command: not the lease the panel keeps, not the copy the Updater works
\* under, not a grant, and no mutation began after it.  Each is bounded by a
\* different check of the code, made at a different time by a different program.
AuthorizationBoundsWork ==
  /\ \A l \in {lease, held} \ {Nil} : l.expires <= Authorization(l.command).expires
  /\ \A g \in grants : g.expires <= Authorization(g.lease.command).expires
  /\ session # Nil => session.since < Authorization(session.lease.command).expires

\* What the Updater marshals from a valid result or progress report passes the
\* checks on the raw document, which the omitted members could fail: no report
\* of a valid outcome is refused by the shape of its own encoding.
WireRoundTrip ==
  /\ \A d \in results : ResultDocument(d) /\ EncodeResult(DecodeResult(d)) = d
  /\ \A d \in progress : ProgressDocument(d)

\* The first port result accepted for a job stands: a result that was observed
\* again and sent again, after the lease was renewed or the answer was lost,
\* never rewrites what was stored, not even the time of its observation.
PortResultStands ==
  [][\A c \in DOMAIN verdict :
       /\ c \in DOMAIN verdict'
       /\ verdict[c].port # Nil => verdict'[c].port = verdict[c].port]_vars

\* The job implements JobVerdict: an accepted success or rollback is true of
\* the host when it is accepted and nothing undoes it, whatever was delayed,
\* repeated or lost and whoever crashed.
JV == INSTANCE JobVerdict WITH
  Nobody <- Nil,
  current <- IF lease = Nil THEN Nil ELSE lease.command,
  verdict <- [c \in Commands |-> IF Undecided(c) THEN "none" ELSE verdict[c].outcome],
  reached <- [c \in Commands |-> {g \in Goals : Reached(c, g)}]

ImplementsJobVerdict == JV!Spec

\* What the panel believes of the command that holds the host is so.
VerdictHolds == JV!VerdictHolds

-----------------------------------------------------------------------------
(* Why the verdict holds: the generation of a lease fences everything that *)
(* was given out under it before.                                          *)

\* A lease that was given: the current one, an older one, or one of a job
\* that is decided.
Given(l) ==
  /\ lease # Nil
  /\ IF l.command = lease.command
       THEN l.generation <= lease.generation
       ELSE ~Undecided(l.command)

LeaseNamed(document) ==
  [command |-> document.bound.progress.leaseID,
   generation |-> document.bound.progress.generation]

\* Nobody holds anything of a lease the panel has not given yet.
NothingFromTheFuture ==
  /\ held # Nil => Given(held)
  /\ \A g \in grants : Given(g.lease)
  /\ session # Nil => Given(session.lease)
  /\ \A d \in results :
       /\ LeaseNamed(d) \in [command: Commands, generation: 1 .. MaxGeneration]
       /\ Given(LeaseNamed(d))

\* What a session has seen still holds, but for the Agent, who may follow a
\* policy that is not the one the session is after.
SeenHolds ==
  session # Nil =>
    LET rev == RevisionOf(session.lease.command, session.goal)
    IN /\ session.seen \subseteq PlacesOf(session.lease.command)
       /\ \A p \in session.seen :
            \/ host[p] = rev
            \/ p = "agentProjection" /\ host["policyDisk"] # rev

\* The host is at the goal, and nobody can work on it for the current lease.
AtRest(goal) ==
  /\ session = Nil
  /\ \A g \in grants : ~SameLease(g.lease, lease)
  /\ held # Nil /\ SameLease(held, lease) => sent
  /\ Reached(lease.command, goal)

GoodOutcomes == {"succeeded", "rolled_back"}

\* A result of the current lease that says where the host is, and a verdict
\* on the current command, were sent when the work was over.
ResultsHold ==
  lease # Nil =>
    /\ \A d \in results :
         SameLease(LeaseNamed(d), lease) /\ d.outcome \in GoodOutcomes =>
           AtRest(GoalOf(d.outcome))
    /\ ~Undecided(lease.command) /\ verdict[lease.command].outcome \in GoodOutcomes =>
         AtRest(GoalOf(verdict[lease.command].outcome))

OutcomeOfPort(port) ==
  CASE port.result = "rolled_back"     -> "rolled_back"
    [] port.result = "rollback_failed" -> "failed"
    [] OTHER                           -> "succeeded"

\* A port result settles the outcome it is stored with, and is stored in the
\* form its encoding is read back in.
VerdictOfPort ==
  \A c \in DOMAIN verdict :
    LET port == verdict[c].port
    IN /\ verdict[c].outcome \in Outcomes \ {"ambiguous"}
       /\ port # Nil =>
            /\ verdict[c].outcome = OutcomeOfPort(port)
            /\ port = Decode(Encode(port, PortResultZeros), PortResultZeros)

\* The invariant the proofs rest on: the types, and that a lease generation
\* fences the grants, the sessions and the results of those before it.
Inductive ==
  /\ TypeOK
  /\ NothingFromTheFuture
  /\ SeenHolds
  /\ ResultsHold
  /\ VerdictOfPort
=============================================================================
