-------------------------- MODULE UpdaterJobProofs --------------------------
(***************************************************************************)
(* An accepted success or rollback is true of the host and stays so,       *)
(* nobody works past an authorization, and what is sent is read as it was  *)
(* meant, for any commands, clock, number of leases and of messages lost,  *)
(* repeated or delayed.                                                    *)
(***************************************************************************)
EXTENDS UpdaterJob, TLAPS

(* The documents.                                                          *)

\* What is read back from a document that carries a member is that member.
LEMMA DecodedFields ==
  ASSUME NEW d, HasFields(d, {"bound", "outcome"})
  PROVE  /\ DecodeResult(d).bound = d.bound
         /\ DecodeResult(d).outcome = d.outcome
BY DEF DecodeResult, Decode, HasFields, ResultZeros

\* What was read from a document is what is read from its encoding.
LEMMA DecodedIsCanonical ==
  ASSUME NEW d, NEW zeros
  PROVE  Decode(Encode(Decode(d, zeros), zeros), zeros) = Decode(d, zeros)
<1> DEFINE record == Decode(d, zeros)
<1> DEFINE document == Encode(record, zeros)
<1>1. /\ DOMAIN record = DOMAIN d \cup DOMAIN zeros
      /\ record = [f \in DOMAIN record |-> record[f]]
  BY DEF Decode
<1>2. /\ DOMAIN document = {f \in DOMAIN record : f \in DOMAIN zeros => record[f] # zeros[f]}
      /\ \A f \in DOMAIN document : document[f] = record[f]
  BY DEF Encode
<1>3. DOMAIN document \cup DOMAIN zeros = DOMAIN record
  BY <1>1, <1>2
<1>4. ASSUME NEW f \in DOMAIN record
      PROVE  (IF f \in DOMAIN document THEN document[f] ELSE zeros[f]) = record[f]
  BY <1>2
<1> HIDE DEF record, document
<1>5. Decode(document, zeros) =
        [f \in DOMAIN record |-> IF f \in DOMAIN document THEN document[f] ELSE zeros[f]]
  BY <1>3 DEF Decode
<1>6. Decode(document, zeros) = record
  BY <1>1, <1>4, <1>5
<1> QED
  BY <1>6 DEF record, document

\* The port result of a decoded result is in its canonical form.
LEMMA DecodedPort ==
  ASSUME NEW d, DecodeResult(d).port # Nil
  PROVE  LET port == DecodeResult(d).port
         IN port = Decode(Encode(port, PortResultZeros), PortResultZeros)
<1> DEFINE raw == Decode(d, ResultZeros)
<1>1. "port" \in DOMAIN raw
  BY DEF Decode, ResultZeros
<1>2. DecodeResult(d).port =
        (IF raw.port = Nil THEN Nil ELSE Decode(raw.port, PortResultZeros))
  BY <1>1 DEF DecodeResult, Decode
<1> HIDE DEF raw
<1> QED
  BY <1>2, DecodedIsCanonical

\* Two port results in that form are equal when their encodings are.
LEMMA EqualIsSame ==
  ASSUME NEW left, NEW right, EqualPortResults(left, right),
         left = Decode(Encode(left, PortResultZeros), PortResultZeros),
         right = Decode(Encode(right, PortResultZeros), PortResultZeros)
  PROVE  left = right
BY DEF EqualPortResults

\* Encoding keeps the lease a result belongs to and its outcome.
LEMMA EncodedFields ==
  ASSUME NEW result, {"bound", "outcome"} \subseteq DOMAIN result
  PROVE  LET document == EncodeResult(result)
         IN /\ HasFields(document, {"bound", "outcome"})
            /\ document.bound = result.bound
            /\ document.outcome = result.outcome
<1> DEFINE sent1 == [result EXCEPT
                       !.port = IF @ = Nil THEN Nil ELSE Encode(@, PortResultZeros)]
<1>1. /\ {"bound", "outcome"} \subseteq DOMAIN sent1
      /\ sent1.bound = result.bound
      /\ sent1.outcome = result.outcome
  OBVIOUS
<1>2. EncodeResult(result) = Encode(sent1, ResultZeros)
  BY DEF EncodeResult
<1> HIDE DEF sent1
<1>3. /\ {"bound", "outcome"} \subseteq DOMAIN Encode(sent1, ResultZeros)
      /\ Encode(sent1, ResultZeros).bound = sent1.bound
      /\ Encode(sent1, ResultZeros).outcome = sent1.outcome
  BY <1>1 DEF Encode, ResultZeros
<1> QED
  BY <1>1, <1>2, <1>3 DEF HasFields

\* A report carries the lease it was made under and its outcome, also on the
\* wire.
LEMMA ReportOnWire ==
  ASSUME NEW l, NEW outcome, NEW claim, NEW seen
  PROVE  LET result == ResultFor(l, outcome, claim, seen)
             document == EncodeResult(result)
         IN /\ result.bound = ResultBinding(LeaseOf(l))
            /\ result.outcome = outcome
            /\ HasFields(document, {"bound", "outcome"})
            /\ document.bound = result.bound
            /\ document.outcome = result.outcome
<1> DEFINE result == ResultFor(l, outcome, claim, seen)
<1>1. result.bound = ResultBinding(LeaseOf(l)) /\ result.outcome = outcome
  BY DEF ResultFor
<1>2. {"bound", "outcome"} \subseteq DOMAIN result
  BY DEF ResultFor
<1> HIDE DEF result
<1>3. /\ HasFields(EncodeResult(result), {"bound", "outcome"})
      /\ EncodeResult(result).bound = result.bound
      /\ EncodeResult(result).outcome = result.outcome
  BY <1>2, EncodedFields
<1> QED
  BY <1>1, <1>3 DEF result

\* A binding names the lease it was made of.
LEMMA BindingNames ==
  ASSUME NEW l, NEW d, d.bound = ResultBinding(LeaseOf(l))
  PROVE  LeaseNamed(d) = [command |-> l.command, generation |-> l.generation]
BY DEF LeaseNamed, ResultBinding, ProgressBinding, LeaseOf

\* A lease is a record of a command.
LEMMA LeaseShape ==
  ASSUME NEW l \in Leases
  PROVE  /\ l.command \in Commands
         /\ l.generation \in 1 .. MaxGeneration
         /\ l.expires \in 1 .. MaxTime
         /\ l = [command |-> l.command, generation |-> l.generation, expires |-> l.expires]
         /\ l # Nil
BY NoLeaseAssumption DEF Leases, Lease

\* A record of a command, a generation and an expiry is a lease.
LEMMA LeaseMade ==
  ASSUME NEW c \in Commands, NEW g \in 1 .. MaxGeneration, NEW t \in 1 .. MaxTime
  PROVE  [command |-> c, generation |-> g, expires |-> t] \in Leases
BY DEF Leases, Lease

\* An action of a renewal keeps the name of the lease.
LEMMA RenewedShape ==
  ASSUME NEW l \in Leases, NEW t \in 1 .. MaxTime
  PROVE  /\ [l EXCEPT !.expires = t] \in Leases
         /\ [l EXCEPT !.expires = t] =
              [command |-> l.command, generation |-> l.generation, expires |-> t]
BY LeaseShape, LeaseMade

\* A report of the Updater is made under the lease it holds, of what the
\* session of that lease has seen.
LEMMA ReportShape ==
  ASSUME NEW r \in Reports
  PROVE  /\ held # Nil
         /\ \E outcome \in Outcomes, claim \in Claims(held.command) :
              r = ResultFor(held, outcome, claim, SeenOf(held, GoalOf(outcome)))
BY DEF Reports

\* Observing again changes neither the lease nor the outcome of a result.
LEMMA AgainFields ==
  ASSUME NEW d, NEW t, HasFields(d, {"bound", "outcome"})
  PROVE  LET again == EncodeResult(ObservedAgain(d, t))
         IN /\ HasFields(again, {"bound", "outcome"})
            /\ again.bound = d.bound
            /\ again.outcome = d.outcome
<1> DEFINE result == ObservedAgain(d, t)
<1>1. {"bound", "outcome"} \subseteq DOMAIN DecodeResult(d)
  BY DEF DecodeResult, Decode, HasFields
<1>2. /\ {"bound", "outcome"} \subseteq DOMAIN result
      /\ result.bound = DecodeResult(d).bound
      /\ result.outcome = DecodeResult(d).outcome
  BY <1>1 DEF ObservedAgain
<1> HIDE DEF result
<1>3. /\ HasFields(EncodeResult(result), {"bound", "outcome"})
      /\ EncodeResult(result).bound = d.bound
      /\ EncodeResult(result).outcome = d.outcome
  BY <1>2, DecodedFields, EncodedFields
<1> QED
  BY <1>3 DEF result

-----------------------------------------------------------------------------
(* Type correctness.                                                       *)

LEMMA InitTypeOK == Init => TypeOK
<1> SUFFICES ASSUME Init PROVE TypeOK
  OBVIOUS
<1>1. host = [p \in Places |-> host[p]]
  <2>1. PICK c \in Commands : host = [p \in Places |-> Authorization(c).target.expectedConfigRev]
    BY DEF Init
  <2> QED
    BY <2>1
<1>2. DOMAIN verdict \subseteq Commands
  BY DEF Init
<1>3. now \in 1 .. MaxTime /\ sequence \in Nat
  BY BoundsAssumption DEF Init
<1> QED
  BY <1>1, <1>2, <1>3 DEF Init, TypeOK

\* A claim stays within the generations there are.
LEMMA GenerationBounded ==
  ASSUME TypeOK, NEW c, NEW t, Claim(c, t)
  PROVE  NextGeneration(c) \in 1 .. MaxGeneration
<1>1. NextGeneration(c) <= MaxGeneration
  BY DEF Claim
<1>2. lease # Nil => lease.generation \in 1 .. MaxGeneration
  BY LeaseShape DEF TypeOK
<1>3. NextGeneration(c) \in Nat \ {0}
  BY <1>2, BoundsAssumption DEF NextGeneration
<1> QED
  BY <1>1, <1>3, BoundsAssumption

\* A renewed lease is a lease.
LEMMA ClaimTypeOK ==
  ASSUME TypeOK, NEW c \in Commands, NEW t \in 1 .. MaxTime, Claim(c, t)
  PROVE  TypeOK'
<1> DEFINE new == [command |-> c, generation |-> NextGeneration(c), expires |-> t]
<1>1. NextGeneration(c) \in 1 .. MaxGeneration
  BY GenerationBounded
<1>2. new \in Leases
  BY <1>1, LeaseMade
<1>3. lease' = new /\ sequence' = 0 /\ held' \in {new, held} /\ sent' \in {FALSE, sent}
  BY DEF Claim, updater
<1>4. UNCHANGED <<now, verdict, grants, session, host, progress, results>>
  BY DEF Claim, executor, wire
<1> HIDE DEF new
<1> QED
  BY <1>2, <1>3, <1>4 DEF TypeOK

LEMMA AcceptProgressTypeOK ==
  ASSUME TypeOK, NEW r \in progress, NEW t \in 1 .. MaxTime, AcceptProgress(r, t)
  PROVE  TypeOK'
<1> DEFINE renewed == [lease EXCEPT !.expires = t]
<1>1. lease \in Leases
  BY DEF AcceptProgress, TypeOK
<1>2. renewed \in Leases
  BY <1>1, RenewedShape
<1>3. lease' = renewed /\ sequence' = r.sequence /\ held' \in {renewed, held}
  BY DEF AcceptProgress
<1>4. UNCHANGED <<now, verdict, sent, grants, session, host, progress, results>>
  BY DEF AcceptProgress, executor, wire
<1> HIDE DEF renewed
<1> QED
  BY <1>2, <1>3, <1>4 DEF TypeOK

LEMMA PanelTypeOK ==
  ASSUME TypeOK, PanelNext
  PROVE  TypeOK'
<1>1. ASSUME NEW d \in results, AcceptResult(d) \/ AcceptAgain(d)
      PROVE  TypeOK'
  <2>1. lease # Nil /\ lease.command \in Commands
    BY <1>1, LeaseShape DEF AcceptResult, AcceptAgain, TypeOK
  <2>2. DOMAIN verdict' \subseteq DOMAIN verdict \cup {lease.command}
    BY <1>1 DEF AcceptResult, AcceptAgain
  <2>3. UNCHANGED <<now, lease, sequence, held, sent, grants, session, host, progress, results>>
    BY <1>1 DEF AcceptResult, AcceptAgain, updater, executor, wire
  <2> QED
    BY <2>1, <2>2, <2>3 DEF TypeOK
<1> QED
  BY <1>1, ClaimTypeOK, AcceptProgressTypeOK DEF PanelNext

LEMMA UpdaterTypeOK ==
  ASSUME TypeOK, UpdaterNext
  PROVE  TypeOK'
<1>1. ASSUME ClearActiveJob \/ UpdaterCrash
      PROVE  TypeOK'
  BY <1>1 DEF ClearActiveJob, UpdaterCrash, TypeOK, panel, executor, wire
<1>2. ASSUME NEW t \in 1 .. MaxTime, IssueGrant(t)
      PROVE  TypeOK'
  <2>1. held \in Leases
    BY <1>2 DEF IssueGrant, TypeOK
  <2>2. [lease |-> held, expires |-> t] \in [lease: Leases, expires: 1 .. MaxTime]
    BY <2>1
  <2> QED
    BY <1>2, <2>2 DEF IssueGrant, TypeOK, panel, updater, wire
<1>3. ASSUME NEW r \in Reports, SendResult(r)
      PROVE  TypeOK'
  <2>1. HasFields(EncodeResult(r), {"bound", "outcome"})
    BY ReportShape, ReportOnWire
  <2>2. /\ results' = results \cup {EncodeResult(r)}
        /\ sent' = TRUE
        /\ session' \in {Nil, session}
        /\ UNCHANGED <<now, lease, sequence, verdict, held, grants, host, progress>>
    BY <1>3 DEF SendResult, panel
  <2> QED
    BY <2>1, <2>2 DEF TypeOK
<1>4. ASSUME NEW d \in results, ResendResult(d)
      PROVE  TypeOK'
  <2> DEFINE again == EncodeResult(ObservedAgain(d, now))
  <2>1. HasFields(again, {"bound", "outcome"})
    BY AgainFields DEF TypeOK
  <2>2. /\ results' = results \cup {again}
        /\ UNCHANGED <<now, lease, sequence, verdict, held, sent, grants, session, host, progress>>
    BY <1>4 DEF ResendResult, panel, updater, executor
  <2> HIDE DEF again
  <2> QED
    BY <2>1, <2>2 DEF TypeOK
<1>5. ASSUME NEW n \in 1 .. MaxProgress, SendProgress(n)
      PROVE  TypeOK'
  <2>1. PICK report : progress' = progress \cup {report} /\ report.sequence = n
    BY <1>5 DEF SendProgress
  <2>2. UNCHANGED <<now, lease, sequence, verdict, held, sent, grants, session, host, results>>
    BY <1>5 DEF SendProgress, panel, updater, executor
  <2> QED
    BY <2>1, <2>2, BoundsAssumption DEF TypeOK
<1> QED
  BY <1>1, <1>2, <1>3, <1>4, <1>5 DEF UpdaterNext

LEMMA ExecutorTypeOK ==
  ASSUME TypeOK, ExecutorNext
  PROVE  TypeOK'
<1>1. ASSUME NEW g \in grants, Consume(g)
      PROVE  TypeOK'
  <2>1. [lease |-> g.lease, goal |-> "target", seen |-> {}, since |-> now] \in
          [lease: Leases, goal: Goals, seen: SUBSET Places, since: 1 .. MaxTime]
    BY DEF TypeOK, Goals
  <2> QED
    BY <1>1, <2>1 DEF Consume, TypeOK, panel, updater, wire
<1>2. ASSUME NEW g \in grants, Discard(g)
      PROVE  TypeOK'
  BY <1>2 DEF Discard, TypeOK, panel, updater, wire
<1>3. ASSUME NEW p \in Places, Write(p)
      PROVE  TypeOK'
  BY <1>3 DEF Write, TypeOK, panel, updater, wire
<1>4. ASSUME NEW p \in Places, Probe(p)
      PROVE  TypeOK'
  BY <1>4 DEF Probe, TypeOK, panel, updater, wire
<1>5. ASSUME TurnBack
      PROVE  TypeOK'
  BY <1>5 DEF TurnBack, TypeOK, Goals, panel, updater, wire
<1>6. ASSUME ExecutorCrash
      PROVE  TypeOK'
  BY <1>6 DEF ExecutorCrash, TypeOK, panel, updater, wire
<1> QED
  BY <1>1, <1>2, <1>3, <1>4, <1>5, <1>6 DEF ExecutorNext

LEMMA NextTypeOK == TypeOK /\ [Next]_vars => TypeOK'
<1> SUFFICES ASSUME TypeOK, [Next]_vars PROVE TypeOK'
  OBVIOUS
<1>1. CASE Tick
  BY <1>1, BoundsAssumption DEF Tick, TypeOK, panel, updater, executor, wire
<1>2. CASE AgentFollows
  BY <1>2 DEF AgentFollows, TypeOK, panel, updater, executor, wire
<1>3. CASE UNCHANGED vars
  BY <1>3 DEF vars, TypeOK, panel, updater, executor, wire
<1> QED
  BY <1>1, <1>2, <1>3, PanelTypeOK, UpdaterTypeOK, ExecutorTypeOK DEF Next

-----------------------------------------------------------------------------
(* A generation that was given stays given, and a claim gives a new one.   *)

\* Only the panel changes what has been given.
LEMMA OnlyPanel ==
  ASSUME [Next]_vars
  PROVE  PanelNext \/ UNCHANGED panel
BY DEF Next, vars, Tick, UpdaterNext, ExecutorNext, AgentFollows, ClearActiveJob,
       UpdaterCrash, IssueGrant, SendResult, ResendResult, SendProgress, Consume, Discard,
       Write, Probe, TurnBack, ExecutorCrash

\* What a claim does to the panel.
LEMMA ClaimShape ==
  ASSUME TypeOK, NEW c \in Commands, NEW t \in 1 .. MaxTime, Claim(c, t)
  PROVE  /\ lease' \in Leases
         /\ lease'.command = c
         /\ lease'.generation = NextGeneration(c)
         /\ lease'.expires = t
         /\ Undecided(c)
         /\ lease # Nil => lease.command = c \/ ~Undecided(lease.command)
         /\ UNCHANGED <<now, verdict, grants, session, host, progress, results>>
         /\ held' = lease' \/ held' = held
<1>1. lease' \in Leases \cup {Nil}
  BY ClaimTypeOK DEF TypeOK
<1>2. lease' = [command |-> c, generation |-> NextGeneration(c), expires |-> t]
  BY DEF Claim
<1>3. NextGeneration(c) \in 1 .. MaxGeneration
  BY GenerationBounded
<1>4. lease' \in Leases
  BY <1>2, <1>3, LeaseMade
<1> QED
  BY <1>2, <1>4 DEF Claim, MayLease, executor, wire, updater

\* A lease that is given after the step.
GivenNext(l) ==
  /\ lease' # Nil
  /\ IF l.command = lease'.command
       THEN l.generation <= lease'.generation
       ELSE l.command \in DOMAIN verdict'

\* What was given before a claim is not of the lease the claim gives.
LEMMA ClaimFences ==
  ASSUME TypeOK, NEW c \in Commands, NEW t \in 1 .. MaxTime, Claim(c, t),
         NEW l, l.generation \in Nat, Given(l)
  PROVE  /\ GivenNext(l)
         /\ ~SameLease(l, lease')
<1>1. /\ lease # Nil /\ lease.generation \in Nat
      /\ lease' # Nil /\ lease'.command = c
      /\ lease'.generation = NextGeneration(c)
      /\ Undecided(c)
      /\ lease.command = c \/ ~Undecided(lease.command)
      /\ UNCHANGED verdict
  BY ClaimShape, LeaseShape DEF TypeOK, Given
<1>2. CASE lease.command = c
  <2>1. lease'.generation = lease.generation + 1
    BY <1>1, <1>2 DEF NextGeneration
  <2> QED
    BY <1>1, <1>2, <2>1 DEF Given, GivenNext, SameLease, Undecided
<1>3. CASE lease.command # c
  <2>1. ~Undecided(l.command) /\ l.command # c
    BY <1>1, <1>3 DEF Given
  <2> QED
    BY <1>1, <2>1 DEF Given, GivenNext, SameLease, Undecided
<1> QED
  BY <1>2, <1>3

\* A renewal gives the lease it renews.
LEMMA RenewalShape ==
  ASSUME TypeOK, NEW r \in progress, NEW t \in 1 .. MaxTime, AcceptProgress(r, t)
  PROVE  /\ lease # Nil /\ lease' # Nil
         /\ lease'.command = lease.command
         /\ lease'.generation = lease.generation
         /\ lease'.expires = t
         /\ Undecided(lease.command)
         /\ UNCHANGED <<now, verdict, sent, grants, session, host, progress, results>>
         /\ held' = held \/ (held' = lease' /\ held # Nil /\ SameLease(held, lease))
<1>1. lease \in Leases /\ lease # Nil
  BY DEF AcceptProgress, TypeOK
<1>2. /\ lease' \in Leases
      /\ lease' = [command |-> lease.command, generation |-> lease.generation, expires |-> t]
  BY <1>1, RenewedShape DEF AcceptProgress
<1>3. lease' # Nil
  BY <1>2, LeaseShape
<1> QED
  BY <1>1, <1>2, <1>3 DEF AcceptProgress, executor, wire

\* What was given stays given.
LEMMA GivenStays ==
  ASSUME TypeOK, [Next]_vars, NEW l, l.generation \in Nat, Given(l)
  PROVE  GivenNext(l)
<1>1. CASE UNCHANGED panel
  BY <1>1 DEF panel, Given, GivenNext, Undecided
<1>2. ASSUME NEW c \in Commands, NEW t \in 1 .. MaxTime, Claim(c, t)
      PROVE  GivenNext(l)
  BY <1>2, ClaimFences
<1>3. ASSUME NEW d \in results, AcceptResult(d) \/ AcceptAgain(d)
      PROVE  GivenNext(l)
  <2>1. lease' = lease /\ DOMAIN verdict \subseteq DOMAIN verdict'
    BY <1>3 DEF AcceptResult, AcceptAgain
  <2> QED
    BY <2>1 DEF Given, GivenNext, Undecided
<1>4. ASSUME NEW r \in progress, NEW t \in 1 .. MaxTime, AcceptProgress(r, t)
      PROVE  GivenNext(l)
  BY <1>4, RenewalShape DEF Given, GivenNext, Undecided
<1> QED
  BY <1>1, <1>2, <1>3, <1>4, OnlyPanel DEF PanelNext

\* Nobody comes to hold anything of a lease that has not been given.
LEMMA NextNothingFromTheFuture ==
  ASSUME TypeOK, NothingFromTheFuture, [Next]_vars
  PROVE  NothingFromTheFuture'
<1>1. /\ held # Nil => held.generation \in Nat /\ GivenNext(held)
      /\ \A g \in grants : g.lease.generation \in Nat /\ GivenNext(g.lease)
      /\ session # Nil => session.lease.generation \in Nat /\ GivenNext(session.lease)
      /\ \A d \in results : GivenNext(LeaseNamed(d))
  <2>1. \A l \in Leases : l.generation \in Nat
    BY LeaseShape
  <2>2. /\ held # Nil => held \in Leases
        /\ \A g \in grants : g.lease \in Leases
        /\ session # Nil => session.lease \in Leases
        /\ \A d \in results : LeaseNamed(d).generation \in Nat
    BY BoundsAssumption DEF TypeOK, NothingFromTheFuture
  <2>3. \A l : l.generation \in Nat /\ Given(l) => GivenNext(l)
    BY GivenStays
  <2> QED
    BY <2>1, <2>2, <2>3 DEF NothingFromTheFuture
<1>2. held' # Nil => Given(held)'
  <2>1. CASE held' = held
    BY <1>1, <2>1 DEF Given, GivenNext, Undecided
  <2>2. CASE held' = Nil
    BY <2>2
  <2>3. ASSUME NEW c \in Commands, NEW t \in 1 .. MaxTime, Claim(c, t), held' = lease'
        PROVE  Given(held)'
    BY <2>3, ClaimShape, LeaseShape DEF Given, GivenNext, Undecided
  <2>4. ASSUME NEW r \in progress, NEW t \in 1 .. MaxTime, AcceptProgress(r, t), held' = lease'
        PROVE  Given(held)'
    BY <2>4, RenewalShape, LeaseShape DEF Given, TypeOK
  <2>5. CASE PanelNext
    <3>1. ASSUME NEW d \in results, AcceptResult(d) \/ AcceptAgain(d)
          PROVE  held' = held
      BY <3>1 DEF AcceptResult, AcceptAgain, updater
    <3> QED
      BY <2>1, <2>3, <2>4, <2>5, <3>1, ClaimShape, RenewalShape DEF PanelNext
  <2>6. CASE UpdaterNext
    BY <2>1, <2>2, <2>6 DEF UpdaterNext, ClearActiveJob, UpdaterCrash, IssueGrant, SendResult,
                            ResendResult, SendProgress, updater
  <2>7. CASE ExecutorNext
    BY <2>1, <2>7 DEF ExecutorNext, Consume, Discard, Write, Probe, TurnBack, ExecutorCrash,
                      updater
  <2> QED
    BY <2>1, <2>5, <2>6, <2>7 DEF Next, Tick, AgentFollows, vars, updater
<1>3. \A g \in grants' : Given(g.lease)'
  <2>1. CASE grants' \subseteq grants
    BY <1>1, <2>1 DEF Given, GivenNext, Undecided
  <2>2. ASSUME NEW t \in 1 .. MaxTime, IssueGrant(t)
        PROVE  \A g \in grants' : Given(g.lease)'
    <3>1. held # Nil /\ grants' = grants \cup {[lease |-> held, expires |-> t]}
      BY <2>2 DEF IssueGrant
    <3> QED
      BY <1>1, <3>1 DEF Given, GivenNext, Undecided
  <2>3. CASE PanelNext
    BY <2>1, <2>3, ClaimShape, RenewalShape DEF PanelNext, AcceptResult, AcceptAgain, executor
  <2>4. CASE UpdaterNext
    BY <2>1, <2>2, <2>4 DEF UpdaterNext, ClearActiveJob, UpdaterCrash, SendResult,
                            ResendResult, SendProgress, executor
  <2>5. CASE ExecutorNext
    BY <2>1, <2>5 DEF ExecutorNext, Consume, Discard, Write, Probe, TurnBack, ExecutorCrash
  <2> QED
    BY <2>1, <2>3, <2>4, <2>5 DEF Next, Tick, AgentFollows, vars, executor
<1>4. session' # Nil => Given(session.lease)'
  <2>1. CASE session' = session \/ session' = Nil
    BY <1>1, <2>1 DEF Given, GivenNext, Undecided
  <2>2. ASSUME NEW g \in grants, Consume(g)
        PROVE  Given(session.lease)'
    <3>1. session'.lease = g.lease
      BY <2>2 DEF Consume
    <3> QED
      BY <1>1, <3>1 DEF Given, GivenNext, Undecided
  <2>3. ASSUME session # Nil, session'.lease = session.lease
        PROVE  Given(session.lease)'
    BY <1>1, <2>3 DEF Given, GivenNext, Undecided
  <2>4. CASE PanelNext
    BY <2>1, <2>4, ClaimShape, RenewalShape DEF PanelNext, AcceptResult, AcceptAgain, executor
  <2>5. CASE UpdaterNext
    BY <2>1, <2>5 DEF UpdaterNext, ClearActiveJob, UpdaterCrash, IssueGrant, SendResult,
                      ResendResult, SendProgress, executor
  <2>6. CASE ExecutorNext
    <3>1. ASSUME NEW p \in Places, Write(p) \/ Probe(p) \/ TurnBack
          PROVE  session # Nil /\ session'.lease = session.lease
      BY <3>1 DEF Write, Probe, TurnBack, TypeOK
    <3>2. Places # {}
      BY DEF Places
    <3> QED
      BY <2>1, <2>2, <2>3, <2>6, <3>1, <3>2 DEF ExecutorNext, Discard, ExecutorCrash
  <2> QED
    BY <2>1, <2>4, <2>5, <2>6 DEF Next, Tick, AgentFollows, vars, executor
<1>5. \A d \in results' :
        /\ LeaseNamed(d) \in [command: Commands, generation: 1 .. MaxGeneration]
        /\ Given(LeaseNamed(d))'
  <2>1. CASE results' = results
    BY <1>1, <2>1 DEF NothingFromTheFuture, Given, GivenNext, Undecided
  <2>2. ASSUME NEW r \in Reports, SendResult(r)
        PROVE  \A d \in results' :
                 /\ LeaseNamed(d) \in [command: Commands, generation: 1 .. MaxGeneration]
                 /\ Given(LeaseNamed(d))'
    <3>1. held \in Leases /\ held # Nil
      BY ReportShape DEF TypeOK
    <3>2. LeaseNamed(EncodeResult(r)) =
            [command |-> held.command, generation |-> held.generation]
      BY ReportShape, ReportOnWire, BindingNames
    <3>3. results' = results \cup {EncodeResult(r)}
      BY <2>2 DEF SendResult
    <3>4. Given(LeaseNamed(EncodeResult(r)))'
      BY <1>1, <3>1, <3>2 DEF Given, GivenNext, Undecided
    <3> QED
      BY <1>1, <3>1, <3>2, <3>3, <3>4, LeaseShape
         DEF NothingFromTheFuture, Given, GivenNext, Undecided
  <2>3. ASSUME NEW d \in results, ResendResult(d)
        PROVE  \A e \in results' :
                 /\ LeaseNamed(e) \in [command: Commands, generation: 1 .. MaxGeneration]
                 /\ Given(LeaseNamed(e))'
    <3> DEFINE again == EncodeResult(ObservedAgain(d, now))
    <3>1. again.bound = d.bound
      BY AgainFields DEF TypeOK
    <3>2. results' = results \cup {again}
      BY <2>3 DEF ResendResult
    <3> HIDE DEF again
    <3>3. LeaseNamed(again) = LeaseNamed(d)
      BY <3>1 DEF LeaseNamed
    <3> QED
      BY <1>1, <3>2, <3>3 DEF NothingFromTheFuture, Given, GivenNext, Undecided
  <2>4. CASE PanelNext
    BY <2>1, <2>4, ClaimShape, RenewalShape DEF PanelNext, AcceptResult, AcceptAgain, wire
  <2>5. CASE UpdaterNext
    BY <2>1, <2>2, <2>3, <2>5 DEF UpdaterNext, ClearActiveJob, UpdaterCrash, IssueGrant,
                                  SendProgress, wire
  <2>6. CASE ExecutorNext
    BY <2>1, <2>6 DEF ExecutorNext, Consume, Discard, Write, Probe, TurnBack, ExecutorCrash, wire
  <2> QED
    BY <2>1, <2>4, <2>5, <2>6 DEF Next, Tick, AgentFollows, vars, wire
<1> QED
  BY <1>2, <1>3, <1>4, <1>5 DEF NothingFromTheFuture, Given, GivenNext, Undecided

-----------------------------------------------------------------------------
(* What a session has seen.                                                *)

\* What a session has seen is so until the session changes it, but for what
\* the Agent does.
LEMMA NextSeenHolds ==
  ASSUME TypeOK, SeenHolds, [Next]_vars
  PROVE  SeenHolds'
<1>1. CASE UNCHANGED <<session, host>>
  BY <1>1 DEF SeenHolds
<1>2. CASE session' = Nil
  BY <1>2 DEF SeenHolds
<1>3. ASSUME session'.seen = {}
      PROVE  SeenHolds'
  BY <1>3 DEF SeenHolds
<1>4. CASE AgentFollows
  <2>1. session' = session
    BY <1>4 DEF AgentFollows, executor
  <2>2. /\ \A p \in Places \ {"agentProjection"} : host'[p] = host[p]
        /\ host'["agentProjection"] = host["policyDisk"]
    BY <1>4 DEF AgentFollows, TypeOK, Places
  <2>3. "policyDisk" \in Places \ {"agentProjection"}
    BY DEF Places
  <2>4. session # Nil => session.seen \subseteq Places
    BY DEF TypeOK
  <2> QED
    BY <2>1, <2>2, <2>3, <2>4 DEF SeenHolds
<1>5. ASSUME NEW place \in Places, Probe(place)
      PROVE  SeenHolds'
  <2>1. /\ session # Nil
        /\ session'.lease = session.lease /\ session'.goal = session.goal
        /\ session'.seen = session.seen \cup {place}
        /\ place \in PlacesOf(session.lease.command)
        /\ host[place] = RevisionOf(session.lease.command, session.goal)
        /\ host' = host
    BY <1>5 DEF Probe, TypeOK
  <2> QED
    BY <2>1 DEF SeenHolds
<1>6. CASE PanelNext
  BY <1>1, <1>6, ClaimShape, RenewalShape DEF PanelNext, AcceptResult, AcceptAgain, executor
<1>7. CASE UpdaterNext
  BY <1>1, <1>2, <1>7 DEF UpdaterNext, ClearActiveJob, UpdaterCrash, IssueGrant, SendResult,
                          ResendResult, SendProgress, executor
<1>8. CASE ExecutorNext
  <2>1. ASSUME NEW g \in grants, Consume(g)
        PROVE  session'.seen = {}
    BY <2>1 DEF Consume
  <2>2. ASSUME NEW p \in Places, Write(p) \/ TurnBack
        PROVE  session'.seen = {}
    BY <2>2 DEF Write, TurnBack, TypeOK
  <2>3. Places # {}
    BY DEF Places
  <2> QED
    BY <1>1, <1>2, <1>3, <1>5, <1>8, <2>1, <2>2, <2>3 DEF ExecutorNext, Discard, ExecutorCrash
<1> QED
  BY <1>1, <1>4, <1>6, <1>7, <1>8 DEF Next, Tick, vars, executor

-----------------------------------------------------------------------------
(* A report of a success or a rollback is true of the host.                *)

\* The evidence of a success or a rollback says that the service was probed
\* only if it was.
LEMMA EvidenceIsSeen ==
  ASSUME NEW c, NEW outcome \in GoodOutcomes, NEW seen,
         \/ HasEvidence(EvidenceOf(c, outcome, seen), "application_probe_verified")
         \/ HasEvidence(EvidenceOf(c, outcome, seen), "rollback_verified")
  PROVE  "listener" \in seen
<1> SUFFICES ASSUME "listener" \notin seen PROVE FALSE
  OBVIOUS
<1>1. \A item \in EvidenceOf(c, outcome, seen) : item.code = "phase_observed"
  BY DEF EvidenceOf, GoodOutcomes
<1> QED
  BY <1>1 DEF HasEvidence

\* A valid report of a success or a rollback saw the service at its listener.
LEMMA ServiceSeen ==
  ASSUME NEW l \in Leases, NEW outcome \in GoodOutcomes, NEW claim, NEW seen,
         OutcomeJustified(LeaseOf(l), ResultFor(l, outcome, claim, seen))
  PROVE  "listener" \in seen
<1> DEFINE result == ResultFor(l, outcome, claim, seen)
<1>1. /\ result.outcome = outcome
      /\ result.evidence = EvidenceOf(l.command, outcome, seen)
  BY DEF ResultFor
<1>2. LeaseOf(l).command.authorization.target.kind = "application"
  BY LeaseShape, CommandsAssumption DEF LeaseOf
<1> HIDE DEF result
<1>3. \/ \E rev : HasEvidenceAt(result.evidence, "application_probe_verified", rev)
      \/ HasEvidence(result.evidence, "rollback_verified")
  BY <1>1, <1>2 DEF OutcomeJustified, GoodOutcomes, result
<1>4. \/ HasEvidence(result.evidence, "application_probe_verified")
      \/ HasEvidence(result.evidence, "rollback_verified")
  BY <1>3 DEF HasEvidence, HasEvidenceAt
<1> QED
  BY <1>1, <1>4, EvidenceIsSeen

\* A valid report that a port was moved, or moved back, saw all four places.
LEMMA PlacesSeen ==
  ASSUME NEW l \in Leases, NEW outcome \in GoodOutcomes, NEW claim \in Claims(l.command),
         NEW seen, MovesPort(l.command),
         PortResultFits(LeaseOf(l), ResultFor(l, outcome, claim, seen))
  PROVE  Places \subseteq seen
<1> DEFINE result == ResultFor(l, outcome, claim, seen)
<1>1. /\ result.outcome = outcome
      /\ result.status = outcome
      /\ result.port = (IF claim = "none" THEN Nil
                        ELSE PortReport(PlanOf(l.command), claim, seen))
  BY DEF ResultFor, StatusOf, GoodOutcomes
<1>2. IsPortV2(LeaseOf(l).command)
  BY DEF LeaseOf, MovesPort
<1> HIDE DEF result
<1>3. result.port # Nil
  BY <1>1, <1>2 DEF PortResultFits, GoodOutcomes, result
<1>4. /\ claim \in {"applied", "unchanged", "rolled_back", "rollback_failed"}
      /\ result.port = PortReport(PlanOf(l.command), claim, seen)
  BY <1>1, <1>3 DEF Claims
<1>5. PICK plan : ValidResult(plan, result.port)
  BY <1>2, <1>3 DEF PortResultFits, result
<1>6. result.port.result = claim
  BY <1>4 DEF PortReport
<1>7. claim # "rollback_failed"
  BY <1>1, <1>2, <1>3, <1>6 DEF PortResultFits, GoodOutcomes, result
<1>8. ObservationVerified(result.port.observation)
  BY <1>5, <1>6, <1>7 DEF ValidResult
<1>9. result.port.observation = Observation(seen)
  BY <1>4, <1>7 DEF PortReport
<1>10. \A o : ObservationVerified(o) =>
           /\ o.policyDisk /\ o.policyMemory /\ o.agentProjection /\ o.listener
  BY DEF ObservationVerified
<1>11. /\ Observation(seen).policyDisk => "policyDisk" \in seen
       /\ Observation(seen).policyMemory => "policyMemory" \in seen
       /\ Observation(seen).agentProjection => "agentProjection" \in seen
       /\ Observation(seen).listener => "listener" \in seen
  BY DEF Observation
<1>12. /\ "policyDisk" \in seen /\ "policyMemory" \in seen
       /\ "agentProjection" \in seen /\ "listener" \in seen
  BY <1>8, <1>9, <1>10, <1>11, Zenon
<1> QED
  BY <1>12 DEF Places

\* What is reported was reached, by the session of the lease that reports it.
LEMMA ReportReaches ==
  ASSUME TypeOK, SeenHolds, NEW r \in Reports, ValidUpdaterResult(LeaseOf(held), r),
         r.outcome \in GoodOutcomes
  PROVE  /\ session # Nil
         /\ SameLease(session.lease, held)
         /\ Reached(held.command, GoalOf(r.outcome))
<1> DEFINE goal == GoalOf(r.outcome)
<1> DEFINE seen == SeenOf(held, goal)
<1>1. held \in Leases
  BY ReportShape DEF TypeOK
<1>2. PICK claim \in Claims(held.command) : r = ResultFor(held, r.outcome, claim, seen)
  BY ReportShape, ReportOnWire
<1>3. OutcomeJustified(LeaseOf(held), r) /\ PortResultFits(LeaseOf(held), r)
  BY DEF ValidUpdaterResult
<1> HIDE DEF seen, goal
<1>4. "listener" \in seen
  BY <1>1, <1>2, <1>3, ServiceSeen
<1>5. /\ session # Nil /\ SameLease(session.lease, held)
      /\ session.goal = goal /\ session.seen = seen
  BY <1>4 DEF SeenOf, seen
<1>6. \A p \in seen :
        \/ host[p] = RevisionOf(held.command, goal)
        \/ p = "agentProjection" /\ host["policyDisk"] # RevisionOf(held.command, goal)
  BY <1>5 DEF SeenHolds, SameLease
<1>7. CASE ~MovesPort(held.command)
  BY <1>4, <1>5, <1>6, <1>7 DEF Reached, PlacesOf, goal
<1>8. CASE MovesPort(held.command)
  <2>1. Places \subseteq seen
    BY <1>1, <1>2, <1>3, <1>8, PlacesSeen
  <2>2. \A p \in Places : host[p] = RevisionOf(held.command, goal)
    BY <1>6, <2>1 DEF Places
  <2> QED
    BY <1>5, <1>8, <2>2 DEF Reached, PlacesOf, goal
<1> QED
  BY <1>7, <1>8

-----------------------------------------------------------------------------
(* A result that is decided on.                                            *)

\* A port result settles the outcome it comes with.
LEMMA PortSettlesOutcome ==
  ASSUME NEW l, NEW result, PortResultFits(l, result), result.port # Nil
  PROVE  result.outcome = OutcomeOfPort(result.port)
<1>1. IsPortV2(l.command)
  BY DEF PortResultFits
<1>2. PICK plan : ValidResult(plan, result.port)
  BY <1>1 DEF PortResultFits
<1>3. result.port.result \in {"applied", "unchanged", "rolled_back", "rollback_failed"}
  BY <1>2 DEF ValidResult, IsAcceptedResult
<1>4. CASE result.port.result \in {"applied", "unchanged"}
  BY <1>1, <1>4 DEF PortResultFits, OutcomeOfPort
<1>5. CASE result.port.result = "rolled_back"
  BY <1>1, <1>5 DEF PortResultFits, OutcomeOfPort
<1>6. CASE result.port.result = "rollback_failed"
  BY <1>1, <1>6 DEF PortResultFits, OutcomeOfPort
<1> QED
  BY <1>3, <1>4, <1>5, <1>6

\* What a result that passes the validator is known to say.
LEMMA EnvelopeShape ==
  ASSUME NEW l, NEW d, ValidResultEnvelope(LeaseOf(l), d)
  PROVE  LET result == DecodeResult(d)
         IN /\ LeaseNamed(d) = [command |-> l.command, generation |-> l.generation]
            /\ result.outcome = d.outcome
            /\ result.outcome \in Outcomes
            /\ result.port # Nil =>
                 /\ result.outcome = OutcomeOfPort(result.port)
                 /\ result.port =
                      Decode(Encode(result.port, PortResultZeros), PortResultZeros)
<1>1. ResultDocument(d) /\ ValidUpdaterResult(LeaseOf(l), DecodeResult(d))
  BY DEF ValidResultEnvelope
<1>2. HasFields(d, {"bound", "outcome"})
  BY <1>1 DEF ResultDocument, HasFields
<1>3. DecodeResult(d).bound = d.bound /\ DecodeResult(d).outcome = d.outcome
  BY <1>2, DecodedFields
<1>4. d.bound = ResultBinding(LeaseOf(l))
  BY <1>1, <1>3 DEF ValidUpdaterResult
<1>5. DecodeResult(d).outcome \in Outcomes
  BY <1>1 DEF ValidUpdaterResult, OutcomeJustified, Outcomes
<1>6. DecodeResult(d).port # Nil => DecodeResult(d).outcome = OutcomeOfPort(DecodeResult(d).port)
  BY <1>1, PortSettlesOutcome DEF ValidUpdaterResult
<1> QED
  BY <1>3, <1>4, <1>5, <1>6, BindingNames, DecodedPort

\* The panel decides its current command, once.
LEMMA AcceptShape ==
  ASSUME TypeOK, NEW d \in results, AcceptResult(d)
  PROVE  /\ lease # Nil /\ Undecided(lease.command)
         /\ LeaseNamed(d) = [command |-> lease.command, generation |-> lease.generation]
         /\ DOMAIN verdict' = DOMAIN verdict \cup {lease.command}
         /\ verdict'[lease.command] = DecodeResult(d)
         /\ \A c \in DOMAIN verdict : verdict'[c] = verdict[c]
         /\ DecodeResult(d).outcome = d.outcome
         /\ d.outcome \in Outcomes \ {"ambiguous"}
         /\ UNCHANGED <<now, lease, sequence, held, sent, grants, session, host, progress, results>>
<1>1. /\ lease # Nil /\ Undecided(lease.command)
      /\ ValidResultEnvelope(LeaseOf(lease), d)
      /\ verdict' = [c \in DOMAIN verdict \cup {lease.command} |->
                       IF c = lease.command THEN DecodeResult(d) ELSE verdict[c]]
      /\ DecodeResult(d).outcome # "ambiguous"
      /\ UNCHANGED <<now, lease, sequence, held, sent, grants, session, host, progress, results>>
  BY DEF AcceptResult, Decides, updater, executor, wire
<1> QED
  BY <1>1, EnvelopeShape DEF Undecided

\* A result that is stored again has the port result and the outcome of the
\* one that is stored.
LEMMA AcceptAgainShape ==
  ASSUME TypeOK, VerdictOfPort, NEW d \in results, AcceptAgain(d)
  PROVE  /\ lease # Nil /\ ~Undecided(lease.command)
         /\ DOMAIN verdict' = DOMAIN verdict
         /\ \A c \in DOMAIN verdict : c # lease.command => verdict'[c] = verdict[c]
         /\ verdict'[lease.command].outcome = verdict[lease.command].outcome
         /\ verdict'[lease.command].port = verdict[lease.command].port
         /\ UNCHANGED <<now, lease, sequence, held, sent, grants, session, host, progress, results>>
<1> DEFINE result == DecodeResult(d)
<1> DEFINE old == verdict[lease.command]
<1>1. /\ lease # Nil /\ lease.command \in DOMAIN verdict
      /\ old.port # Nil /\ result.port # Nil
      /\ ValidResultEnvelope(LeaseOf(lease), d)
      /\ EqualPortResults(old.port, result.port)
      /\ verdict' = [verdict EXCEPT ![lease.command] = result]
      /\ UNCHANGED <<now, lease, sequence, held, sent, grants, session, host, progress, results>>
  BY DEF AcceptAgain, Undecided, updater, executor, wire
<1>2. /\ old.outcome = OutcomeOfPort(old.port)
      /\ old.port = Decode(Encode(old.port, PortResultZeros), PortResultZeros)
  BY <1>1 DEF VerdictOfPort
<1>3. /\ result.outcome = OutcomeOfPort(result.port)
      /\ result.port = Decode(Encode(result.port, PortResultZeros), PortResultZeros)
  BY <1>1, EnvelopeShape
<1> HIDE DEF result, old
<1>4. old.port = result.port
  BY <1>1, <1>2, <1>3, EqualIsSame
<1>5. old.outcome = result.outcome
  BY <1>2, <1>3, <1>4
<1>6. verdict'[lease.command] = result
  BY <1>1
<1>7. /\ DOMAIN verdict' = DOMAIN verdict
      /\ \A c \in DOMAIN verdict : c # lease.command => verdict'[c] = verdict[c]
  BY <1>1
<1>8. /\ verdict'[lease.command].outcome = verdict[lease.command].outcome
      /\ verdict'[lease.command].port = verdict[lease.command].port
  BY <1>4, <1>5, <1>6 DEF old
<1> QED
  BY <1>1, <1>7, <1>8 DEF Undecided

\* What is stored of a port move stays settled by it.
LEMMA NextVerdictOfPort ==
  ASSUME TypeOK, VerdictOfPort, [Next]_vars
  PROVE  VerdictOfPort'
<1>1. CASE UNCHANGED verdict
  BY <1>1 DEF VerdictOfPort
<1>2. ASSUME NEW d \in results, AcceptResult(d)
      PROVE  VerdictOfPort'
  <2>1. ValidResultEnvelope(LeaseOf(lease), d)
    BY <1>2 DEF AcceptResult
  <2> QED
    BY <1>2, <2>1, AcceptShape, EnvelopeShape DEF VerdictOfPort
<1>3. ASSUME NEW d \in results, AcceptAgain(d)
      PROVE  VerdictOfPort'
  <2>1. \A c \in DOMAIN verdict' :
          /\ c \in DOMAIN verdict
          /\ verdict'[c].outcome = verdict[c].outcome
          /\ verdict'[c].port = verdict[c].port
    BY <1>3, AcceptAgainShape
  <2> QED
    BY <2>1 DEF VerdictOfPort
<1> QED
  BY <1>1, <1>2, <1>3, OnlyPanel, ClaimShape, RenewalShape DEF PanelNext, panel

-----------------------------------------------------------------------------
(* The work of a lease is over when its good result is sent.               *)

\* The work is over after the step.
RestNext(goal) ==
  /\ session' = Nil
  /\ \A g \in grants' : ~SameLease(g.lease, lease')
  /\ held' # Nil /\ SameLease(held', lease') => sent'
  /\ \A p \in PlacesOf(lease'.command) : host'[p] = RevisionOf(lease'.command, goal)

\* What holds of results and verdicts after the step.
LEMMA ResultsHoldNext ==
  ASSUME lease' # Nil =>
           /\ \A d \in results' :
                SameLease(LeaseNamed(d), lease') /\ d.outcome \in GoodOutcomes =>
                  RestNext(GoalOf(d.outcome))
           /\ lease'.command \in DOMAIN verdict' /\
              verdict'[lease'.command].outcome \in GoodOutcomes =>
                RestNext(GoalOf(verdict'[lease'.command].outcome))
  PROVE  ResultsHold'
BY DEF ResultsHold, AtRest, Reached, RestNext, Undecided, LeaseNamed, SameLease

\* A step that changes neither results nor verdicts nor the lease's name, and
\* wakes nobody who is at rest, keeps the results true.
LEMMA RestStays ==
  ASSUME ResultsHold, results' = results, verdict' = verdict,
         lease' # Nil => lease # Nil /\ SameLease(lease', lease),
         \A goal : lease # Nil /\ lease' # Nil /\ AtRest(goal) => RestNext(goal)
  PROVE  ResultsHold'
BY ResultsHoldNext DEF ResultsHold, SameLease, Undecided

\* While the current lease is worked on, none of its results is good.
LEMMA WorkIsOpen ==
  ASSUME ResultsHold, \A goal : ~AtRest(goal), results' = results, verdict' = verdict,
         lease' = lease
  PROVE  ResultsHold'
BY RestStays DEF SameLease

LEMMA PanelResultsHold ==
  ASSUME TypeOK, NothingFromTheFuture, ResultsHold, VerdictOfPort, PanelNext
  PROVE  ResultsHold'
<1>1. ASSUME NEW c \in Commands, NEW t \in 1 .. MaxTime, Claim(c, t)
      PROVE  ResultsHold'
  <2>1. \A d \in results : LeaseNamed(d).generation \in Nat /\ Given(LeaseNamed(d))
    BY BoundsAssumption DEF NothingFromTheFuture
  <2>2. \A d \in results' : ~SameLease(LeaseNamed(d), lease')
    BY <1>1, <2>1, ClaimFences, ClaimShape
  <2>3. lease'.command \notin DOMAIN verdict'
    BY <1>1, ClaimShape DEF Undecided
  <2> QED
    BY <2>2, <2>3, ResultsHoldNext
<1>2. ASSUME NEW d \in results, AcceptResult(d)
      PROVE  ResultsHold'
  <2>1. \A goal : AtRest(goal) => RestNext(goal)
    BY <1>2, AcceptShape DEF AtRest, RestNext, Reached
  <2>2. /\ lease' = lease /\ lease # Nil /\ results' = results
        /\ SameLease(LeaseNamed(d), lease)
        /\ verdict'[lease.command].outcome = d.outcome
    BY <1>2, AcceptShape DEF SameLease
  <2> QED
    BY <2>1, <2>2, ResultsHoldNext DEF ResultsHold
<1>3. ASSUME NEW d \in results, AcceptAgain(d)
      PROVE  ResultsHold'
  <2>1. \A goal : AtRest(goal) => RestNext(goal)
    BY <1>3, AcceptAgainShape DEF AtRest, RestNext, Reached
  <2>2. /\ lease' = lease /\ lease # Nil /\ results' = results
        /\ ~Undecided(lease.command)
        /\ verdict'[lease.command].outcome = verdict[lease.command].outcome
    BY <1>3, AcceptAgainShape
  <2> QED
    BY <2>1, <2>2, ResultsHoldNext DEF ResultsHold
<1>4. ASSUME NEW r \in progress, NEW t \in 1 .. MaxTime, AcceptProgress(r, t)
      PROVE  ResultsHold'
  <2>1. \A goal : AtRest(goal) => RestNext(goal)
    BY <1>4, RenewalShape DEF AtRest, RestNext, Reached, SameLease
  <2> QED
    BY <1>4, <2>1, RenewalShape, RestStays DEF SameLease
<1> QED
  BY <1>1, <1>2, <1>3, <1>4 DEF PanelNext

LEMMA SendResultsHold ==
  ASSUME TypeOK, SeenHolds, ResultsHold, NEW r \in Reports, SendResult(r)
  PROVE  ResultsHold'
<1> DEFINE document == EncodeResult(r)
<1>1. /\ held # Nil /\ ValidUpdaterResult(LeaseOf(held), r)
      /\ \A g \in grants : ~SameLease(g.lease, held)
      /\ results' = results \cup {document}
      /\ sent' = TRUE
      /\ session' = IF session # Nil /\ SameLease(session.lease, held) THEN Nil ELSE session
      /\ UNCHANGED <<now, lease, verdict, held, grants, host>>
  BY DEF SendResult, panel
<1>2. /\ LeaseNamed(document) = [command |-> held.command, generation |-> held.generation]
      /\ document.outcome = r.outcome
  BY ReportShape, ReportOnWire, BindingNames
<1> HIDE DEF document
<1>3. \A goal : AtRest(goal) => RestNext(goal)
  BY <1>1 DEF AtRest, RestNext, Reached
<1>4. ASSUME lease # Nil, SameLease(LeaseNamed(document), lease), document.outcome \in GoodOutcomes
      PROVE  RestNext(GoalOf(document.outcome))
  <2>1. /\ session # Nil /\ SameLease(session.lease, held)
        /\ Reached(held.command, GoalOf(r.outcome))
    BY <1>1, <1>2, <1>4, ReportReaches
  <2>2. held.command = lease.command /\ held.generation = lease.generation
    BY <1>2, <1>4 DEF SameLease
  <2> QED
    BY <1>1, <1>2, <2>1, <2>2 DEF RestNext, Reached, SameLease
<1> QED
  BY <1>1, <1>3, <1>4, ResultsHoldNext DEF ResultsHold, Undecided

LEMMA UpdaterResultsHold ==
  ASSUME TypeOK, SeenHolds, ResultsHold, UpdaterNext
  PROVE  ResultsHold'
<1>1. ASSUME ClearActiveJob \/ UpdaterCrash
      PROVE  ResultsHold'
  BY <1>1, RestStays DEF ClearActiveJob, UpdaterCrash, panel, executor, wire, AtRest, RestNext,
                         Reached, SameLease
<1>2. ASSUME NEW t \in 1 .. MaxTime, IssueGrant(t)
      PROVE  ResultsHold'
  <2>1. /\ held # Nil /\ ~sent /\ Current(held)
        /\ UNCHANGED <<lease, verdict, results>>
    BY <1>2 DEF IssueGrant, panel, wire
  <2>2. \A goal : ~AtRest(goal)
    BY <2>1 DEF AtRest, Current
  <2> QED
    BY <2>1, <2>2, WorkIsOpen
<1>3. ASSUME NEW d \in results, ResendResult(d)
      PROVE  ResultsHold'
  <2> DEFINE again == EncodeResult(ObservedAgain(d, now))
  <2>1. again.bound = d.bound /\ again.outcome = d.outcome
    BY AgainFields DEF TypeOK
  <2>2. /\ results' = results \cup {again}
        /\ UNCHANGED <<lease, verdict, held, sent, grants, session, host>>
    BY <1>3 DEF ResendResult, panel, updater, executor
  <2> HIDE DEF again
  <2>3. \A goal : AtRest(goal) => RestNext(goal)
    BY <2>2 DEF AtRest, RestNext, Reached
  <2>4. LeaseNamed(again) = LeaseNamed(d)
    BY <2>1 DEF LeaseNamed
  <2> QED
    BY <2>1, <2>2, <2>3, <2>4, ResultsHoldNext DEF ResultsHold, Undecided
<1>4. ASSUME NEW n \in 1 .. MaxProgress, SendProgress(n)
      PROVE  ResultsHold'
  BY <1>4, RestStays DEF SendProgress, panel, updater, executor, AtRest, RestNext, Reached,
                         SameLease
<1> QED
  BY <1>1, <1>2, <1>3, <1>4, SendResultsHold DEF UpdaterNext

LEMMA ExecutorResultsHold ==
  ASSUME TypeOK, ResultsHold, ExecutorNext
  PROVE  ResultsHold'
<1>1. ASSUME NEW g \in grants, Consume(g)
      PROVE  ResultsHold'
  <2>1. Current(g.lease) /\ UNCHANGED <<lease, verdict, results>>
    BY <1>1 DEF Consume, panel, wire
  <2>2. \A goal : ~AtRest(goal)
    BY <2>1 DEF AtRest, Current
  <2> QED
    BY <2>1, <2>2, WorkIsOpen
<1>2. ASSUME NEW g \in grants, Discard(g)
      PROVE  ResultsHold'
  BY <1>2, RestStays DEF Discard, panel, updater, wire, AtRest, RestNext, Reached, SameLease
<1>3. ASSUME NEW p \in Places, Write(p) \/ Probe(p) \/ TurnBack \/ ExecutorCrash
      PROVE  ResultsHold'
  <2>1. session # Nil /\ UNCHANGED <<lease, verdict, results>>
    BY <1>3 DEF Write, Probe, TurnBack, ExecutorCrash, panel, wire
  <2>2. \A goal : ~AtRest(goal)
    BY <2>1 DEF AtRest
  <2> QED
    BY <2>1, <2>2, WorkIsOpen
<1>4. Places # {}
  BY DEF Places
<1> QED
  BY <1>1, <1>2, <1>3, <1>4 DEF ExecutorNext

\* The Agent follows a policy that is already where the goal wants it.
LEMMA AgentKeepsGoal ==
  ASSUME TypeOK, AgentFollows, NEW c, NEW goal, Reached(c, goal)
  PROVE  \A p \in PlacesOf(c) : host'[p] = host[p]
<1>1. /\ \A p \in Places \ {"agentProjection"} : host'[p] = host[p]
      /\ host'["agentProjection"] = host["policyDisk"]
  BY DEF AgentFollows, TypeOK, Places
<1>2. CASE MovesPort(c)
  <2>1. host["agentProjection"] = host["policyDisk"]
    BY <1>2 DEF Reached, PlacesOf, Places
  <2> QED
    BY <1>1, <1>2, <2>1 DEF PlacesOf
<1>3. CASE ~MovesPort(c)
  <2>1. PlacesOf(c) = {"listener"} /\ "listener" \in Places \ {"agentProjection"}
    BY <1>3 DEF PlacesOf, Places
  <2> QED
    BY <1>1, <2>1
<1> QED
  BY <1>2, <1>3

LEMMA NextResultsHold ==
  ASSUME TypeOK, NothingFromTheFuture, SeenHolds, ResultsHold, VerdictOfPort, [Next]_vars
  PROVE  ResultsHold'
<1>1. CASE Tick \/ UNCHANGED vars
  BY <1>1, RestStays DEF Tick, vars, panel, updater, executor, wire, AtRest, RestNext, Reached,
                         SameLease
<1>2. CASE AgentFollows
  <2>1. UNCHANGED <<lease, verdict, held, sent, grants, session, results>>
    BY <1>2 DEF AgentFollows, panel, updater, executor, wire
  <2>2. \A goal : AtRest(goal) => RestNext(goal)
    BY <1>2, <2>1, AgentKeepsGoal DEF AtRest, RestNext, Reached
  <2> QED
    BY <2>1, <2>2, RestStays DEF SameLease
<1> QED
  BY <1>1, <1>2, PanelResultsHold, UpdaterResultsHold, ExecutorResultsHold DEF Next

-----------------------------------------------------------------------------
(* The invariant.                                                          *)

LEMMA InitInductive == Init => Inductive
BY InitTypeOK DEF Init, Inductive, NothingFromTheFuture, SeenHolds, ResultsHold, VerdictOfPort

LEMMA NextInductive == Inductive /\ [Next]_vars => Inductive'
BY NextTypeOK, NextNothingFromTheFuture, NextSeenHolds, NextResultsHold, NextVerdictOfPort
   DEF Inductive

\* The types hold, and the generation of a lease fences the grants, the
\* sessions and the results of those before it, whoever crashes and whatever
\* is lost, repeated or late.
THEOREM InductiveHolds == Spec => []Inductive
BY InitInductive, NextInductive, PTL DEF Spec

\* What the panel accepted of its current command is true of the host.
THEOREM AcceptedIsTrue == Spec => []VerdictHolds
<1>1. Inductive => VerdictHolds
  <2> SUFFICES ASSUME Inductive PROVE VerdictHolds
    OBVIOUS
  <2>1. ASSUME lease # Nil, ~Undecided(lease.command),
               verdict[lease.command].outcome \in GoodOutcomes
        PROVE  Reached(lease.command, GoalOf(verdict[lease.command].outcome))
    BY <2>1 DEF Inductive, ResultsHold, AtRest
  <2>2. lease # Nil => lease.command \in Commands /\ lease.command # Nil
    BY LeaseShape, CommandsAssumption DEF Inductive, TypeOK
  <2> QED
    BY <2>1, <2>2 DEF VerdictHolds, JV!VerdictHolds, GoodOutcomes, GoalOf, Goals
<1> QED
  BY <1>1, InductiveHolds, PTL

-----------------------------------------------------------------------------
(* The job implements JobVerdict.                                          *)

\* The state of the abstract job.
BarCurrent == IF lease = Nil THEN Nil ELSE lease.command
BarVerdict == [c \in Commands |-> IF Undecided(c) THEN "none" ELSE verdict[c].outcome]
BarReached == [c \in Commands |-> {g \in Goals : Reached(c, g)}]

LEMMA InitImplements == Init => JV!Init
BY DEF Init, JV!Init, JV!Goals, Goals, Undecided

LEMMA BarStays ==
  ASSUME UNCHANGED <<BarCurrent, BarVerdict, BarReached>>
  PROVE  UNCHANGED JV!vars
BY DEF JV!vars, BarCurrent, BarVerdict, BarReached

\* What the host has reached depends on the host alone.
LEMMA ReachedStays == UNCHANGED host => UNCHANGED BarReached
BY DEF BarReached, Reached

LEMMA BarReachedType == BarReached' \in [Commands -> SUBSET JV!Goals]
BY DEF BarReached, JV!Goals, Goals

\* The abstract verdict of a decided command is not "none".
LEMMA DecidedIsSettled ==
  ASSUME TypeOK, VerdictOfPort, NEW c \in Commands, ~Undecided(c)
  PROVE  BarVerdict[c] # "none" /\ BarVerdict[c] = verdict[c].outcome
BY DEF VerdictOfPort, BarVerdict, Undecided, Outcomes

\* A claim takes the host for the command, if the command did not have it.
LEMMA ClaimImplements ==
  ASSUME Inductive, NEW c \in Commands, NEW t \in 1 .. MaxTime, Claim(c, t)
  PROVE  JV!Take(c) \/ UNCHANGED JV!vars
<1>1. TypeOK /\ VerdictOfPort
  BY DEF Inductive
<1>2. /\ lease' # Nil /\ lease'.command = c /\ Undecided(c)
      /\ lease # Nil => lease.command = c \/ ~Undecided(lease.command)
      /\ UNCHANGED <<verdict, host>>
  BY <1>1, ClaimShape, LeaseShape
<1>3. BarCurrent' = c /\ BarVerdict' = BarVerdict /\ BarReached' = BarReached
  BY <1>2, ReachedStays DEF BarCurrent, BarVerdict, Undecided
<1>4. BarVerdict[c] = "none"
  BY <1>2 DEF BarVerdict
<1>5. CASE BarCurrent = c
  BY <1>3, <1>5, BarStays
<1>6. CASE BarCurrent # c
  <2>1. BarCurrent = Nil \/ BarVerdict[BarCurrent] # "none"
    BY <1>1, <1>2, <1>6, LeaseShape, DecidedIsSettled DEF BarCurrent, TypeOK
  <2> QED
    BY <1>3, <1>4, <2>1 DEF JV!Take, BarCurrent, BarVerdict, BarReached
<1> QED
  BY <1>5, <1>6

\* A result that is accepted decides: it is true of the host.
LEMMA AcceptImplements ==
  ASSUME Inductive, NEW d \in results, AcceptResult(d)
  PROVE  \E v \in JV!Verdicts \ {"none"} : JV!Decide(v)
<1>1. TypeOK /\ ResultsHold
  BY DEF Inductive
<1>2. lease # Nil /\ lease.command \in Commands /\ lease.command # Nil /\ Undecided(lease.command)
  BY <1>1, AcceptShape, LeaseShape, CommandsAssumption DEF TypeOK
<1>3. d.outcome \in JV!Verdicts \ {"none"}
  BY <1>1, AcceptShape DEF Outcomes, JV!Verdicts
<1>4. BarCurrent = lease.command /\ BarVerdict[lease.command] = "none"
  BY <1>2 DEF BarCurrent, BarVerdict
<1>5. d.outcome \in GoodOutcomes => Reached(lease.command, GoalOf(d.outcome))
  BY <1>1, <1>2, AcceptShape DEF ResultsHold, AtRest, SameLease
<1>6. /\ d.outcome = "succeeded" => "target" \in BarReached[lease.command]
      /\ d.outcome = "rolled_back" => "rollback" \in BarReached[lease.command]
  BY <1>2, <1>5 DEF GoodOutcomes, GoalOf, Goals, BarReached
<1>7. BarVerdict' = [BarVerdict EXCEPT ![lease.command] = d.outcome]
  <2>1. /\ DOMAIN verdict' = DOMAIN verdict \cup {lease.command}
        /\ verdict'[lease.command].outcome = d.outcome
        /\ \A c \in DOMAIN verdict : verdict'[c] = verdict[c]
    BY <1>1, AcceptShape
  <2>2. ASSUME NEW c \in Commands
        PROVE  (IF c \in DOMAIN verdict' THEN verdict'[c].outcome ELSE "none") =
                 IF c = lease.command THEN d.outcome
                 ELSE IF c \in DOMAIN verdict THEN verdict[c].outcome ELSE "none"
    BY <1>2, <2>1 DEF Undecided
  <2> QED
    BY <2>2 DEF BarVerdict, Undecided
<1>8. BarCurrent' = BarCurrent /\ BarReached' = BarReached
  BY <1>1, AcceptShape, ReachedStays DEF BarCurrent
<1>9. JV!Decide(d.outcome)
  BY <1>2, <1>4, <1>6, <1>7, <1>8 DEF JV!Decide, BarCurrent, BarVerdict, BarReached
<1> QED
  BY <1>3, <1>9

\* Storing a result again changes nothing the abstract job tells apart.
LEMMA AcceptAgainImplements ==
  ASSUME Inductive, NEW d \in results, AcceptAgain(d)
  PROVE  UNCHANGED JV!vars
<1>1. /\ DOMAIN verdict' = DOMAIN verdict
      /\ \A c \in DOMAIN verdict : verdict'[c].outcome = verdict[c].outcome
      /\ UNCHANGED <<lease, host>>
  BY AcceptAgainShape DEF Inductive
<1>2. BarVerdict' = BarVerdict
  BY <1>1 DEF BarVerdict, Undecided
<1> QED
  BY <1>1, <1>2, ReachedStays, BarStays DEF BarCurrent

\* A renewal changes nothing the abstract job tells apart.
LEMMA AcceptProgressImplements ==
  ASSUME Inductive, NEW r \in progress, NEW t \in 1 .. MaxTime, AcceptProgress(r, t)
  PROVE  UNCHANGED JV!vars
<1>1. /\ lease # Nil /\ lease' # Nil /\ lease'.command = lease.command
      /\ UNCHANGED <<verdict, host>>
  BY RenewalShape DEF Inductive
<1> QED
  BY <1>1, ReachedStays, BarStays DEF BarCurrent, BarVerdict, Undecided

\* A step that changes only the host is work, unless a settled command's
\* goals move.
LEMMA HostImplements ==
  ASSUME UNCHANGED <<lease, verdict>>,
         JV!Settled => BarReached'[lease.command] = BarReached[lease.command]
  PROVE  JV!Work
<1>1. UNCHANGED <<BarCurrent, BarVerdict>>
  BY DEF BarCurrent, BarVerdict, Undecided
<1>2. JV!Settled => BarReached'[BarCurrent] = BarReached[BarCurrent]
  BY DEF JV!Settled, BarCurrent
<1> QED
  BY <1>1, <1>2, BarReachedType DEF JV!Work, BarCurrent, BarVerdict, BarReached

\* A settled command is at rest.
LEMMA SettledIsAtRest ==
  ASSUME Inductive, JV!Settled
  PROVE  lease.command \in Commands /\ \E goal \in Goals : AtRest(goal)
<1>1. lease # Nil /\ lease.command \in Commands
  BY LeaseShape DEF Inductive, TypeOK, JV!Settled
<1>2. ~Undecided(lease.command) /\ verdict[lease.command].outcome \in GoodOutcomes
  BY <1>1 DEF JV!Settled, GoodOutcomes
<1> QED
  BY <1>1, <1>2 DEF Inductive, ResultsHold, GoalOf, Goals

LEMMA WriteImplements ==
  ASSUME Inductive, NEW p \in Places, Write(p)
  PROVE  JV!Work
<1>1. session # Nil /\ UNCHANGED <<lease, verdict>>
  BY DEF Write, panel
<1>2. ~JV!Settled
  BY <1>1, SettledIsAtRest DEF AtRest
<1> QED
  BY <1>1, <1>2, HostImplements

LEMMA AgentImplements ==
  ASSUME Inductive, AgentFollows
  PROVE  JV!Work
<1>1. UNCHANGED <<lease, verdict>>
  BY DEF AgentFollows, panel
<1>2. ASSUME JV!Settled
      PROVE  BarReached'[lease.command] = BarReached[lease.command]
  <2>1. PICK goal \in Goals : Reached(lease.command, goal)
    BY <1>2, SettledIsAtRest DEF AtRest
  <2>2. \A p \in PlacesOf(lease.command) : host'[p] = host[p]
    BY <2>1, AgentKeepsGoal DEF Inductive
  <2>3. lease.command \in Commands
    BY <1>2, SettledIsAtRest
  <2> QED
    BY <1>1, <2>2, <2>3 DEF BarReached, Reached
<1> QED
  BY <1>1, <1>2, HostImplements

\* The steps of the Updater and of the Executor, but for a change of the host,
\* change nothing the abstract job tells apart.
LEMMA OthersImplement ==
  ASSUME UNCHANGED <<lease, verdict, host>>
  PROVE  UNCHANGED JV!vars
BY ReachedStays, BarStays DEF BarCurrent, BarVerdict, Undecided

LEMMA NextImplements == Inductive /\ [Next]_vars => [JV!Next]_(JV!vars)
<1> SUFFICES ASSUME Inductive, [Next]_vars PROVE [JV!Next]_(JV!vars)
  OBVIOUS
<1>1. CASE PanelNext
  BY <1>1, ClaimImplements, AcceptImplements, AcceptAgainImplements, AcceptProgressImplements
     DEF PanelNext, JV!Next
<1>2. CASE UpdaterNext
  <2>1. UNCHANGED <<lease, verdict, host>>
    BY <1>2 DEF UpdaterNext, ClearActiveJob, UpdaterCrash, IssueGrant, SendResult,
                ResendResult, SendProgress, panel
  <2> QED
    BY <2>1, OthersImplement
<1>3. CASE ExecutorNext
  <2>1. (\E p \in Places : Write(p)) \/ UNCHANGED <<lease, verdict, host>>
    BY <1>3 DEF ExecutorNext, Consume, Discard, Probe, TurnBack, ExecutorCrash, panel
  <2> QED
    BY <2>1, WriteImplements, OthersImplement DEF JV!Next
<1>4. CASE AgentFollows
  BY <1>4, AgentImplements DEF JV!Next
<1>5. CASE Tick \/ UNCHANGED vars
  BY <1>5, OthersImplement DEF Tick, vars, panel
<1> QED
  BY <1>1, <1>2, <1>3, <1>4, <1>5 DEF Next

\* The job implements JobVerdict: whatever is accepted is true of the host,
\* and nothing a crash or a late message sets off undoes it.
THEOREM Implements == Spec => ImplementsJobVerdict
<1>1. Init => JV!Init
  BY InitImplements
<1>2. Inductive /\ Inductive' /\ [Next]_vars => [JV!Next]_(JV!vars)
  BY NextImplements
<1> QED
  BY <1>1, <1>2, InductiveHolds, PTL DEF Spec, ImplementsJobVerdict, JV!Spec

-----------------------------------------------------------------------------
(* What was stored of a port move stands.                                  *)

\* The first port result that is accepted is never rewritten, not even by one
\* that was observed again under a renewed lease.
THEOREM PortResultIsFinal == Spec => PortResultStands
<1> DEFINE Stands ==
      \A c \in DOMAIN verdict :
        /\ c \in DOMAIN verdict'
        /\ verdict[c].port # Nil => verdict'[c].port = verdict[c].port
<1>1. ASSUME Inductive, [Next]_vars
      PROVE  [Stands]_vars
  <2>1. TypeOK /\ VerdictOfPort
    BY <1>1 DEF Inductive
  <2>2. CASE UNCHANGED verdict
    BY <2>2
  <2>3. ASSUME NEW d \in results, AcceptResult(d)
        PROVE  Stands
    BY <2>1, <2>3, AcceptShape
  <2>4. ASSUME NEW d \in results, AcceptAgain(d)
        PROVE  Stands
    BY <2>1, <2>4, AcceptAgainShape
  <2> QED
    BY <1>1, <2>1, <2>2, <2>3, <2>4, OnlyPanel, ClaimShape, RenewalShape DEF PanelNext, panel
<1> QED
  BY <1>1, InductiveHolds, PTL DEF Spec, PortResultStands

-----------------------------------------------------------------------------
(* Nobody works past an authorization.                                     *)

LEMMA ValidLeaseIsBounded ==
  ASSUME NEW l, NEW t, ValidUpdaterLease(t, LeaseOf(l))
  PROVE  l.expires <= Authorization(l.command).expires
BY DEF ValidUpdaterLease, ValidLeaseStatic, LeaseOf, Authorization

LEMMA PanelBounds ==
  ASSUME TypeOK, AuthorizationBoundsWork, PanelNext
  PROVE  AuthorizationBoundsWork'
<1>1. CASE UNCHANGED <<lease, held, grants, session>>
  BY <1>1 DEF AuthorizationBoundsWork
<1>2. ASSUME lease'.expires <= Authorization(lease'.command).expires,
             held' = lease' \/ held' = held, UNCHANGED <<grants, session>>
      PROVE  AuthorizationBoundsWork'
  BY <1>2 DEF AuthorizationBoundsWork
<1>3. ASSUME NEW c \in Commands, NEW t \in 1 .. MaxTime, Claim(c, t)
      PROVE  AuthorizationBoundsWork'
  <2>1. ValidUpdaterLease(now, LeaseOf(lease'))
    BY <1>3 DEF Claim
  <2> QED
    BY <1>2, <1>3, <2>1, ClaimShape, ValidLeaseIsBounded
<1>4. ASSUME NEW r \in progress, NEW t \in 1 .. MaxTime, AcceptProgress(r, t)
      PROVE  AuthorizationBoundsWork'
  <2>1. ValidUpdaterLease(now, LeaseOf(lease'))
    BY <1>4 DEF AcceptProgress
  <2> QED
    BY <1>2, <1>4, <2>1, RenewalShape, ValidLeaseIsBounded
<1> QED
  BY <1>1, <1>3, <1>4 DEF PanelNext, AcceptResult, AcceptAgain, updater, executor

LEMMA UpdaterBounds ==
  ASSUME TypeOK, AuthorizationBoundsWork, UpdaterNext
  PROVE  AuthorizationBoundsWork'
<1>1. ASSUME lease' = lease, held' = held \/ held' = Nil, grants' = grants,
             session' = session \/ session' = Nil
      PROVE  AuthorizationBoundsWork'
  BY <1>1 DEF AuthorizationBoundsWork
<1>2. ASSUME NEW t \in 1 .. MaxTime, IssueGrant(t)
      PROVE  AuthorizationBoundsWork'
  <2>1. t <= Authorization(held.command).expires
    BY <1>2 DEF IssueGrant, ValidGrantResponseForLease, LeaseOf, Authorization
  <2>2. /\ grants' = grants \cup {[lease |-> held, expires |-> t]}
        /\ UNCHANGED <<lease, held, session>>
    BY <1>2 DEF IssueGrant, panel, updater
  <2> QED
    BY <2>1, <2>2 DEF AuthorizationBoundsWork
<1>3. CASE ClearActiveJob \/ UpdaterCrash
  BY <1>1, <1>3 DEF ClearActiveJob, UpdaterCrash, panel, executor
<1>4. ASSUME NEW r \in Reports, SendResult(r)
      PROVE  AuthorizationBoundsWork'
  BY <1>1, <1>4 DEF SendResult, panel
<1>5. ASSUME NEW d \in results, ResendResult(d)
      PROVE  AuthorizationBoundsWork'
  BY <1>1, <1>5 DEF ResendResult, panel, updater, executor
<1>6. ASSUME NEW n \in 1 .. MaxProgress, SendProgress(n)
      PROVE  AuthorizationBoundsWork'
  BY <1>1, <1>6 DEF SendProgress, panel, updater, executor
<1> QED
  BY <1>2, <1>3, <1>4, <1>5, <1>6 DEF UpdaterNext

LEMMA ExecutorBounds ==
  ASSUME TypeOK, AuthorizationBoundsWork, ExecutorNext
  PROVE  AuthorizationBoundsWork'
<1>1. ASSUME UNCHANGED <<lease, held>>, grants' \subseteq grants,
             \/ session' = Nil
             \/ session # Nil /\ session'.lease = session.lease /\ session'.since = session.since
             \/ session' = session
             \/ session'.since < Authorization(session'.lease.command).expires
      PROVE  AuthorizationBoundsWork'
  BY <1>1 DEF AuthorizationBoundsWork
<1>2. ASSUME NEW g \in grants, Consume(g)
      PROVE  AuthorizationBoundsWork'
  <2>1. /\ now < g.expires /\ session'.lease = g.lease /\ session'.since = now
        /\ grants' \subseteq grants /\ UNCHANGED <<lease, held>>
    BY <1>2 DEF Consume, panel, updater
  <2>2. g.expires <= Authorization(g.lease.command).expires
    BY DEF AuthorizationBoundsWork
  <2>3. now \in Int /\ g.expires \in Int /\ Authorization(g.lease.command).expires \in Int
    BY LeaseShape, CommandsAssumption DEF TypeOK, Authorization, Time
  <2>4. now < Authorization(g.lease.command).expires
    BY <2>1, <2>2, <2>3
  <2> QED
    BY <1>1, <2>1, <2>4
<1>3. ASSUME NEW g \in grants, Discard(g)
      PROVE  AuthorizationBoundsWork'
  BY <1>1, <1>3 DEF Discard, panel, updater
<1>4. ASSUME NEW p \in Places, Write(p) \/ Probe(p) \/ TurnBack
      PROVE  AuthorizationBoundsWork'
  <2>1. session # Nil /\ session'.lease = session.lease /\ session'.since = session.since
    BY <1>4 DEF Write, Probe, TurnBack, TypeOK
  <2>2. UNCHANGED <<lease, held, grants>>
    BY <1>4 DEF Write, Probe, TurnBack, panel, updater
  <2> QED
    BY <1>1, <2>1, <2>2
<1>5. CASE ExecutorCrash
  BY <1>1, <1>5 DEF ExecutorCrash, panel, updater
<1>6. Places # {}
  BY DEF Places
<1> QED
  BY <1>2, <1>3, <1>4, <1>5, <1>6 DEF ExecutorNext

\* Nobody works past the authorization of a command, through any chain of
\* claims, renewals and grants.
THEOREM WorkIsBounded == Spec => []AuthorizationBoundsWork
<1>1. Init => AuthorizationBoundsWork
  BY DEF Init, AuthorizationBoundsWork
<1>2. ASSUME Inductive, AuthorizationBoundsWork, [Next]_vars
      PROVE  AuthorizationBoundsWork'
  <2>1. CASE Tick \/ AgentFollows \/ UNCHANGED vars
    BY <1>2, <2>1 DEF Tick, AgentFollows, vars, panel, updater, executor, AuthorizationBoundsWork
  <2> QED
    BY <1>2, <2>1, PanelBounds, UpdaterBounds, ExecutorBounds DEF Next, Inductive
<1> QED
  BY <1>1, <1>2, InductiveHolds, PTL DEF Spec

-----------------------------------------------------------------------------
(* What is sent passes the checks on the raw document.                     *)

IsRecord(r, fields) == r = [f \in fields |-> r[f]]

ResultFields ==
  {"version", "bound", "resend", "outcome", "status", "appliedRev", "evidence",
   "safeError", "port"}

PortFields ==
  {"result", "snapshot", "configRev", "configSHA", "executorRev", "executorSHA",
   "observation", "runtime"}

ObservationFields ==
  {"policyDisk", "policyMemory", "agentProjection", "listener", "at"}

\* A result as the Updater holds it, before it is encoded.
WellFormed(result) ==
  /\ IsRecord(result, ResultFields)
  /\ result.port # Nil =>
       /\ IsRecord(result.port, PortFields)
       /\ IsRecord(result.port.observation, ObservationFields)

\* What was omitted is zero again when it is read.
LEMMA DecodedEncoding ==
  ASSUME NEW r, NEW fields, NEW zeros, IsRecord(r, fields), DOMAIN zeros \subseteq fields
  PROVE  Decode(Encode(r, zeros), zeros) = r
<1> DEFINE document == Encode(r, zeros)
<1>1. DOMAIN r = fields
  BY DEF IsRecord
<1>2. /\ DOMAIN document = {f \in fields : f \in DOMAIN zeros => r[f] # zeros[f]}
      /\ \A f \in DOMAIN document : document[f] = r[f]
  BY <1>1 DEF Encode
<1>3. DOMAIN document \cup DOMAIN zeros = fields
  BY <1>2
<1>4. \A f \in fields : (IF f \in DOMAIN document THEN document[f] ELSE zeros[f]) = r[f]
  BY <1>2
<1> HIDE DEF document
<1>5. Decode(document, zeros) =
        [f \in fields |-> IF f \in DOMAIN document THEN document[f] ELSE zeros[f]]
  BY <1>3 DEF Decode
<1>6. Decode(document, zeros) = [f \in fields |-> r[f]]
  BY <1>4, <1>5
<1> QED
  BY <1>6 DEF document, IsRecord

\* What is read back from a result's encoding is a result with that encoding.
LEMMA ResultReadBack ==
  ASSUME NEW r, WellFormed(r)
  PROVE  /\ WellFormed(DecodeResult(EncodeResult(r)))
         /\ EncodeResult(DecodeResult(EncodeResult(r))) = EncodeResult(r)
<1> DEFINE port == IF r.port = Nil THEN Nil ELSE Encode(r.port, PortResultZeros)
           s == [r EXCEPT !.port = port]
           back == IF port = Nil THEN Nil ELSE Decode(port, PortResultZeros)
           t == [s EXCEPT !.port = back]
<1>1. EncodeResult(r) = Encode(s, ResultZeros)
  BY DEF EncodeResult
<1>2. /\ IsRecord(s, ResultFields) /\ s.port = port
      /\ \A f \in ResultFields : f # "port" => s[f] = r[f]
  BY DEF WellFormed, IsRecord, ResultFields
<1>3. Decode(EncodeResult(r), ResultZeros) = s
  BY <1>1, <1>2, DecodedEncoding DEF ResultZeros, ResultFields
<1>4. DecodeResult(EncodeResult(r)) = t
  BY <1>2, <1>3 DEF DecodeResult
<1>5. r.port # Nil => Decode(Encode(r.port, PortResultZeros), PortResultZeros) = r.port
  BY DecodedEncoding DEF WellFormed, PortResultZeros, PortFields
<1>6. back = Nil \/ back = r.port
  BY <1>5
<1>7. /\ IsRecord(t, ResultFields) /\ t.port = back
      /\ \A f \in ResultFields : f # "port" => t[f] = s[f]
  <2> HIDE DEF back, port, s
  <2> QED
    BY <1>2 DEF IsRecord, ResultFields
<1>8. (IF back = Nil THEN Nil ELSE Encode(back, PortResultZeros)) = port
  BY <1>5
<1>9. EncodeResult(t) = Encode([t EXCEPT !.port = port], ResultZeros)
  <2> HIDE DEF t, s, back, port
  <2>1. EncodeResult(t) =
          Encode([t EXCEPT !.port = IF t.port = Nil THEN Nil
                                                   ELSE Encode(t.port, PortResultZeros)],
                 ResultZeros)
    BY DEF EncodeResult
  <2> QED
    BY <1>7, <1>8, <2>1
<1>10. [t EXCEPT !.port = port] = s
  <2> HIDE DEF t, s, back, port
  <2>1. [t EXCEPT !.port = port] =
          [f \in ResultFields |-> IF f = "port" THEN port ELSE t[f]]
    BY <1>7 DEF IsRecord
  <2>2. \A f \in ResultFields : (IF f = "port" THEN port ELSE t[f]) = s[f]
    BY <1>2, <1>7
  <2>3. [t EXCEPT !.port = port] = [f \in ResultFields |-> s[f]]
    BY <2>1, <2>2
  <2> QED
    BY <1>2, <2>3 DEF IsRecord
<1>11. WellFormed(t)
  <2> HIDE DEF t, s, back, port
  <2> QED
    BY <1>6, <1>7 DEF WellFormed
<1> QED
  BY <1>1, <1>4, <1>9, <1>10, <1>11

\* A port result of a plan shows its members: all of them if it is accepted,
\* and of a failed rollback only that and what was seen.
LEMMA PortOnWire ==
  ASSUME NEW plan, NEW port, ValidResult(plan, port), IsRecord(port, PortFields),
         IsRecord(port.observation, ObservationFields)
  PROVE  PortResultDocument(Encode(port, PortResultZeros))
<1> DEFINE document == Encode(port, PortResultZeros)
<1>1. DOMAIN port = PortFields /\ DOMAIN port.observation = ObservationFields
  BY DEF IsRecord
<1>2. /\ DOMAIN document =
           {f \in PortFields : f \in DOMAIN PortResultZeros => port[f] # PortResultZeros[f]}
      /\ \A f \in DOMAIN document : document[f] = port[f]
  BY <1>1 DEF Encode
<1> HIDE DEF document
<1>3. /\ {"result", "observation"} \subseteq DOMAIN document
      /\ document.result = port.result /\ document.observation = port.observation
  BY <1>2 DEF PortFields, PortResultZeros
<1>4. CASE port.result = "rollback_failed"
  <2>1. ObservesNothing(port)
    BY <1>4 DEF ValidResult, IsAcceptedResult
  <2>2. DOMAIN document = {"result", "observation"}
    BY <1>2, <2>1 DEF PortFields, PortResultZeros, ObservesNothing
  <2> QED
    BY <1>1, <1>3, <1>4, <2>2
      DEF PortResultDocument, HasFields, ObservationFields, document
<1>5. CASE port.result # "rollback_failed"
  <2>1. PICK ref \in {plan.before, plan.target, plan.rollback} : Observes(port, ref)
    <3>1. IsAcceptedResult(port) /\ Observes(port, ClaimedRef(plan, port))
      BY <1>5 DEF ValidResult
    <3> QED
      BY <3>1 DEF IsAcceptedResult, ClaimedRef
  <2>2. ValidSnapshotRef(ref)
    BY DEF ValidResult, ValidPlan
  <2>3. /\ port.snapshot # NoDigest /\ port.configSHA # NoDigest
        /\ port.executorSHA # NoDigest
        /\ port.configRev # 0 /\ port.executorRev # 0
    BY <2>1, <2>2 DEF Observes, ValidSnapshotRef, ValidDigest, ValidRevision
  <2>4. {"snapshot", "configRev", "configSHA", "executorRev", "executorSHA"}
          \subseteq DOMAIN document
    BY <1>2, <2>3 DEF PortFields, PortResultZeros
  <2> QED
    BY <1>1, <1>3, <1>5, <2>4
      DEF PortResultDocument, HasFields, ObservationFields, document
<1> QED
  BY <1>4, <1>5

\* A valid result is still one in the eyes of the checks on its encoding.
LEMMA ResultPasses ==
  ASSUME NEW l, NEW r, WellFormed(r), ValidUpdaterResult(LeaseOf(l), r)
  PROVE  ResultDocument(EncodeResult(r))
<1> DEFINE port == IF r.port = Nil THEN Nil ELSE Encode(r.port, PortResultZeros)
           s == [r EXCEPT !.port = port]
           document == Encode(s, ResultZeros)
<1>1. EncodeResult(r) = document
  BY DEF EncodeResult
<1>2. /\ DOMAIN s = ResultFields /\ s.port = port
      /\ \A f \in ResultFields : f # "port" => s[f] = r[f]
  BY DEF WellFormed, IsRecord, ResultFields
<1> HIDE DEF port, s
<1>3. /\ DOMAIN document =
           {f \in ResultFields : f \in DOMAIN ResultZeros => s[f] # ResultZeros[f]}
      /\ \A f \in DOMAIN document : document[f] = s[f]
  BY <1>2 DEF Encode
<1> HIDE DEF document
<1>4. HasFields(document, {"version", "bound", "outcome", "status", "resend", "evidence"})
  BY <1>3 DEF ResultFields, ResultZeros, HasFields
<1>5. document.outcome = r.outcome /\ document.evidence = r.evidence
  BY <1>2, <1>3, <1>4 DEF HasFields, ResultFields
<1>6. ASSUME r.outcome = "succeeded" PROVE HasFields(document, {"appliedRev"})
  <2>1. r.appliedRev = LeaseOf(l).command.authorization.desiredRev
    BY <1>6 DEF ValidUpdaterResult, OutcomeJustified, ResultBinding, ProgressBinding
  <2>2. LeaseOf(l).command.authorization.desiredRev >= 1
    BY DEF ValidUpdaterResult, ValidLeaseStatic, ValidUpdaterCommand, ValidAuthorization
  <2>3. s["appliedRev"] # 0
    <3>1. r["appliedRev"] # 0
      BY <2>1, <2>2
    <3> QED
      BY <1>2, <3>1 DEF ResultFields
  <2> QED
    BY <1>3, <2>3 DEF ResultFields, ResultZeros, HasFields
<1>7. ASSUME r.outcome \in {"failed", "ambiguous"} PROVE HasFields(document, {"safeError"})
  <2>1. r["safeError"] # Nil
    BY <1>7 DEF ValidUpdaterResult, OutcomeJustified
  <2>2. s["safeError"] # Nil
    BY <1>2, <2>1 DEF ResultFields
  <2> QED
    BY <1>3, <2>2 DEF ResultFields, ResultZeros, HasFields
<1>8. ASSUME HasFields(document, {"port"}) PROVE PortResultDocument(document.port)
  <2>1. document.port = port /\ port # Nil
    BY <1>2, <1>3, <1>8 DEF ResultFields, ResultZeros, HasFields
  <2>2. r.port # Nil /\ port = Encode(r.port, PortResultZeros)
    BY <2>1 DEF port
  <2>3. ValidResult(PortPlanOf(LeaseOf(l).command).plan, r.port)
    BY <2>2 DEF ValidUpdaterResult, PortResultFits
  <2> QED
    BY <2>1, <2>2, <2>3, PortOnWire DEF WellFormed
<1>9. Cardinality(r.evidence) \in 1 .. 32
  BY DEF ValidUpdaterResult, ValidEvidence
<1> QED
  BY <1>1, <1>4, <1>5, <1>6, <1>7, <1>8, <1>9 DEF ResultDocument

\* What the Updater makes up has its members, and still has when it is observed
\* again.
LEMMA ReportWellFormed ==
  ASSUME NEW r \in Reports
  PROVE  WellFormed(r)
<1>1. \E outcome, claim, seen : r = ResultFor(held, outcome, claim, seen)
  BY DEF Reports
<1> PICK outcome, claim, seen : r = ResultFor(held, outcome, claim, seen)
  BY <1>1
<1>2. IsRecord(r, ResultFields)
  BY DEF ResultFor, IsRecord, ResultFields
<1>3. ASSUME r.port # Nil
      PROVE  /\ IsRecord(r.port, PortFields)
             /\ IsRecord(r.port.observation, ObservationFields)
  <2>1. r.port = PortReport(PlanOf(held.command), claim, seen)
    BY <1>3 DEF ResultFor
  <2> DEFINE ref == ClaimedRef(PlanOf(held.command), [result |-> claim])
             runtime == RuntimeOf(PlanOf(held.command), ref)
  <2> HIDE DEF ref, runtime
  <2>2. CASE claim = "rollback_failed"
    BY <2>1, <2>2 DEF PortReport, IsRecord, PortFields, Observation, ObservationFields
  <2>3. CASE claim # "rollback_failed"
    <3>1. r.port = [result |-> claim, snapshot |-> ref.snapshot, configRev |-> ref.configRev,
                    configSHA |-> ref.configSHA, executorRev |-> ref.executorRev,
                    executorSHA |-> ref.executorSHA, observation |-> Observation(seen),
                    runtime |-> runtime]
      BY <2>1, <2>3 DEF PortReport, ref, runtime
    <3> QED
      BY <3>1 DEF IsRecord, PortFields, Observation, ObservationFields
  <2> QED
    BY <2>2, <2>3
<1> QED
  BY <1>2, <1>3 DEF WellFormed

LEMMA AgainWellFormed ==
  ASSUME NEW d, NEW t, WellFormed(DecodeResult(d)), DecodeResult(d).port # Nil
  PROVE  WellFormed(ObservedAgain(d, t))
<1> DEFINE r == DecodeResult(d)
           observation == [r.port.observation EXCEPT !.at = t]
           port == [r.port EXCEPT !.observation = observation]
<1>1. ObservedAgain(d, t) = [r EXCEPT !.port = port]
  BY DEF ObservedAgain
<1>2. IsRecord(r, ResultFields) /\ IsRecord(r.port, PortFields)
      /\ IsRecord(r.port.observation, ObservationFields)
  BY DEF WellFormed
<1> HIDE DEF r
<1>3. IsRecord(observation, ObservationFields)
  BY <1>2 DEF IsRecord, ObservationFields
<1> HIDE DEF observation
<1>4. IsRecord(port, PortFields) /\ port.observation = observation
  BY <1>2 DEF IsRecord, PortFields
<1> HIDE DEF port
<1>5. IsRecord([r EXCEPT !.port = port], ResultFields) /\ [r EXCEPT !.port = port].port = port
  BY <1>2 DEF IsRecord, ResultFields
<1> QED
  BY <1>1, <1>3, <1>4, <1>5 DEF WellFormed

\* Why what is on the wire is read back as it was sent: it was encoded from a
\* result with all its members.
WireOK ==
  /\ WireRoundTrip
  /\ \A d \in results : WellFormed(DecodeResult(d))

\* A valid result joins what was sent.
LEMMA SentIsOK ==
  ASSUME WireOK, NEW l, NEW r, WellFormed(r), ValidUpdaterResult(LeaseOf(l), r),
         results' = results \cup {EncodeResult(r)}, progress' = progress
  PROVE  WireOK'
<1>1. ResultDocument(EncodeResult(r))
  BY ResultPasses
<1>2. /\ WellFormed(DecodeResult(EncodeResult(r)))
      /\ EncodeResult(DecodeResult(EncodeResult(r))) = EncodeResult(r)
  BY ResultReadBack
<1> QED
  BY <1>1, <1>2 DEF WireOK, WireRoundTrip

LEMMA NextWireOK == WireOK /\ [Next]_vars => WireOK'
<1> SUFFICES ASSUME WireOK, [Next]_vars PROVE WireOK'
  OBVIOUS
<1>1. CASE UNCHANGED wire
  BY <1>1 DEF WireOK, WireRoundTrip, wire
<1>2. ASSUME NEW r \in Reports, SendResult(r)
      PROVE  WireOK'
  BY <1>2, SentIsOK, ReportWellFormed DEF SendResult
<1>3. ASSUME NEW d \in results, ResendResult(d)
      PROVE  WireOK'
  <2>1. /\ ValidUpdaterResult(LeaseOf(held), ObservedAgain(d, now))
        /\ results' = results \cup {EncodeResult(ObservedAgain(d, now))}
        /\ progress' = progress /\ DecodeResult(d).port # Nil
    BY <1>3 DEF ResendResult
  <2>2. WellFormed(ObservedAgain(d, now))
    BY <2>1, AgainWellFormed DEF WireOK
  <2> QED
    BY <2>1, <2>2, SentIsOK
<1>4. ASSUME NEW n \in 1 .. MaxProgress, SendProgress(n)
      PROVE  WireOK'
  <2>1. PICK report :
          /\ progress' = progress \cup {report} /\ results' = results
          /\ HasFields(report, {"version", "bound", "sequence", "phase", "progress", "at"})
    BY <1>4 DEF SendProgress, HasFields
  <2> QED
    BY <2>1 DEF WireOK, WireRoundTrip, ProgressDocument
<1>5. CASE PanelNext
  BY <1>1, <1>5 DEF PanelNext, Claim, AcceptProgress, AcceptResult, AcceptAgain, wire
<1>6. CASE UpdaterNext
  BY <1>1, <1>2, <1>3, <1>4, <1>6 DEF UpdaterNext, ClearActiveJob, UpdaterCrash, IssueGrant,
                                      wire
<1>7. CASE ExecutorNext
  BY <1>1, <1>7 DEF ExecutorNext, Consume, Discard, Write, Probe, TurnBack, ExecutorCrash, wire
<1> QED
  BY <1>1, <1>5, <1>6, <1>7 DEF Next, Tick, AgentFollows, vars, wire

\* No valid result or progress report fails the checks on its own encoding, and
\* each is read back as it was sent.
THEOREM ReportsAreReadable == Spec => []WireRoundTrip
<1>1. Init => WireOK
  BY DEF Init, WireOK, WireRoundTrip
<1>2. WireOK => WireRoundTrip
  BY DEF WireOK
<1> QED
  BY <1>1, <1>2, NextWireOK, PTL DEF Spec
=============================================================================
