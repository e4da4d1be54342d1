------------------------------- MODULE Runtime -------------------------------
(***************************************************************************)
(* The writers of one journal: Runtime, JournalStore and the PCP verifier   *)
(* and finalizer of conformance/legatus.py.                                 *)
(*                                                                         *)
(* A view is a Runtime object.  Its public calls hold the view's own lock,  *)
(* so one call at a time runs on a view, but they take the store's lock     *)
(* only inside append, and the PCP callbacks run between the checks and the *)
(* append.  A call is therefore split into the steps between which another  *)
(* view, a new lease or a crash can come, and call[v] remembers where the   *)
(* call of view v stands.                                                   *)
(*                                                                         *)
(* A reservation is named by its authorization identifier.  The writer id   *)
(* and epoch of a lease are one number: acquire_writer makes every lease    *)
(* differ from the earlier ones by its epoch.  submit and advance_now take  *)
(* the lease of the view, or the one that the caller passes.                *)
(***************************************************************************)
EXTENDS Moves, Sequences, SequencesExt, TLC

CONSTANTS
    Views,              \* Runtime objects
    Authorizations,     \* PCP authorization identifiers
    AuthorizationsFor,  \* [EnvelopeIds -> SUBSET Authorizations]: what PCP may answer
    Candidates,         \* the envelopes anybody may submit
    Clocks,             \* the values an authoritative clock may report
    MaxEpoch,           \* bound on the leases acquired
    BindsReservations,  \* PCP refuses a reservation held by another envelope
    ReservesOnlyLive,   \* PCP refuses a reservation that was released
    RebuildIsAtomic,    \* no append falls between the fold and len(records)
    ExclusiveLeases,    \* the deployment opens one view per lease
    LeasesPassed,       \* callers may pass a lease to submit and advance_now
    MayCrash,           \* views may be lost
    MayLoseAllow        \* an allow of PCP's verifier may be lost or malformed

ASSUME CandidatesAssumption ==
    /\ Candidates \subseteq {e \in Envelope : WellFormed(e)}
    /\ \A e \in Candidates : e.now \in Clocks

ASSUME ClocksAssumption == Clocks \subseteq Nat

ASSUME AuthorizationsAssumption ==
    /\ None \notin Authorizations
    /\ AuthorizationsFor \in [EnvelopeIds -> SUBSET Authorizations]

ASSUME BoundsAssumption ==
    /\ MaxEpoch \in Nat \ {0}
    /\ {BindsReservations, ReservesOnlyLive, RebuildIsAtomic, ExclusiveLeases, LeasesPassed,
        MayCrash, MayLoseAllow} \subseteq BOOLEAN

VARIABLES
    records,        \* JournalStore.records, the durable journal
    epoch,          \* JournalStore.writer_epoch, the current lease
    reservations,   \* FixtureVerifier.reservations: the envelope each one is for
    finalized,      \* FixtureVerifier.finalized: the request that settled each one
    lease,          \* Runtime.writer_epoch of each view, 0 when the view is gone
    cache,          \* threads, envelopes and authorization_ids of each view
    known,          \* _known_position of each view
    acks,           \* the acknowledgements each view holds
    handoffs,       \* pending_pcp_handoffs of each view
    ambiguous,      \* ambiguous_authorizations of each view
    call            \* where the running call of each view stands

journalVars == <<records, epoch>>
pcpVars == <<reservations, finalized>>
viewVars == <<lease, cache, known>>
bookVars == <<acks, handoffs, ambiguous>>
vars == <<journalVars, pcpVars, viewVars, bookVars, call>>

-----------------------------------------------------------------------------
(* Journal records and their replay.                                        *)

EnvelopeRecord(ep, e, a) ==
    [kind |-> "envelope", epoch |-> ep, envelope |-> e, auth |-> a]

PendingId(s) == IF s.pending = None THEN None ELSE s.pending.id

TimeoutRecord(ep, t, s, now) ==
    [kind |-> "timeout", epoch |-> ep, thread |-> t, afterSeq |-> s.seq, now |-> now,
     deadline |-> s.deadline, pending |-> PendingId(s)]

\* What a Runtime knows before the first record; ok turns FALSE where the
\* rebuild raises JournalCorrupt.
EmptyCache ==
    [threads   |-> [t \in Threads |-> VoidSnapshot],
     envelopes |-> [i \in EnvelopeIds |-> None],
     auths     |-> [i \in EnvelopeIds |-> None],
     ok        |-> TRUE]

WithEnvelope(c, e, a) ==
    [c EXCEPT !.threads[e.thread] = ApplyEnvelope(@, e),
              !.envelopes[e.id] = e, !.auths[e.id] = a]

WithTimeout(c, t, now) == [c EXCEPT !.threads[t] = ApplyTimeout(@, now)]

\* The checks of _rebuild on an envelope record and of _apply_timeout.
EnvelopeReplays(c, e, a) ==
    /\ c.envelopes[e.id] = None
    /\ \A i \in EnvelopeIds : c.auths[i] # a
    /\ CausalityHolds(e, c.threads[e.thread], c.envelopes)
    /\ ClockHolds(e, c.threads[e.thread])
    /\ TransitionAllowed(e, c.threads[e.thread])

TimeoutReplays(c, r) ==
    LET s == c.threads[r.thread]
    IN  /\ TimeoutDue(s, r.now)
        /\ r.deadline = s.deadline /\ r.afterSeq = s.seq /\ r.pending = PendingId(s)

Absorb(c, r) ==
    IF r.kind = "envelope"
      THEN IF c.ok /\ EnvelopeReplays(c, r.envelope, r.auth)
             THEN WithEnvelope(c, r.envelope, r.auth) ELSE [c EXCEPT !.ok = FALSE]
      ELSE IF c.ok /\ TimeoutReplays(c, r)
             THEN WithTimeout(c, r.thread, r.now) ELSE [c EXCEPT !.ok = FALSE]

\* _rebuild over a prefix of the journal.
Replay(rs) ==
    LET after[n \in 0..Len(rs)] == IF n = 0 THEN EmptyCache ELSE Absorb(after[n - 1], rs[n])
    IN  after[Len(rs)]

\* _rebuild succeeds in a store whose lease is ep: no record fails to replay,
\* and the epochs neither fall nor pass the lease.
RebuildsUnder(rs, ep) ==
    /\ Replay(rs).ok
    /\ \A m, n \in DOMAIN rs : m <= n => rs[m].epoch <= rs[n].epoch
    /\ \A n \in DOMAIN rs : rs[n].epoch <= ep

Rebuilds(rs) == RebuildsUnder(rs, epoch)

Journaled(rs) == {n \in DOMAIN rs : rs[n].kind = "envelope"}

EnvelopesOf(rs, t) == {n \in Journaled(rs) : rs[n].envelope.thread = t}

-----------------------------------------------------------------------------
(* Finalization requests, acknowledgements and calls.                       *)

Request ==
    [outcome : {"commit"}, id : EnvelopeIds, position : Nat \ {0}]
    \cup [outcome : {"release"}, id : EnvelopeIds, position : {0}]

Acknowledgement == [position : Nat \ {0}, confirmed : BOOLEAN]

ASSUME RequestsAssumption == None \notin Request /\ None \notin Acknowledgement

CommitRequest(i, n) == [outcome |-> "commit", id |-> i, position |-> n]

\* Faulty: a release names a journal position.
ReleaseRequestPositioned(i) == [outcome |-> "release", id |-> i, position |-> 1]

ReleaseRequest(i) == [outcome |-> "release", id |-> i, position |-> 0]

\* The durable commits of a prefix, as reconcile_pcp reads them.
CommitsIn(rs) ==
    [a \in {rs[n].auth : n \in Journaled(rs)} |->
        LET n == CHOOSE m \in Journaled(rs) : rs[m].auth = a
        IN  CommitRequest(rs[n].envelope.id, n)]

Ack(n, confirmed) == [position |-> n, confirmed |-> confirmed]

\* Faulty: a replayed commit is taken for a confirmed one.
RebuiltAcksConfirmed(rs) ==
    [i \in EnvelopeIds |->
        LET at == {n \in Journaled(rs) : rs[n].envelope.id = i}
        IN  IF at = {} THEN None ELSE Ack(CHOOSE n \in at : TRUE, TRUE)]

\* A rebuild finds every commit unconfirmed.
RebuiltAcks(rs) ==
    [i \in EnvelopeIds |->
        LET at == {n \in Journaled(rs) : rs[n].envelope.id = i}
        IN  IF at = {} THEN None ELSE Ack(CHOOSE n \in at : TRUE, FALSE)]

At(step, ep, e, a, request) ==
    [step |-> step, epoch |-> ep, envelope |-> e, auth |-> a, request |-> request]

NoCall == At("none", 0, None, None, None)

Unset == [i \in EnvelopeIds |-> None]

NoRequests == [a \in Authorizations |-> None]

Init ==
    /\ records = <<>>
    /\ epoch = 1
    /\ reservations = NoRequests
    /\ finalized = NoRequests
    /\ lease = [v \in Views |-> 0]
    /\ cache = [v \in Views |-> EmptyCache]
    /\ known = [v \in Views |-> 0]
    /\ acks = [v \in Views |-> Unset]
    /\ handoffs = [v \in Views |-> NoRequests]
    /\ ambiguous = [v \in Views |-> NoRequests]
    /\ call = [v \in Views |-> NoCall]

Up(v) == lease[v] # 0

Idle(v) == Up(v) /\ call[v] = NoCall

LeaseCurrent(v) == lease[v] = epoch

\* The first test of submit and advance_now, which use the current lease from
\* then on: it is the view's own, or the caller passes it.
WriterCurrent(v) == LeasesPassed \/ LeaseCurrent(v)

\* Faulty: the position is not compared.
AppendAnywhere(v, ep) == ep = epoch

\* Faulty: the lease is not compared.
AppendUnfenced(v, ep) == known[v] = Len(records)

\* JournalStore.append accepts: current lease, compare-and-set on the
\* position, and no later epoch in the journal.
AppendAccepted(v, ep) ==
    /\ ep = epoch
    /\ known[v] = Len(records)
    /\ records # <<>> => Last(records).epoch <= ep

Return(v) == call' = [call EXCEPT ![v] = NoCall]

Begin(v, step, e, a, request) == call' = [call EXCEPT ![v] = At(step, epoch, e, a, request)]

Proceed(v, step, e, a, request) ==
    call' = [call EXCEPT ![v] = At(step, call[v].epoch, e, a, request)]

-----------------------------------------------------------------------------
(* The store's lease, and the life of a view.                               *)

AcquireWriter ==
    /\ epoch < MaxEpoch
    /\ epoch' = epoch + 1
    /\ UNCHANGED <<records, pcpVars, viewVars, bookVars, call>>

\* Runtime.__init__ under the current lease.  _rebuild folds the records
\* without the store's lock and reads their number afterwards.
Open(v) ==
    /\ ~Up(v)
    /\ ExclusiveLeases => \A w \in Views : lease[w] # epoch
    /\ Rebuilds(records)
    /\ lease' = [lease EXCEPT ![v] = epoch]
    /\ cache' = [cache EXCEPT ![v] = Replay(records)]
    /\ known' = [known EXCEPT ![v] = Len(records)]
    /\ acks' = [acks EXCEPT ![v] = RebuiltAcks(records)]
    /\ IF RebuildIsAtomic THEN UNCHANGED call ELSE Begin(v, "pin", None, None, None)
    /\ UNCHANGED <<journalVars, pcpVars, handoffs, ambiguous>>

\* self._known_position = len(self.store.records)
PinPosition(v) ==
    /\ call[v].step = "pin"
    /\ known' = [known EXCEPT ![v] = Len(records)]
    /\ Return(v)
    /\ UNCHANGED <<journalVars, pcpVars, lease, cache, bookVars>>

\* A view lives in memory only; the journal and PCP survive it.
Crash(v) ==
    /\ MayCrash /\ Up(v)
    /\ lease' = [lease EXCEPT ![v] = 0]
    /\ cache' = [cache EXCEPT ![v] = EmptyCache]
    /\ known' = [known EXCEPT ![v] = 0]
    /\ acks' = [acks EXCEPT ![v] = Unset]
    /\ handoffs' = [handoffs EXCEPT ![v] = NoRequests]
    /\ ambiguous' = [ambiguous EXCEPT ![v] = NoRequests]
    /\ Return(v)
    /\ UNCHANGED <<journalVars, pcpVars>>

-----------------------------------------------------------------------------
(* Clock observations.                                                      *)

RecordTimeout(v, ep, t, now) ==
    /\ records' = Append(records, TimeoutRecord(ep, t, cache[v].threads[t], now))
    /\ cache' = [cache EXCEPT ![v] = WithTimeout(@, t, now)]
    /\ known' = [known EXCEPT ![v] = Len(records) + 1]

\* advance_now; a rejected append returns an error and changes nothing.
AdvanceNow(v, t, now) ==
    /\ Idle(v) /\ WriterCurrent(v)
    /\ TimeoutDue(cache[v].threads[t], now)
    /\ AppendAccepted(v, epoch)
    /\ RecordTimeout(v, epoch, t, now)
    /\ UNCHANGED <<epoch, pcpVars, lease, bookVars, call>>

\* The runtime_now argument of submit, None when the caller has no clock.
ClockDue(v, t, now) == now # None /\ TimeoutDue(cache[v].threads[t], now)

ObserveRuntimeNow(v, t, now) ==
    IF ClockDue(v, t, now)
      THEN AppendAccepted(v, epoch) /\ RecordTimeout(v, epoch, t, now)
      ELSE UNCHANGED <<records, cache, known>>

-----------------------------------------------------------------------------
(* submit.                                                                  *)

\* The checks before PCP is asked; the snapshot is the one after the
\* authoritative clock was observed.
PrecheckPasses(v, e, now) ==
    LET s == cache[v].threads[e.thread]
        observed == IF ClockDue(v, e.thread, now) THEN ApplyTimeout(s, now) ELSE s
    IN  /\ CausalityHolds(e, observed, cache[v].envelopes)
        /\ ClockHolds(e, observed)
        /\ now # None /\ e.deadline # None => e.deadline >= now

\* A new identifier.  Refused candidates leave at most the timeout record.
Submit(v, e, now) ==
    /\ Idle(v) /\ WriterCurrent(v)
    /\ cache[v].envelopes[e.id] = None
    /\ PrecheckPasses(v, e, now) \/ ClockDue(v, e.thread, now)
    /\ ObserveRuntimeNow(v, e.thread, now)
    /\ IF PrecheckPasses(v, e, now) THEN Begin(v, "verify", e, None, None) ELSE Return(v)
    /\ UNCHANGED <<epoch, pcpVars, lease, bookVars>>

\* An identical duplicate sends the original commit again.
Resubmit(v, e, now) ==
    /\ Idle(v) /\ WriterCurrent(v)
    /\ cache[v].envelopes[e.id] = e
    /\ ObserveRuntimeNow(v, e.thread, now)
    /\ Begin(v, "finalize", e, cache[v].auths[e.id], CommitRequest(e.id, acks[v][e.id].position))
    /\ UNCHANGED <<epoch, pcpVars, lease, bookVars>>

\* Faulty: a settled reservation is allowed again.
PcpAllowsSettled(e, a) ==
    a \in AuthorizationsFor[e.id] /\ (BindsReservations => reservations[a] \in {None, e})

\* The answer of PCP's verifier: allow with a, idempotent for the envelope
\* that already holds the reservation.
PcpAllows(e, a) ==
    /\ a \in AuthorizationsFor[e.id]
    /\ BindsReservations => reservations[a] \in {None, e}
    /\ ReservesOnlyLive /\ finalized[a] # None => finalized[a].outcome = "commit"

\* Faulty: the committed authorizations are not searched.
AuthorizationTakenIfAmbiguous(v, e, a) ==
    ambiguous[v][a] # None /\ ambiguous[v][a].id # e.id

\* The authorization already belongs to another envelope, as far as v knows.
AuthorizationTaken(v, e, a) ==
    \/ \E i \in EnvelopeIds \ {e.id} : cache[v].auths[i] = a
    \/ ambiguous[v][a] # None /\ ambiguous[v][a].id # e.id

\* Faulty: the candidate's clock is never observed.
StepAfterVerify(s, e) == "append"

\* A candidate whose own clock passes the deadline times the thread out first.
StepAfterJudgment(s, e) == IF TimeoutDue(s, e.now) THEN "observe" ELSE "append"

\* Faulty: the candidate's clock is observed before the transition is judged.
VerifyObservingFirst(v, a) ==
    LET e == call[v].envelope
        s == cache[v].threads[e.thread]
    IN  /\ call[v].step = "verify"
        /\ PcpAllows(e, a)
        /\ reservations' = [reservations EXCEPT ![a] = e]
        /\ IF AuthorizationTaken(v, e, a) THEN Return(v)
           ELSE IF ~TransitionAllowed(e, s) /\ ~TimeoutDue(s, e.now)
                  THEN Proceed(v, "finalize", e, a, ReleaseRequest(e.id))
           ELSE Proceed(v, StepAfterJudgment(s, e), e, a, None)
        /\ UNCHANGED <<journalVars, finalized, viewVars, bookVars>>

\* allow, and the checks made on the snapshot read before PCP was asked.
\* A taken authorization is answered as unavailable and keeps its reservation.
Verify(v, a) ==
    LET e == call[v].envelope
        s == cache[v].threads[e.thread]
    IN  /\ call[v].step = "verify"
        /\ PcpAllows(e, a)
        /\ reservations' = [reservations EXCEPT ![a] = e]
        /\ IF AuthorizationTaken(v, e, a) THEN Return(v)
           ELSE IF ~TransitionAllowed(e, s)
                  THEN Proceed(v, "finalize", e, a, ReleaseRequest(e.id))
           ELSE Proceed(v, StepAfterJudgment(s, e), e, a, None)
        /\ UNCHANGED <<journalVars, finalized, viewVars, bookVars>>

\* A deny, or an exception or a malformed result of a PCP that reserved nothing.
VerifyDenied(v) ==
    /\ call[v].step = "verify"
    /\ Return(v)
    /\ UNCHANGED <<journalVars, pcpVars, viewVars, bookVars>>

\* PCP has reserved, but its allow is lost on the way back or is malformed:
\* submit answers unavailable as for any failure, and the view keeps nothing.
AllowLost(v, a) ==
    LET e == call[v].envelope
    IN  /\ MayLoseAllow
        /\ call[v].step = "verify"
        /\ PcpAllows(e, a)
        /\ reservations' = [reservations EXCEPT ![a] = e]
        /\ Return(v)
        /\ UNCHANGED <<journalVars, finalized, viewVars, bookVars>>

\* Faulty: the reservation of a lost append is dropped.
LoseAppendSilently(v) ==
    Return(v) /\ UNCHANGED <<records, cache, known, ambiguous>>

\* Faulty: the rejection is swallowed and the commit is sent all the same.
LoseAppendCommitting(v) ==
    /\ Proceed(v, "finalize", call[v].envelope, call[v].auth,
               CommitRequest(call[v].envelope.id, known[v] + 1))
    /\ UNCHANGED <<records, cache, known, ambiguous>>

\* A lost append leaves the reservation to reconcile_ambiguous_pcp.
LoseAppend(v) ==
    /\ ambiguous' = [ambiguous EXCEPT ![v][call[v].auth] = call[v].envelope]
    /\ Return(v)
    /\ UNCHANGED <<records, cache, known>>

\* The candidate's own clock passes the deadline: the timeout comes first, then
\* the transition is judged again.
ObserveCandidateClock(v) ==
    LET e == call[v].envelope
        a == call[v].auth
        paused == ApplyTimeout(cache[v].threads[e.thread], e.now)
    IN  /\ call[v].step = "observe"
        /\ IF AppendAccepted(v, call[v].epoch)
             THEN /\ RecordTimeout(v, call[v].epoch, e.thread, e.now)
                  /\ IF TransitionAllowed(e, paused)
                       THEN Proceed(v, "append", e, a, None)
                       ELSE Proceed(v, "finalize", e, a, ReleaseRequest(e.id))
                  /\ UNCHANGED ambiguous
             ELSE LoseAppend(v)
        /\ UNCHANGED <<epoch, pcpVars, lease, acks, handoffs>>

AppendEnvelope(v) ==
    LET e == call[v].envelope
        a == call[v].auth
        n == Len(records) + 1
    IN  /\ call[v].step = "append"
        /\ IF AppendAccepted(v, call[v].epoch)
             THEN /\ records' = Append(records, EnvelopeRecord(call[v].epoch, e, a))
                  /\ cache' = [cache EXCEPT ![v] = WithEnvelope(@, e, a)]
                  /\ known' = [known EXCEPT ![v] = n]
                  /\ ambiguous' = [ambiguous EXCEPT ![v][a] = None]
                  /\ Proceed(v, "finalize", e, a, CommitRequest(e.id, n))
             ELSE LoseAppend(v)
        /\ UNCHANGED <<epoch, pcpVars, lease, acks, handoffs>>

-----------------------------------------------------------------------------
(* Finalization.                                                            *)

\* FixtureVerifier.finalize accepts: the reservation is the envelope's, and a
\* settled one is settled by the same request.
Finalizable(a, request) ==
    /\ request # None
    /\ BindsReservations => reservations[a] # None /\ reservations[a].id = request.id
    /\ finalized[a] \in {None, request}

\* What PCP's finalizer can accept of a batch.
Deliverable(requests) == {a \in Authorizations : Finalizable(a, requests[a])}

\* Requests sent to PCP's finalizer.  applied took effect at PCP; the reply of
\* confirmed came back and was valid, every other request is kept for a retry.
Deliver(v, requests, applied, confirmed) ==
    /\ applied \subseteq Deliverable(requests)
    /\ confirmed \subseteq applied
    /\ finalized' = [a \in Authorizations |-> IF a \in applied THEN requests[a] ELSE finalized[a]]
    /\ handoffs' = [handoffs EXCEPT ![v] =
                      [a \in Authorizations |-> CASE requests[a] = None -> @[a]
                                                  [] a \in confirmed    -> None
                                                  [] OTHER              -> requests[a]]]
    /\ UNCHANGED reservations

\* The last step of submit: the acknowledgement of a commit says whether PCP
\* confirmed it; a refusal is answered whatever PCP says.
Finalize(v, applied, confirmed) ==
    LET c == call[v]
    IN  /\ c.step = "finalize"
        /\ Deliver(v, [NoRequests EXCEPT ![c.auth] = c.request], applied, confirmed)
        /\ acks' = IF c.request.outcome = "release" THEN acks
                   ELSE [acks EXCEPT ![v][c.envelope.id] = Ack(c.request.position, confirmed # {})]
        /\ Return(v)
        /\ UNCHANGED <<journalVars, viewVars, ambiguous>>

\* Faulty: only what this view remembers having failed is sent again.
ReconcilableFromMemory(v) == handoffs[v]

\* Faulty: a failed release is not sent again.
ReconcilableFromJournal(v) ==
    LET commits == CommitsIn(SubSeq(records, 1, known[v]))
    IN  [a \in Authorizations |-> IF a \in DOMAIN commits THEN commits[a] ELSE None]

\* What reconcile_pcp sends: the pending handoffs, overlaid by the commit of
\* every envelope of the observed prefix.
Reconcilable(v) ==
    LET commits == CommitsIn(SubSeq(records, 1, known[v]))
    IN  [a \in Authorizations |-> IF a \in DOMAIN commits THEN commits[a] ELSE handoffs[v][a]]

ReconcilePcp(v, applied, confirmed) ==
    LET requests == Reconcilable(v)
        commitOf(i) == {a \in Authorizations :
                           requests[a] # None /\ requests[a].outcome = "commit" /\ requests[a].id = i}
    IN  /\ Idle(v)
        /\ requests # NoRequests
        /\ Deliver(v, requests, applied, confirmed)
        /\ acks' = [acks EXCEPT ![v] =
                      [i \in EnvelopeIds |->
                         IF @[i] = None \/ commitOf(i) = {} THEN @[i]
                         ELSE Ack(@[i].position, commitOf(i) \subseteq confirmed)]]
        /\ UNCHANGED <<journalVars, viewVars, ambiguous, call>>

\* reconcile_ambiguous_pcp tests the lease, then takes the store's lock.
ReconcileAmbiguous(v) ==
    /\ Idle(v) /\ LeaseCurrent(v)
    /\ ambiguous[v] # NoRequests
    /\ Begin(v, "resolve", None, None, None)
    /\ UNCHANGED <<journalVars, pcpVars, viewVars, bookVars>>

\* Under the lock: the exact envelope with this authorization commits, another
\* authorization for it or another envelope of this authorization stays
\* unresolved, and an absent one is released.
Resolution(a, e) ==
    LET current == Replay(records)
        commits == CommitsIn(records)
    IN  IF e = None THEN None
        ELSE IF current.envelopes[e.id] = e THEN IF current.auths[e.id] = a THEN commits[a] ELSE None
        ELSE IF a \in DOMAIN commits THEN None ELSE ReleaseRequest(e.id)

Resolvable(v) ==
    [a \in Authorizations |-> IF Rebuilds(records) THEN Resolution(a, ambiguous[v][a]) ELSE None]

ResolveAmbiguous(v, applied, confirmed) ==
    LET requests == Resolvable(v)
    IN  /\ call[v].step = "resolve"
        /\ Deliver(v, requests, applied, confirmed)
        /\ ambiguous' = [ambiguous EXCEPT ![v] =
                           [a \in Authorizations |-> IF a \in confirmed THEN None ELSE @[a]]]
        /\ Return(v)
        /\ UNCHANGED <<journalVars, viewVars, acks>>

-----------------------------------------------------------------------------

\* What the next delivery of v sends.
Requests(v) ==
    CASE call[v].step = "finalize" -> [NoRequests EXCEPT ![call[v].auth] = call[v].request]
      [] call[v].step = "resolve"  -> Resolvable(v)
      [] call[v].step = "none"     -> Reconcilable(v)
      [] OTHER                     -> NoRequests

ViewNext(v) ==
    \/ Open(v)
    \/ PinPosition(v)
    \/ Crash(v)
    \/ \E t \in Threads, now \in Clocks : AdvanceNow(v, t, now)
    \/ \E e \in Candidates, now \in Clocks \cup {None} : Submit(v, e, now) \/ Resubmit(v, e, now)
    \/ \E a \in Authorizations : Verify(v, a) \/ AllowLost(v, a)
    \/ VerifyDenied(v)
    \/ ObserveCandidateClock(v)
    \/ AppendEnvelope(v)
    \/ \E applied \in SUBSET Deliverable(Requests(v)) : \E confirmed \in SUBSET applied :
         \/ Finalize(v, applied, confirmed)
         \/ ReconcilePcp(v, applied, confirmed)
         \/ ResolveAmbiguous(v, applied, confirmed)
    \/ ReconcileAmbiguous(v)

Next == AcquireWriter \/ \E v \in Views : ViewNext(v)

Spec == Init /\ [][Next]_vars

\* A call that was begun ends, and a lost view is opened again.
Progress(v) ==
    \/ PinPosition(v) \/ VerifyDenied(v) \/ ObserveCandidateClock(v) \/ AppendEnvelope(v)
    \/ \E a \in Authorizations : Verify(v, a) \/ AllowLost(v, a)
    \/ \E applied \in SUBSET Deliverable(Requests(v)) : \E confirmed \in SUBSET applied :
         Finalize(v, applied, confirmed) \/ ResolveAmbiguous(v, applied, confirmed)

\* PCP's finalizer is reached: all it can accept is applied and confirmed.
ReconcileReaches(v) ==
    LET all == Deliverable(Reconcilable(v)) IN all # {} /\ ReconcilePcp(v, all, all)

ResolveReaches(v) ==
    LET all == Deliverable(Resolvable(v)) IN all # {} /\ ResolveAmbiguous(v, all, all)

\* The caller reopens views and keeps calling the two reconciliations, as
\* spec/03, section 6, asks of it; a view is not lost in every rebuild, and PCP
\* is not unreachable forever.
Fairness ==
    \A v \in Views :
        /\ WF_vars(Open(v))
        /\ SF_vars(PinPosition(v))
        /\ WF_vars(Progress(v))
        /\ SF_vars(ReconcileReaches(v))
        /\ SF_vars(ReconcileAmbiguous(v))
        /\ SF_vars(ResolveReaches(v))

FairSpec == Spec /\ Fairness

-----------------------------------------------------------------------------
(* A sender that retries.                                                   *)

\* The lists of v from which a reservation is settled: its running call, its
\* pending handoffs, its ambiguous authorizations and the commits it observes.
Working == {"observe", "append", "finalize"}

Observed(v) == SubSeq(records, 1, known[v])

Listed(v, a) ==
    \/ call[v].step \in Working /\ call[v].auth = a
    \/ handoffs[v][a] # None
    \/ ambiguous[v][a] # None
    \/ a \in DOMAIN CommitsIn(Observed(v))

Known(a) == \E v \in Views : Listed(v, a)

Unresolved(a) == reservations[a] # None /\ finalized[a] = None

\* No up-to-date view passes e to PCP any more.
Overtaken(e) ==
    LET current == Replay(records)
    IN  current.envelopes[e.id] # None \/ ~ClockHolds(e, current.threads[e.thread])

\* The sender was answered unavailable, which is retriable.
Retry(v, a) == Unresolved(a) /\ ~Known(a) /\ Submit(v, reservations[a], None)

Heard(v, a) == Unresolved(a) /\ ~Known(a) /\ Verify(v, a)

\* The sender transport-retries the same candidate as long as it can be passed
\* to PCP, and not every one of PCP's answers to a retry is lost.
RetryingSpec ==
    /\ FairSpec
    /\ SF_vars(\E v \in Views, a \in Authorizations : Retry(v, a))
    /\ SF_vars(\E v \in Views, a \in Authorizations : Heard(v, a))

-----------------------------------------------------------------------------
(* Properties.                                                              *)

Calls == {"none", "pin", "verify", "observe", "append", "finalize", "resolve"}

TypeOK ==
    /\ \A n \in DOMAIN records : records[n].kind \in {"envelope", "timeout"} /\ records[n].epoch \in 1..MaxEpoch
    /\ epoch \in 1..MaxEpoch
    /\ reservations \in [Authorizations -> Candidates \cup {None}]
    /\ finalized \in [Authorizations -> Request \cup {None}]
    /\ lease \in [Views -> 0..MaxEpoch]
    /\ \A v \in Views : cache[v].threads \in [Threads -> Snapshot]
    /\ known \in [Views -> Nat]
    /\ acks \in [Views -> [EnvelopeIds -> Acknowledgement \cup {None}]]
    /\ handoffs \in [Views -> [Authorizations -> Request \cup {None}]]
    /\ ambiguous \in [Views -> [Authorizations -> Candidates \cup {None}]]
    /\ \A v \in Views : call[v].step \in Calls

\* The journal implements Coordination: its fold starts void, and every append,
\* by whatever view and from whatever cached state, is exactly one legal commit
\* or one due timeout of the thread as all the records before it left it.  As
\* the fold depends on the records alone, this implies Journal!Spec.
Journal == INSTANCE Coordination
              WITH threads <- Replay(records).threads, envelopes <- Replay(records).envelopes

JournalIsLegal == Journal!Init /\ [][records' # records /\ Journal!Next]_records

\* Every journal a view writes can be rebuilt (_rebuild raises no JournalCorrupt).
JournalReplays == Rebuilds(records)

\* What a view has in memory is the fold of the prefix it has observed: a stale
\* view is behind, never wrong (spec/03, section 1).
ViewsFoldPrefix ==
    \A v \in Views :
        Up(v) /\ call[v].step # "pin" =>
            /\ known[v] <= Len(records)
            /\ cache[v] = Replay(Observed(v))

\* A deposed writer appends nothing: the journal only grows, one record at a
\* time, each under the lease that is current at that moment (H-011, H-015).
FencedAppend ==
    [][records' # records =>
         /\ Len(records') = Len(records) + 1
         /\ SubSeq(records', 1, Len(records)) = records
         /\ Last(records').epoch = epoch
         /\ \A n \in DOMAIN records : records[n].epoch <= epoch]_vars

\* A candidate's own clock times a thread out only after PCP has allowed it and
\* while its move is legal on the whole journal: an outsider, a denied proof or
\* a move out of place forces no timeout, and neither does a judgment that
\* another writer's append has overtaken (spec/03, section 4).
IneligibleForceNoTimeout ==
    [][\A v \in Views :
         call[v].step = "observe" /\ call'[v] # call[v] /\ records' # records =>
             LET e == call[v].envelope
             IN  /\ reservations[call[v].auth] = e
                 /\ TransitionAllowed(e, Replay(records).threads[e.thread])]_vars

\* One authorization pays for one envelope, and an envelope is journaled once.
AuthorizationsUnique ==
    \A m, n \in Journaled(records) :
        records[m].auth = records[n].auth \/ records[m].envelope.id = records[n].envelope.id => m = n

\* PCP is told "commit" only for an envelope that is durable at that position
\* under that authorization.
CommitsAreJournaled ==
    \A a \in Authorizations :
        finalized[a] # None /\ finalized[a].outcome = "commit" =>
            LET n == finalized[a].position
            IN  /\ n \in Journaled(records)
                /\ records[n].auth = a /\ records[n].envelope.id = finalized[a].id

\* authorization_state "committed" is the truth: PCP has settled that journaled
\* record. An acknowledgement of any state names the durable record.
AcksTruthful ==
    \A v \in Views, i \in EnvelopeIds :
        acks[v][i] # None =>
            LET n == acks[v][i].position
            IN  /\ n \in Journaled(records) /\ records[n].envelope.id = i
                /\ acks[v][i].confirmed => finalized[records[n].auth] = CommitRequest(i, n)

\* The reservation of a journaled envelope is never released: commit is the
\* outcome after a durable append, release after a deterministic rejection
\* or proven absence, and never both (README, spec/02, spec/03).
Released(a) == finalized[a] # None /\ finalized[a].outcome = "release"

CommittedNeverReleased ==
    \A n \in Journaled(records) : ~Released(records[n].auth)

\* Its two halves: no release comes after the append ...
ReleaseOnlyAbsent ==
    [][\A a \in Authorizations :
         ~Released(a) /\ Released(a)' => a \notin DOMAIN CommitsIn(records)]_vars

\* ... and no append comes after the release.
AppendOnlyLive ==
    [][\A n \in Journaled(records') \ DOMAIN records : ~Released(records'[n].auth)]_vars

\* While no view is lost, what a view has heard of stays on its lists until PCP
\* has settled it: no refused append, failed delivery or reconciliation of the
\* runtime drops a reservation.
ReservationsKept ==
    [][\A v \in Views, a \in Authorizations :
         (Listed(v, a) \/ Verify(v, a)) /\ finalized'[a] = None => Listed(v, a)']_vars

\* Every durable commit reaches PCP, however often the view is lost and the
\* finalizer fails: as long as the system runs there is always a later moment
\* at which PCP has settled the whole journal.
CommitsSettle ==
    []<>(\A a \in DOMAIN CommitsIn(records) : finalized[a] # None /\ finalized[a].outcome = "commit")

\* While no view is lost and no lease changes, there is always a later moment at
\* which every reservation is settled, but for those of which no view has heard
\* and whose candidate the journal has overtaken: no retry can reach them.
ReservationsSettle ==
    []<>(\A a \in Authorizations :
           Unresolved(a) => ~Known(a) /\ Overtaken(reservations[a]))

\* README, "Contract at a glance": every PCP authorization reservation resolves
\* through commit or release.
EveryReservationResolves == []<>(\A a \in Authorizations : ~Unresolved(a))
=============================================================================
