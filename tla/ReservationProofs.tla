-------------------------- MODULE ReservationProofs --------------------------
(***************************************************************************)
(* Proofs about reservations: none that a view has heard of is forgotten    *)
(* while no view is lost (~MayCrash), a candidate's clock forces a timeout only on behalf of a    *)
(* reservation that PCP holds for it (BindsReservations), and what one      *)
(* writer has journaled is never released (SingleView and                   *)
(* ReservesOnlyLive).  The first two rest on RebuildsAlone as well, which a  *)
(* single view implies.                                                     *)
(***************************************************************************)
EXTENDS JournalProofs

-----------------------------------------------------------------------------
(* A reservation on somebody's list.                                        *)

\* A commit that a view has observed, it keeps observing.
LEMMA CommitsObserved ==
    ASSUME IInv, IInv', Kept, NEW v \in Views, known[v] <= known'[v],
           NEW a, a \in DOMAIN CommitsIn(Observed(v))
    PROVE  a \in DOMAIN CommitsIn(SubSeq(records', 1, known'[v]))
  <1>1. /\ records \in Seq(Record) /\ known[v] \in Nat /\ known[v] <= Len(records)
        /\ records' \in Seq(Record) /\ known'[v] \in Nat /\ known'[v] <= Len(records')
    BY DEF IInv, Typed, ViewSound
  <1>2. PICK n \in Journaled(Observed(v)) : Observed(v)[n].auth = a
    BY DEF CommitsIn
  <1>3. n \in 1..known[v] /\ n \in DOMAIN records /\ Observed(v)[n] = records[n]
    BY <1>1, <1>2 DEF Journaled, Observed
  <1>4. n \in Journaled(records)
    BY <1>2, <1>3 DEF Journaled
  <1>5. n \in Journaled(records') /\ records'[n] = records[n]
    BY <1>4 DEF Kept
  <1> DEFINE seen == SubSeq(records', 1, known'[v])
  <1>6. n \in DOMAIN seen /\ seen[n] = records'[n]
    BY <1>1, <1>3, <1>5
  <1> HIDE DEF seen
  <1>7. n \in Journaled(seen) /\ seen[n].auth = a
    BY <1>2, <1>3, <1>5, <1>6 DEF Journaled
  <1>8. a \in DOMAIN CommitsIn(seen)
    BY <1>7 DEF CommitsIn
  <1>9. QED
    BY <1>8 DEF seen

\* A view that is not lost never observes less.
LEMMA KnownGrows ==
    ASSUME ~MayCrash, IInv, [Next]_vars, NEW v \in Views
    PROVE  known[v] <= known'[v]
  <1>1. known \in [Views -> Nat] /\ Len(records) \in Nat /\ \A w \in Views : known[w] <= Len(records)
    BY DEF IInv, Typed, ViewSound
  <1>2. CASE known' = known
    BY <1>1, <1>2
  <1>3. CASE \E w \in Views : known' = [known EXCEPT ![w] = Len(records)]
    BY <1>1, <1>3
  <1>4. CASE \E w \in Views : known' = [known EXCEPT ![w] = Len(records) + 1]
    BY <1>1, <1>4
  <1>5. ASSUME NEW w \in Views, ViewNext(w)
        PROVE  \/ known' = known
               \/ known' = [known EXCEPT ![w] = Len(records)]
               \/ known' = [known EXCEPT ![w] = Len(records) + 1]
    BY <1>5 DEF ViewNext, Open, PinPosition, Crash, AdvanceNow, Submit, Resubmit, ObserveRuntimeNow,
       RecordTimeout, Verify, VerifyDenied, AllowLost, ObserveCandidateClock, LoseAppend, AppendEnvelope, Finalize,
       ReconcilePcp, ReconcileAmbiguous, ResolveAmbiguous, viewVars
  <1>6. QED
    BY <1>2, <1>3, <1>4, <1>5 DEF Next, AcquireWriter, vars, viewVars

\* A delivery takes a reservation off the handoffs only when PCP has settled it.
LEMMA DeliverLists ==
    ASSUME IInv, NEW v \in Views, NEW requests, NEW applied, NEW confirmed,
           Deliver(v, requests, applied, confirmed), NEW a \in Authorizations, finalized'[a] = None
    PROVE  /\ a \notin confirmed
           /\ handoffs[v][a] # None \/ requests[a] # None => handoffs'[v][a] # None
           /\ \A w \in Views \ {v} : handoffs'[w] = handoffs[w]
  <1>1. a \notin confirmed
    BY DEF Deliver, Deliverable, Finalizable
  <1> DEFINE kept == [b \in Authorizations |-> CASE requests[b] = None -> handoffs[v][b]
                                                  [] b \in confirmed    -> None
                                                  [] OTHER              -> requests[b]]
  <1>2. handoffs' = [handoffs EXCEPT ![v] = kept]
    BY DEF Deliver
  <1>3. kept[a] = IF requests[a] = None THEN handoffs[v][a] ELSE requests[a]
    BY <1>1
  <1> HIDE DEF kept
  <1>4. handoffs \in [Views -> [Authorizations -> Request \cup {None}]]
    BY DEF IInv, Typed
  <1>5. handoffs'[v] = kept /\ \A w \in Views \ {v} : handoffs'[w] = handoffs[w]
    BY <1>2, <1>4
  <1>6. QED
    BY <1>1, <1>3, <1>5

\* The lists of the other views.
LEMMA OthersKeepLists ==
    ASSUME IInv, NEW w \in Views, ViewNext(w), NEW v \in Views, v # w, NEW a \in Authorizations,
           finalized'[a] = None
    PROVE  call'[v] = call[v] /\ handoffs'[v] = handoffs[v] /\ ambiguous'[v] = ambiguous[v]
  <1>1. /\ call \in [Views -> CallRecord]
        /\ handoffs \in [Views -> [Authorizations -> Request \cup {None}]]
        /\ ambiguous \in [Views -> [Authorizations -> Candidates \cup {None}]]
    BY DEF IInv, Typed
  <1>2. call' = call \/ \E x : call' = [call EXCEPT ![w] = x]
    BY DEF ViewNext, Open, PinPosition, Crash, AdvanceNow, Submit, Resubmit, Verify, VerifyDenied, AllowLost,
       ObserveCandidateClock, LoseAppend, AppendEnvelope, Finalize, ReconcilePcp, ReconcileAmbiguous,
       ResolveAmbiguous, Return, Begin, Proceed
  <1>3. ambiguous' = ambiguous \/ \E x : ambiguous' = [ambiguous EXCEPT ![w] = x]
    BY DEF ViewNext, Open, PinPosition, Crash, AdvanceNow, Submit, Resubmit, Verify, VerifyDenied, AllowLost,
       ObserveCandidateClock, LoseAppend, AppendEnvelope, Finalize, ReconcilePcp, ReconcileAmbiguous,
       ResolveAmbiguous, bookVars
  <1>4. handoffs' = handoffs \/ \E x : handoffs' = [handoffs EXCEPT ![w] = x]
    BY DEF ViewNext, Open, PinPosition, Crash, AdvanceNow, Submit, Resubmit, Verify, VerifyDenied, AllowLost,
       ObserveCandidateClock, LoseAppend, AppendEnvelope, Finalize, ReconcilePcp, ReconcileAmbiguous,
       ResolveAmbiguous, bookVars, Deliver
  <1>5. QED
    BY <1>1, <1>2, <1>3, <1>4

\* The append of a running call: the reservation goes to the ambiguous ones, to
\* the last step, or to the judgment after a timeout.
LEMMA WorkingKept ==
    ASSUME IInv, NEW v \in Views, ViewNext(v), NEW a \in Authorizations, finalized'[a] = None,
           call[v].step \in Working, call[v].auth = a, ~MayCrash
    PROVE  \/ call'[v].step \in Working /\ call'[v].auth = a
           \/ handoffs'[v][a] # None
           \/ ambiguous'[v][a] # None
  <1>1. /\ call \in [Views -> CallRecord]
        /\ ambiguous \in [Views -> [Authorizations -> Candidates \cup {None}]]
        /\ call[v] # NoCall /\ lease[v] # 0
    BY NoCallSound DEF IInv, Typed, ViewSound, Working
  <1>2. ASSUME NEW step \in Working, NEW e, NEW r, Proceed(v, step, e, a, r)
        PROVE  call'[v].step \in Working /\ call'[v].auth = a
    BY <1>1, <1>2 DEF Proceed, At
  <1>3. CASE LoseAppend(v) /\ call[v].step \in {"observe", "append"}
    <2>1. call[v].envelope # None
      BY <1>3, AllowedCall, CandidateFields
    <2>2. ambiguous'[v][a] = call[v].envelope
      BY <1>1, <1>3 DEF LoseAppend
    <2>3. QED
      BY <2>1, <2>2
  <1>4. CASE ObserveCandidateClock(v)
    <2>1. call[v].step = "observe"
      BY <1>4 DEF ObserveCandidateClock
    <2>2. \/ LoseAppend(v)
          \/ \E step \in {"append", "finalize"} : \E e, r : Proceed(v, step, e, a, r)
      BY <1>4 DEF ObserveCandidateClock
    <2>3. QED
      BY <1>2, <1>3, <2>1, <2>2 DEF Working
  <1>5. CASE AppendEnvelope(v)
    <2>1. call[v].step = "append"
      BY <1>5 DEF AppendEnvelope
    <2>2. LoseAppend(v) \/ \E e, r : Proceed(v, "finalize", e, a, r)
      BY <1>5 DEF AppendEnvelope
    <2>3. QED
      BY <1>2, <1>3, <2>1, <2>2 DEF Working
  <1>6. ASSUME NEW applied, NEW confirmed, Finalize(v, applied, confirmed)
        PROVE  handoffs'[v][a] # None
    <2> DEFINE rs == [NoRequests EXCEPT ![a] = call[v].request]
    <2>1. call[v].step = "finalize" /\ Deliver(v, rs, applied, confirmed)
      BY <1>6 DEF Finalize
    <2>2. call[v].request # None
      BY <2>1, RequestsAssumption DEF IInv, ViewSound, CallSound
    <2>3. rs[a] # None
      BY <2>2 DEF NoRequests
    <2> HIDE DEF rs
    <2>4. QED
      BY <2>1, <2>3, DeliverLists
  <1>7. call[v].step \notin {"none", "pin", "verify", "resolve"}
    BY DEF Working
  <1>8. QED
    BY <1>1, <1>4, <1>5, <1>6, <1>7, NoCallSound DEF ViewNext, Open, PinPosition, Crash, AdvanceNow,
       Submit, Resubmit, Idle, Up, Verify, VerifyDenied, AllowLost, ReconcilePcp, ReconcileAmbiguous, ResolveAmbiguous

\* A pending handoff stays pending until PCP has settled it.
LEMMA HandoffKept ==
    ASSUME IInv, NEW v \in Views, ViewNext(v), NEW a \in Authorizations, finalized'[a] = None,
           handoffs[v][a] # None, ~MayCrash
    PROVE  handoffs'[v][a] # None
  <1>1. handoffs' = handoffs \/ \E requests, applied, confirmed : Deliver(v, requests, applied, confirmed)
    BY DEF ViewNext, Open, PinPosition, Crash, AdvanceNow, Submit, Resubmit, Verify, VerifyDenied, AllowLost,
       ObserveCandidateClock, AppendEnvelope, Finalize, ReconcilePcp, ReconcileAmbiguous,
       ResolveAmbiguous, bookVars
  <1>2. QED
    BY <1>1, DeliverLists

\* An ambiguous reservation stays so until PCP has settled it, or the append
\* of another attempt has got through.
LEMMA AmbiguousKept ==
    ASSUME IInv, NEW v \in Views, ViewNext(v), NEW a \in Authorizations, finalized'[a] = None,
           ambiguous[v][a] # None, ~MayCrash
    PROVE  ambiguous'[v][a] # None \/ (call'[v].step \in Working /\ call'[v].auth = a)
  <1>1. /\ call \in [Views -> CallRecord]
        /\ ambiguous \in [Views -> [Authorizations -> Candidates \cup {None}]]
    BY DEF IInv, Typed
  <1>2. CASE ambiguous' = ambiguous
    BY <1>2
  <1>3. CASE LoseAppend(v) /\ call[v].step \in {"observe", "append"}
    <2>1. call[v].envelope # None
      BY <1>3, AllowedCall, CandidateFields
    <2>2. ambiguous'[v] = [ambiguous[v] EXCEPT ![call[v].auth] = call[v].envelope]
      BY <1>1, <1>3 DEF LoseAppend
    <2>3. ambiguous'[v][a] \in {ambiguous[v][a], call[v].envelope}
      BY <1>1, <2>2
    <2>4. QED
      BY <2>1, <2>3
  <1>4. CASE AppendEnvelope(v) /\ AppendAccepted(v, call[v].epoch)
    <2>1. ambiguous' = [ambiguous EXCEPT ![v][call[v].auth] = None]
      BY <1>4 DEF AppendEnvelope
    <2>2. \E e, r : Proceed(v, "finalize", e, call[v].auth, r)
      BY <1>4 DEF AppendEnvelope
    <2>3. call'[v].step = "finalize" /\ call'[v].auth = call[v].auth
      BY <1>1, <2>2 DEF Proceed, At
    <2>4. CASE call[v].auth = a
      BY <2>3, <2>4 DEF Working
    <2>5. CASE call[v].auth # a
      BY <1>1, <2>1, <2>5
    <2>6. QED
      BY <2>4, <2>5
  <1>5. ASSUME NEW applied, NEW confirmed, ResolveAmbiguous(v, applied, confirmed)
        PROVE  ambiguous'[v][a] # None
    <2>1. a \notin confirmed
      BY <1>5, DeliverLists DEF ResolveAmbiguous
    <2>2. ambiguous'[v][a] = ambiguous[v][a]
      BY <1>1, <1>5, <2>1 DEF ResolveAmbiguous
    <2>3. QED
      BY <2>2
  <1>6. \/ ambiguous' = ambiguous
        \/ LoseAppend(v) /\ call[v].step \in {"observe", "append"}
        \/ AppendEnvelope(v) /\ AppendAccepted(v, call[v].epoch)
        \/ \E applied, confirmed : ResolveAmbiguous(v, applied, confirmed)
    BY DEF ViewNext, Open, PinPosition, Crash, AdvanceNow, Submit, Resubmit, Verify, VerifyDenied, AllowLost,
       ObserveCandidateClock, AppendEnvelope, Finalize, ReconcilePcp, ReconcileAmbiguous, bookVars
  <1>7. QED
    BY <1>2, <1>3, <1>4, <1>5, <1>6

\* While no view is lost, a reservation that is not settled stays on the lists of
\* its view: a delivery that leaves it open puts it among the handoffs.
LEMMA ListedKept ==
    ASSUME ~MayCrash, IInv, [Next]_vars, NEW v \in Views, NEW a \in Authorizations, Listed(v, a),
           finalized'[a] = None
    PROVE  Listed(v, a)'
  <1>1. IInv' /\ Kept /\ known[v] <= known'[v]
    BY InvNext, RecordsKept, KnownGrows
  <1>2. CASE a \in DOMAIN CommitsIn(Observed(v))
    BY <1>1, <1>2, CommitsObserved DEF Listed, Observed
  <1>3. CASE UNCHANGED <<call, handoffs, ambiguous>>
    BY <1>2, <1>3 DEF Listed
  <1>4. ASSUME NEW w \in Views, ViewNext(w), w # v PROVE Listed(v, a)'
    BY <1>2, <1>4, OthersKeepLists DEF Listed
  <1>5. CASE ViewNext(v)
    BY <1>2, <1>5, WorkingKept, HandoffKept, AmbiguousKept DEF Listed
  <1>6. QED
    BY <1>3, <1>4, <1>5 DEF Next, AcquireWriter, vars, bookVars

\* The list of a reservation that PCP has just given.
LEMMA NewlyListed ==
    ASSUME IInv, JInv, NEW v \in Views, NEW a \in Authorizations, Verify(v, a)
    PROVE  Listed(v, a)'
  <1>1. /\ call \in [Views -> CallRecord] /\ UNCHANGED <<records, known, ambiguous>>
    BY DEF IInv, Typed, Verify, journalVars, viewVars, bookVars
  <1>2. CASE AuthorizationTaken(v, call[v].envelope, a) /\ ambiguous[v][a] # None
    BY <1>1, <1>2 DEF Listed
  <1>3. CASE AuthorizationTaken(v, call[v].envelope, a) /\ ambiguous[v][a] = None
    <2>1. PICK i \in EnvelopeIds : cache[v].auths[i] = a
      BY <1>3 DEF AuthorizationTaken
    <2>2. Observed(v) \in Seq(Record) /\ Indexes(cache[v], Observed(v))
      <3>1. Observed(v) \in Seq(Record) /\ cache[v] = Replay(Observed(v)) /\ cache[v].ok
        BY ObservedType DEF JInv, ViewFolds
      <3>2. QED
        BY <3>1, ReplaySound DEF Sound
    <2>3. PICK n \in Journaled(Observed(v)) : Observed(v)[n].envelope.id = i
      BY <2>1, <2>2, AuthorizationsAssumption DEF Indexes
    <2>4. Observed(v)[n].auth = a
      BY <2>1, <2>2, <2>3 DEF Indexes
    <2>5. a \in DOMAIN CommitsIn(Observed(v))
      BY <2>3, <2>4 DEF CommitsIn
    <2>6. QED
      BY <1>1, <2>5 DEF Listed, Observed
  <1>4. CASE ~AuthorizationTaken(v, call[v].envelope, a)
    <2>1. \A s, e : StepAfterJudgment(s, e) \in Working
      BY DEF StepAfterJudgment, Working
    <2>2. \E step \in Working : \E e, r : Proceed(v, step, e, a, r)
      BY <1>4, <2>1 DEF Verify, Working
    <2>3. call'[v].step \in Working /\ call'[v].auth = a
      BY <1>1, <2>2 DEF Proceed, At
    <2>4. QED
      BY <2>3 DEF Listed
  <1>5. QED
    BY <1>2, <1>3, <1>4

\* What ReservationsKept asks of one step.
StepKeeps ==
    \A v \in Views, a \in Authorizations :
        (Listed(v, a) \/ Verify(v, a)) /\ finalized'[a] = None => Listed(v, a)'

\* While no view is lost, a reservation of which a view has heard stays on that
\* view's lists until PCP has settled it: no error path of submit, lost append or
\* failed delivery drops one (spec/03, section 6).
THEOREM ReservationsStayListed ==
    ASSUME RebuildsAlone, ~MayCrash PROVE Spec => ReservationsKept
  <1>1. (IInv /\ JInv) /\ [Next]_vars => StepKeeps
    BY ListedKept, NewlyListed DEF StepKeeps
  <1>2. Spec => [][StepKeeps]_vars
    BY <1>1, FoldHolds, PTL DEF Spec
  <1>3. QED
    BY <1>2 DEF ReservationsKept, StepKeeps

-----------------------------------------------------------------------------
(* The candidate's own clock.                                               *)

\* PCP reserves only when it answers, whether its allow arrives or not, and then
\* for the envelope of the call.
LEMMA ReservationsGiven ==
    ASSUME IInv, [Next]_vars
    PROVE  \/ reservations' = reservations
           \/ \E v \in Views, a \in Authorizations :
                /\ PcpAllows(call[v].envelope, a)
                /\ reservations' = [reservations EXCEPT ![a] = call[v].envelope]
  <1>1. ASSUME NEW v \in Views, ViewNext(v)
        PROVE  \/ reservations' = reservations
               \/ \E a \in Authorizations : Verify(v, a) \/ AllowLost(v, a)
    BY <1>1 DEF ViewNext, Open, PinPosition, Crash, AdvanceNow, Submit, Resubmit, VerifyDenied,
       ObserveCandidateClock, AppendEnvelope, Finalize, ReconcilePcp, ReconcileAmbiguous,
       ResolveAmbiguous, pcpVars, Deliver
  <1>2. QED
    BY <1>1 DEF Next, AcquireWriter, vars, pcpVars, Verify, AllowLost

\* PCP holds the reservation of a call for the envelope of the call.
BInv ==
    \A v \in Views : call[v].step \in {"observe", "append"} => reservations[call[v].auth] = call[v].envelope

\* Under a PCP that binds reservations nobody takes over the reservation of a call
\* that was allowed.
LEMMA BInvNext ==
    ASSUME BindsReservations, IInv, BInv, [Next]_vars
    PROVE  BInv'
  <1>1. /\ call \in [Views -> CallRecord] /\ reservations \in [Authorizations -> Candidates \cup {None}]
    BY DEF IInv, Typed
  <1>2. ASSUME NEW v \in Views, call[v].step \in {"observe", "append"}
        PROVE  reservations'[call[v].auth] = call[v].envelope
    <2>1. /\ reservations[call[v].auth] = call[v].envelope /\ call[v].envelope # None
          /\ call[v].auth \in Authorizations
      BY <1>2, AllowedCall, CandidateFields DEF BInv
    <2>2. ASSUME NEW w \in Views, NEW a \in Authorizations, PcpAllows(call[w].envelope, a),
                 reservations' = [reservations EXCEPT ![a] = call[w].envelope]
          PROVE  reservations'[call[v].auth] = call[v].envelope
      BY <1>1, <2>1, <2>2 DEF PcpAllows
    <2>3. QED
      BY <2>1, <2>2, ReservationsGiven
  <1>3. ASSUME NEW v \in Views, ViewNext(v), call'[v].step \in {"observe", "append"}
        PROVE  reservations'[call'[v].auth] = call'[v].envelope
    <2>1. CASE call'[v] = call[v]
      BY <1>2, <1>3, <2>1
    <2>2. CASE Return(v)
      BY <1>1, <1>3, <2>2, NoCallSound DEF Return
    <2>3. ASSUME NEW a \in Authorizations, Verify(v, a)
          PROVE  reservations'[call'[v].auth] = call'[v].envelope
      <3>1. reservations'[a] = call[v].envelope
        BY <1>1, <2>3 DEF Verify
      <3>2. Return(v) \/ \E step, r : Proceed(v, step, call[v].envelope, a, r)
        BY <2>3 DEF Verify
      <3>3. CASE \E step, r : Proceed(v, step, call[v].envelope, a, r)
        BY <1>1, <3>1, <3>3 DEF Proceed, At
      <3>4. QED
        BY <2>2, <3>2, <3>3
    <2>4. CASE ObserveCandidateClock(v) \/ AppendEnvelope(v)
      <3>1. call[v].step \in {"observe", "append"}
        BY <2>4 DEF ObserveCandidateClock, AppendEnvelope
      <3>2. Return(v) \/ \E step, r : Proceed(v, step, call[v].envelope, call[v].auth, r)
        BY <2>4 DEF ObserveCandidateClock, AppendEnvelope, LoseAppend
      <3>3. CASE \E step, r : Proceed(v, step, call[v].envelope, call[v].auth, r)
        BY <1>1, <1>2, <3>1, <3>3 DEF Proceed, At
      <3>4. QED
        BY <2>2, <3>2, <3>3
    <2>5. ASSUME NEW step \in {"pin", "verify", "finalize", "resolve"}, NEW e, NEW a, NEW r, Begin(v, step, e, a, r)
          PROVE  FALSE
      BY <1>1, <1>3, <2>5 DEF Begin, At
    <2>6. QED
      BY <1>1, <1>3, <2>1, <2>2, <2>3, <2>4, <2>5 DEF ViewNext, Open, PinPosition, Crash, AdvanceNow,
         Submit, Resubmit, VerifyDenied, AllowLost, Finalize, ReconcilePcp, ReconcileAmbiguous, ResolveAmbiguous
  <1>4. ASSUME NEW v \in Views, NEW w \in Views, ViewNext(w), v # w
        PROVE  call'[v] = call[v]
    <2>1. call' = call \/ \E x : call' = [call EXCEPT ![w] = x]
      BY <1>4 DEF ViewNext, Open, PinPosition, Crash, AdvanceNow, Submit, Resubmit, Verify, VerifyDenied, AllowLost,
         ObserveCandidateClock, LoseAppend, AppendEnvelope, Finalize, ReconcilePcp, ReconcileAmbiguous,
         ResolveAmbiguous, Return, Begin, Proceed
    <2>2. QED
      BY <1>1, <1>4, <2>1
  <1>5. ASSUME NEW v \in Views, call'[v].step \in {"observe", "append"}
        PROVE  reservations'[call'[v].auth] = call'[v].envelope
    <2>1. CASE call'[v] = call[v]
      BY <1>2, <1>5, <2>1
    <2>2. CASE ViewNext(v)
      BY <1>3, <1>5, <2>2
    <2>3. QED
      BY <1>4, <2>1, <2>2 DEF Next, AcquireWriter, vars
  <1>6. QED
    BY <1>5 DEF BInv

\* What IneligibleForceNoTimeout asks of one step.
TimeoutEarned ==
    \A v \in Views :
        call[v].step = "observe" /\ call'[v] # call[v] /\ records' # records =>
            LET e == call[v].envelope
            IN  /\ reservations[call[v].auth] = e
                /\ TransitionAllowed(e, Replay(records).threads[e.thread])

\* A timeout forced by the clock of a candidate was earned by that candidate.
LEMMA StepEarns ==
    ASSUME IInv, JInv, BInv, [Next]_vars
    PROVE  TimeoutEarned
  <1> SUFFICES ASSUME NEW v \in Views, call[v].step = "observe", call'[v] # call[v], records' # records
               PROVE  /\ reservations[call[v].auth] = call[v].envelope
                      /\ TransitionAllowed(call[v].envelope, Replay(records).threads[call[v].envelope.thread])
    BY DEF TimeoutEarned
  <1>1. call \in [Views -> CallRecord] /\ call[v] # NoCall
    BY NoCallSound DEF IInv, Typed
  <1>2. ASSUME NEW w \in Views, ViewNext(w) PROVE w = v
    <2>1. call' = call \/ \E x : call' = [call EXCEPT ![w] = x]
      BY <1>2 DEF ViewNext, Open, PinPosition, Crash, AdvanceNow, Submit, Resubmit, Verify, VerifyDenied, AllowLost,
         ObserveCandidateClock, LoseAppend, AppendEnvelope, Finalize, ReconcilePcp, ReconcileAmbiguous,
         ResolveAmbiguous, Return, Begin, Proceed
    <2>2. QED
      BY <1>1, <2>1
  <1>3. ViewNext(v)
    BY <1>2 DEF Next, AcquireWriter, vars, journalVars
  <1>4. AppendAccepted(v, call[v].epoch)
    BY <1>1, <1>3 DEF ViewNext, Open, PinPosition, Crash, AdvanceNow, Submit, Resubmit, Idle, Verify,
       VerifyDenied, AllowLost, ObserveCandidateClock, LoseAppend, AppendEnvelope, Finalize, ReconcilePcp,
       ReconcileAmbiguous, ResolveAmbiguous, journalVars
  <1>5. cache[v] = Replay(records)
    BY <1>4, WholeJournal DEF AppendAccepted
  <1>6. TransitionAllowed(call[v].envelope, cache[v].threads[call[v].envelope.thread])
    BY AllowedCall
  <1>7. QED
    BY <1>5, <1>6 DEF BInv

\* A candidate's own clock times a thread out only when PCP holds a reservation
\* for it and its move is legal on the whole journal: submit judged it on a
\* snapshot it read before asking PCP (spec/03, section 4).
THEOREM IneligibleNeverForces ==
    ASSUME RebuildsAlone, BindsReservations PROVE Spec => IneligibleForceNoTimeout
  <1>1. Init => BInv
    BY NoCallSound DEF Init, BInv
  <1>2. (IInv /\ JInv) /\ BInv /\ [Next]_vars => BInv'
    BY BInvNext
  <1>3. (IInv /\ JInv) /\ BInv /\ [Next]_vars => TimeoutEarned
    BY StepEarns
  <1>4. Spec => [][TimeoutEarned]_vars
    BY <1>1, <1>2, <1>3, FoldHolds, PTL DEF Spec
  <1>5. QED
    BY <1>4 DEF IneligibleForceNoTimeout, TimeoutEarned

-----------------------------------------------------------------------------
(* Commit or release, never both.                                           *)

IsRelease(r) == r # None /\ r.outcome = "release"

\* No part of the only view, and of PCP, would release what the journal has
\* spent, nor does a call append what PCP has released.  A pending release of a
\* spent reservation may outlive the append until its call delivers the commit.
CInv ==
    /\ \A v \in Views : Up(v) => known[v] = Len(records)
    /\ \A a \in PaidIn(records) : ~IsRelease(finalized[a])
    /\ \A v \in Views : call[v].step \in {"observe", "append"} => ~IsRelease(finalized[call[v].auth])
    /\ \A v \in Views :
         call[v].step = "finalize" /\ IsRelease(call[v].request) => call[v].auth \notin PaidIn(records)
    /\ \A v \in Views, a \in PaidIn(records) :
         IsRelease(handoffs[v][a]) =>
             call[v].step = "finalize" /\ call[v].auth = a /\ ~IsRelease(call[v].request)

\* Only an accepted append of submit spends an authorization, that of its call;
\* and the view that appends has then observed the whole journal.
LEMMA PaidGrows ==
    ASSUME IInv, NEW v \in Views, ViewNext(v)
    PROVE  /\ \/ PaidIn(records') = PaidIn(records)
              \/ /\ AppendEnvelope(v) /\ AppendAccepted(v, call[v].epoch)
                 /\ PaidIn(records') = PaidIn(records) \cup {call[v].auth}
           /\ \/ UNCHANGED <<records, known>>
              \/ Open(v) \/ PinPosition(v) \/ Crash(v)
              \/ known'[v] = Len(records')
  <1>1. /\ records \in Seq(Record) /\ known \in [Views -> Nat] /\ epoch \in Nat
    BY DEF IInv, Typed
  <1>2. ASSUME NEW ep, NEW t \in Threads, NEW now \in Clocks, TimeoutDue(cache[v].threads[t], now),
               AppendAccepted(v, ep), RecordTimeout(v, ep, t, now), epoch' = epoch
        PROVE  PaidIn(records') = PaidIn(records) /\ known'[v] = Len(records')
    <2> DEFINE r == TimeoutRecord(ep, t, cache[v].threads[t], now)
    <2>1. /\ r \in Record /\ Len(records') = Len(records) + 1
          /\ known' = [known EXCEPT ![v] = Len(records) + 1]
      BY <1>2, TimeoutRecorded
    <2>2. records' = Append(records, r) /\ r.kind = "timeout"
      BY <1>2 DEF RecordTimeout, TimeoutRecord
    <2> HIDE DEF r
    <2>3. QED
      BY <1>1, <2>1, <2>2, PaidAppend
  <1>3. ASSUME NEW e \in Candidates, NEW now \in Clocks \cup {None}, ObserveRuntimeNow(v, e.thread, now),
               epoch' = epoch
        PROVE  /\ PaidIn(records') = PaidIn(records)
               /\ UNCHANGED <<records, known>> \/ known'[v] = Len(records')
    <2>1. CASE ClockDue(v, e.thread, now)
      <3>1. RecordTimeout(v, epoch, e.thread, now) /\ AppendAccepted(v, epoch)
        BY <1>3, <2>1 DEF ObserveRuntimeNow
      <3>2. now \in Clocks /\ TimeoutDue(cache[v].threads[e.thread], now) /\ e.thread \in Threads
        BY <2>1, CandidateFields DEF ClockDue
      <3>3. QED
        BY <1>2, <1>3, <3>1, <3>2
    <2>2. CASE ~ClockDue(v, e.thread, now)
      BY <1>3, <2>2 DEF ObserveRuntimeNow
    <2>3. QED
      BY <2>1, <2>2
  <1>4. CASE \E t \in Threads, now \in Clocks : AdvanceNow(v, t, now)
    BY <1>2, <1>4 DEF AdvanceNow
  <1>5. CASE \E e \in Candidates, now \in Clocks \cup {None} : Submit(v, e, now) \/ Resubmit(v, e, now)
    BY <1>3, <1>5 DEF Submit, Resubmit
  <1>6. CASE ObserveCandidateClock(v)
    <2> DEFINE e == call[v].envelope
               ep == call[v].epoch
    <2>1. call[v].step = "observe" /\ epoch' = epoch
      BY <1>6 DEF ObserveCandidateClock
    <2>2. e.thread \in Threads /\ e.now \in Clocks
      BY <2>1, AllowedCall
    <2>3. TimeoutDue(cache[v].threads[e.thread], e.now)
      BY <2>1 DEF IInv, ViewSound, CallSound
    <2>4. \/ AppendAccepted(v, ep) /\ RecordTimeout(v, ep, e.thread, e.now)
          \/ UNCHANGED <<records, cache, known>>
      BY <1>6 DEF ObserveCandidateClock, LoseAppend
    <2> HIDE DEF e, ep
    <2>5. QED
      BY <1>2, <2>1, <2>2, <2>3, <2>4
  <1>7. CASE AppendEnvelope(v) /\ AppendAccepted(v, call[v].epoch)
    <2> DEFINE a == call[v].auth
               r == EnvelopeRecord(call[v].epoch, call[v].envelope, a)
    <2>1. records' = Append(records, r) /\ known' = [known EXCEPT ![v] = Len(records) + 1]
      BY <1>7 DEF AppendEnvelope
    <2>2. r \in Record
      <3>1. call[v].step = "append" /\ call[v].epoch = epoch /\ epoch \in 1..MaxEpoch
        BY <1>7 DEF AppendEnvelope, AppendAccepted, IInv, Typed
      <3>2. call[v].envelope \in Candidates /\ call[v].auth \in Authorizations
        BY <3>1, AllowedCall
      <3>3. QED
        BY <3>1, <3>2, EnvelopeRecordType
    <2>3. r.kind = "envelope" /\ r.auth = a
      BY DEF EnvelopeRecord
    <2> HIDE DEF r, a
    <2>4. PaidIn(records') = PaidIn(records) \cup {a} /\ Len(records') = Len(records) + 1
      BY <1>1, <2>1, <2>2, <2>3, PaidAppend
    <2>5. QED
      BY <1>1, <1>7, <2>1, <2>4 DEF a
  <1>8. CASE UNCHANGED <<records, known>>
    BY <1>8
  <1>9. QED
    BY <1>4, <1>5, <1>6, <1>7, <1>8 DEF ViewNext, Open, PinPosition, Crash, Verify, VerifyDenied, AllowLost,
       AppendEnvelope, LoseAppend, Finalize, ReconcilePcp, ReconcileAmbiguous, ResolveAmbiguous,
       journalVars, viewVars

\* Nobody but the only view appends, so it has always observed the whole journal.
LEMMA StaysUpToDate ==
    ASSUME SingleView, IInv, CInv, NEW v \in Views, ViewNext(v)
    PROVE  \A w \in Views : Up(w)' => known'[w] = Len(records')
  <1>1. lease \in [Views -> 0..MaxEpoch] /\ known \in [Views -> Nat] /\ \A w \in Views : w = v
    BY DEF IInv, Typed, SingleView
  <1>2. CASE Open(v) \/ PinPosition(v)
    BY <1>1, <1>2 DEF Open, PinPosition, journalVars
  <1>3. CASE Crash(v)
    BY <1>1, <1>3 DEF Crash, Up
  <1>4. CASE UNCHANGED <<records, known>> /\ ~Open(v) /\ ~Crash(v) /\ ~PinPosition(v)
    <2>1. lease' = lease
      BY <1>4 DEF ViewNext, AdvanceNow, Submit, Resubmit, Verify, VerifyDenied, AllowLost, ObserveCandidateClock,
         AppendEnvelope, Finalize, ReconcilePcp, ReconcileAmbiguous, ResolveAmbiguous, viewVars
    <2>2. QED
      BY <1>4, <2>1 DEF CInv, Up
  <1>5. CASE known'[v] = Len(records')
    BY <1>1, <1>5
  <1>6. QED
    BY <1>2, <1>3, <1>4, <1>5, PaidGrows

\* A step that settles nothing and spends nothing, and of which the call of the
\* view, x from now on, would append and release nothing wrong.
LEMMA QuietReleases ==
    ASSUME SingleView, IInv, CInv, NEW v \in Views, ViewNext(v),
           finalized' = finalized, PaidIn(records') = PaidIn(records),
           \/ handoffs' = handoffs /\ call[v].step # "finalize"
           \/ handoffs' = [handoffs EXCEPT ![v] = NoRequests],
           NEW x, call' = [call EXCEPT ![v] = x],
           x.step \in {"observe", "append"} => ~IsRelease(finalized[x.auth]),
           x.step = "finalize" /\ IsRelease(x.request) => x.auth \notin PaidIn(records)
    PROVE  CInv'
  <1>1. /\ call \in [Views -> CallRecord] /\ \A w \in Views : w = v
        /\ handoffs \in [Views -> [Authorizations -> Request \cup {None}]]
    BY DEF IInv, Typed, SingleView
  <1>2. PaidIn(records) \subseteq Authorizations
    BY DEF PaidIn, Journaled, Record, IInv, Typed
  <1>3. \A a \in PaidIn(records) : ~IsRelease(handoffs'[v][a])
    BY <1>1, <1>2 DEF CInv, NoRequests, IsRelease
  <1>4. \A w \in Views : call'[w] = x
    BY <1>1
  <1>5. QED
    BY <1>1, <1>3, <1>4, StaysUpToDate DEF CInv

\* A batch that releases nothing the journal has spent, and replaces every
\* pending release that would.
LEMMA DeliverReleases ==
    ASSUME SingleView, IInv, CInv, NEW v \in Views, ViewNext(v), records' = records,
           NEW requests \in [Authorizations -> Request \cup {None}], NEW applied, NEW confirmed,
           Deliver(v, requests, applied, confirmed),
           \A a \in PaidIn(records) :
               ~IsRelease(requests[a]) /\ (IsRelease(handoffs[v][a]) => requests[a] # None),
           call'[v] = NoCall
    PROVE  CInv'
  <1>1. handoffs \in [Views -> [Authorizations -> Request \cup {None}]] /\ \A w \in Views : w = v
    BY DEF IInv, Typed, SingleView
  <1>2. PaidIn(records) \subseteq Authorizations
    BY DEF PaidIn, Journaled, Record, IInv, Typed
  <1>3. \A a \in PaidIn(records) : ~IsRelease(finalized'[a])
    BY <1>2 DEF Deliver, CInv
  <1> DEFINE kept == [a \in Authorizations |-> CASE requests[a] = None -> handoffs[v][a]
                                                  [] a \in confirmed    -> None
                                                  [] OTHER              -> requests[a]]
  <1>4. handoffs' = [handoffs EXCEPT ![v] = kept]
    BY DEF Deliver
  <1>5. \A a \in PaidIn(records) : kept[a] = None \/ ~IsRelease(kept[a])
    BY <1>2
  <1> HIDE DEF kept
  <1>6. \A a \in PaidIn(records) : ~IsRelease(handoffs'[v][a])
    BY <1>1, <1>4, <1>5 DEF IsRelease
  <1>7. QED
    BY <1>1, <1>3, <1>6, NoCallSound, StaysUpToDate DEF CInv

\* What the only view remembers is what the journal has spent.
LEMMA NotPaid ==
    ASSUME IInv, JInv, CInv, NEW v \in Views, Up(v), NEW a \in Authorizations,
           \A i \in EnvelopeIds : cache[v].auths[i] # a
    PROVE  a \notin PaidIn(records)
  <1>1. /\ cache[v] = Replay(records) /\ Replay(records).ok /\ records \in Seq(Record)
    BY WholeJournal DEF CInv, IInv, Typed
  <1>2. Indexes(cache[v], records)
    BY <1>1, ReplaySound DEF Sound
  <1>3. \A n \in Journaled(records) : records[n].envelope.id \in EnvelopeIds
    BY <1>1, CandidateFields DEF Journaled, Record
  <1>4. QED
    BY <1>2, <1>3 DEF PaidIn, Indexes

\* PCP reserves only what it has not released, and submit releases only what no
\* record has spent.
LEMMA VerifyReleases ==
    ASSUME SingleView, ReservesOnlyLive, IInv, JInv, CInv, NEW v \in Views, NEW a \in Authorizations,
           Verify(v, a)
    PROVE  CInv'
  <1> DEFINE e == call[v].envelope
  <1>1. /\ call[v].step = "verify" /\ call[v].step # "finalize" /\ PcpAllows(e, a) /\ ViewNext(v)
        /\ finalized' = finalized /\ records' = records /\ handoffs' = handoffs
    BY DEF Verify, ViewNext, journalVars, bookVars
  <1>2. ~IsRelease(finalized[a])
    BY <1>1 DEF PcpAllows, IsRelease
  <1>3. /\ e \in Candidates /\ e.id \in EnvelopeIds /\ Up(v) /\ cache[v].auths[e.id] = None
    <2>1. e \in Candidates /\ Fresh(cache[v], e) /\ lease[v] # 0
      BY <1>1, NoCallSound DEF IInv, ViewSound, CallSound
    <2>2. e.id \in EnvelopeIds
      BY <2>1, CandidateFields
    <2>3. QED
      BY <2>1, <2>2 DEF Up, Fresh, IInv, ViewSound, BooksSound
  <1>4. CASE AuthorizationTaken(v, e, a)
    <2>1. call' = [call EXCEPT ![v] = NoCall]
      BY <1>4 DEF Verify, Return
    <2>2. QED
      BY <1>1, <2>1, NoCallSound, QuietReleases
  <1>5. CASE ~AuthorizationTaken(v, e, a)
    <2>1. \A i \in EnvelopeIds : cache[v].auths[i] # a
      BY <1>3, <1>5, AuthorizationsAssumption DEF AuthorizationTaken
    <2>2. a \notin PaidIn(records)
      BY <1>3, <2>1, NotPaid
    <2>3. \E step \in {"observe", "append", "finalize"}, r \in {None, ReleaseRequest(e.id)} :
             call' = [call EXCEPT ![v] = At(step, call[v].epoch, e, a, r)]
      BY <1>5 DEF Verify, Proceed, StepAfterJudgment
    <2>4. PICK step \in {"observe", "append", "finalize"}, r \in {None, ReleaseRequest(e.id)} :
             call' = [call EXCEPT ![v] = At(step, call[v].epoch, e, a, r)]
      BY <2>3
    <2> DEFINE x == At(step, call[v].epoch, e, a, r)
    <2>5. x.auth = a
      BY DEF At
    <2>6. call' = [call EXCEPT ![v] = x]
      BY <2>4
    <2> HIDE DEF x
    <2>7. QED
      BY <1>1, <1>2, <2>2, <2>5, <2>6, QuietReleases
  <1>6. QED
    BY <1>4, <1>5

\* A timeout by the candidate's clock spends nothing; the refusal that may follow
\* releases an authorization that no record has spent.
LEMMA ObserveReleases ==
    ASSUME SingleView, IInv, JInv, CInv, NEW v \in Views, ObserveCandidateClock(v)
    PROVE  CInv'
  <1> DEFINE e == call[v].envelope
             a == call[v].auth
  <1>1. /\ call[v].step = "observe" /\ call[v].step # "finalize" /\ ViewNext(v)
        /\ finalized' = finalized /\ handoffs' = handoffs
    BY DEF ObserveCandidateClock, ViewNext, pcpVars
  <1>2. PaidIn(records') = PaidIn(records)
    BY <1>1, PaidGrows DEF AppendEnvelope
  <1>3. ~IsRelease(finalized[a])
    BY <1>1 DEF CInv
  <1>4. a \notin PaidIn(records)
    BY <1>1, AllowedCall, NotPaid DEF Up
  <1>5. \/ call' = [call EXCEPT ![v] = NoCall]
        \/ \E step \in {"append", "finalize"} : \E r :
             call' = [call EXCEPT ![v] = At(step, call[v].epoch, e, a, r)]
    BY DEF ObserveCandidateClock, LoseAppend, Return, Proceed
  <1>6. CASE call' = [call EXCEPT ![v] = NoCall]
    BY <1>1, <1>2, <1>6, NoCallSound, QuietReleases
  <1>7. ASSUME NEW step \in {"append", "finalize"}, NEW r,
               call' = [call EXCEPT ![v] = At(step, call[v].epoch, e, a, r)]
        PROVE  CInv'
    <2> DEFINE x == At(step, call[v].epoch, e, a, r)
    <2>1. x.auth = a /\ call' = [call EXCEPT ![v] = x]
      BY <1>7 DEF At
    <2> HIDE DEF x
    <2>2. QED
      BY <1>1, <1>2, <1>3, <1>4, <2>1, QuietReleases
  <1>8. QED
    BY <1>5, <1>6, <1>7

\* An append spends an authorization that PCP has not released, and its call
\* goes on to deliver the commit.
LEMMA AppendReleases ==
    ASSUME SingleView, IInv, JInv, CInv, NEW v \in Views, AppendEnvelope(v)
    PROVE  CInv'
  <1> DEFINE a == call[v].auth
             q == CommitRequest(call[v].envelope.id, Len(records) + 1)
             x == At("finalize", call[v].epoch, call[v].envelope, a, q)
  <1>1. /\ call[v].step = "append" /\ call[v].step # "finalize" /\ ViewNext(v)
        /\ finalized' = finalized /\ handoffs' = handoffs
    BY DEF AppendEnvelope, ViewNext, pcpVars
  <1>2. CASE ~AppendAccepted(v, call[v].epoch)
    <2>1. call' = [call EXCEPT ![v] = NoCall] /\ records' = records
      BY <1>2 DEF AppendEnvelope, LoseAppend, Return
    <2>2. QED
      BY <1>1, <2>1, NoCallSound, QuietReleases
  <1>3. CASE AppendAccepted(v, call[v].epoch)
    <2>1. call' = [call EXCEPT ![v] = x] /\ \A w \in Views : w = v
      BY <1>3 DEF AppendEnvelope, Proceed, SingleView
    <2>2. PaidIn(records') \subseteq PaidIn(records) \cup {a}
      BY <1>1, PaidGrows
    <2>3. call'[v] = x
      BY <2>1 DEF IInv, Typed
    <2>4. x.step = "finalize" /\ x.auth = a /\ ~IsRelease(x.request)
      BY DEF At, IsRelease, CommitRequest
    <2> HIDE DEF x
    <2>5. ~IsRelease(finalized[a])
      BY <1>1 DEF CInv
    <2>6. \A b \in PaidIn(records) : ~IsRelease(finalized[b]) /\ ~IsRelease(handoffs[v][b])
      BY <1>1 DEF CInv
    <2>7. \A w \in Views : Up(w)' => known'[w] = Len(records')
      BY <1>1, StaysUpToDate
    <2>8. QED
      BY <1>1, <2>1, <2>2, <2>3, <2>4, <2>5, <2>6, <2>7 DEF CInv
  <1>4. QED
    BY <1>2, <1>3

\* The last step of submit settles or files its own request only.
LEMMA FinalizeReleases ==
    ASSUME SingleView, IInv, CInv, NEW v \in Views, NEW applied, NEW confirmed,
           ViewNext(v), Finalize(v, applied, confirmed)
    PROVE  CInv'
  <1> DEFINE c == call[v]
             rs == [NoRequests EXCEPT ![c.auth] = c.request]
  <1>1. c.step = "finalize" /\ Deliver(v, rs, applied, confirmed) /\ Return(v) /\ records' = records
    BY DEF Finalize, journalVars
  <1>2. c.auth \in Authorizations /\ c.request \in Request /\ c.request # None
    BY <1>1, RequestsAssumption DEF IInv, ViewSound, CallSound
  <1>3. /\ rs \in [Authorizations -> Request \cup {None}] /\ rs[c.auth] = c.request
        /\ \A a \in Authorizations : a # c.auth => rs[a] = None
    BY <1>2 DEF NoRequests
  <1> HIDE DEF rs
  <1>4. PaidIn(records) \subseteq Authorizations
    BY DEF PaidIn, Journaled, Record, IInv, Typed
  <1>5. ASSUME NEW a \in PaidIn(records)
        PROVE  ~IsRelease(rs[a]) /\ (IsRelease(handoffs[v][a]) => rs[a] # None)
    <2>1. a = c.auth => ~IsRelease(c.request)
      BY <1>1 DEF CInv
    <2>2. IsRelease(handoffs[v][a]) => a = c.auth
      BY DEF CInv
    <2>3. QED
      BY <1>2, <1>3, <1>4, <2>1, <2>2 DEF IsRelease
  <1>6. call'[v] = NoCall
    BY <1>1 DEF Return, IInv, Typed
  <1> HIDE DEF c
  <1>7. QED
    BY <1>1, <1>3, <1>5, <1>6, DeliverReleases

\* The two reconciliations send the commit of what the journal has spent.
LEMMA ReconcileReleases ==
    ASSUME SingleView, IInv, CInv, NEW v \in Views, NEW applied, NEW confirmed, ViewNext(v),
           ReconcilePcp(v, applied, confirmed) \/ ResolveAmbiguous(v, applied, confirmed)
    PROVE  CInv'
  <1>1. records \in Seq(Record) /\ PaidIn(records) \subseteq Authorizations
    BY DEF PaidIn, Journaled, Record, IInv, Typed
  <1>2. call[v].step # "finalize"
    BY NoCallSound DEF ReconcilePcp, ResolveAmbiguous, Idle
  <1>3. \A a \in PaidIn(records) : ~IsRelease(handoffs[v][a])
    BY <1>2 DEF CInv
  <1>4. call'[v] = NoCall /\ records' = records
    BY DEF ReconcilePcp, ResolveAmbiguous, Idle, Return, IInv, Typed, journalVars
  <1>5. ASSUME NEW a \in PaidIn(records)
        PROVE  /\ a \in DOMAIN CommitsIn(records) /\ a \in Authorizations
               /\ ~IsRelease(CommitsIn(records)[a])
    BY <1>1, PaidCommits, CommitsName DEF IsRelease, CommitRequest
  <1>6. CASE ReconcilePcp(v, applied, confirmed)
    <2> DEFINE rs == Reconcilable(v)
    <2>1. Deliver(v, rs, applied, confirmed) /\ known[v] = Len(records)
      BY <1>6 DEF ReconcilePcp, Idle, CInv
    <2>2. Observed(v) = records
      BY <1>1, <2>1, WholePrefix DEF Observed
    <2>3. /\ rs \in [Authorizations -> Request \cup {None}]
          /\ \A a \in PaidIn(records) : rs[a] = CommitsIn(records)[a]
      BY <1>5, <2>2, ReconcilableType
    <2> HIDE DEF rs
    <2>4. \A a \in PaidIn(records) : ~IsRelease(rs[a])
      BY <1>5, <2>3
    <2>5. QED
      BY <1>3, <1>4, <2>1, <2>3, <2>4, DeliverReleases
  <1>7. CASE ResolveAmbiguous(v, applied, confirmed)
    <2> DEFINE rs == Resolvable(v)
    <2>1. Deliver(v, rs, applied, confirmed)
      BY <1>7 DEF ResolveAmbiguous
    <2>2. /\ rs \in [Authorizations -> Request \cup {None}]
          /\ \A a \in Authorizations : Resolving(rs[a], a)
      BY ResolvableType
    <2> HIDE DEF rs
    <2>3. \A a \in PaidIn(records) : ~IsRelease(rs[a])
      BY <1>5, <2>2 DEF Resolving, IsRelease
    <2>4. QED
      BY <1>3, <1>4, <2>1, <2>2, <2>3, DeliverReleases
  <1>8. QED
    BY <1>6, <1>7

\* A call that begins: it has no authorization yet, or repeats a commit.
LEMMA BeginReleases ==
    ASSUME SingleView, IInv, CInv, NEW v \in Views, ViewNext(v),
           finalized' = finalized, handoffs' = handoffs, PaidIn(records') = PaidIn(records),
           call[v].step # "finalize",
           \/ call' = call
           \/ Return(v)
           \/ \E step \in {"pin", "verify", "resolve"} : Begin(v, step, call'[v].envelope, None, None)
           \/ \E e, a, i, n : Begin(v, "finalize", e, a, CommitRequest(i, n))
    PROVE  CInv'
  <1>1. call \in [Views -> CallRecord]
    BY DEF IInv, Typed
  <1> DEFINE x == call'[v]
  <1>2. /\ call' = [call EXCEPT ![v] = x]
        /\ \/ x = call[v]
           \/ x.step \notin {"observe", "append", "finalize"}
           \/ x.step = "finalize" /\ ~IsRelease(x.request)
    BY <1>1, NoCallSound DEF Return, Begin, At, IsRelease, CommitRequest
  <1> HIDE DEF x
  <1>3. /\ x.step \in {"observe", "append"} => ~IsRelease(finalized[x.auth])
        /\ x.step = "finalize" /\ IsRelease(x.request) => x.auth \notin PaidIn(records)
    BY <1>2 DEF CInv
  <1>4. QED
    BY <1>2, <1>3, QuietReleases

\* CInv is inductive relative to IInv and JInv.
LEMMA CInvNext ==
    ASSUME SingleView, ReservesOnlyLive, IInv, JInv, CInv, [Next]_vars
    PROVE  CInv'
  <1>1. CASE AcquireWriter \/ UNCHANGED vars
    BY <1>1 DEF AcquireWriter, vars, journalVars, pcpVars, viewVars, bookVars, CInv, Up
  <1>2. ASSUME NEW v \in Views, ViewNext(v) PROVE CInv'
    <2>1. CASE Crash(v)
      <3>1. /\ finalized' = finalized /\ records' = records
            /\ handoffs' = [handoffs EXCEPT ![v] = NoRequests] /\ call' = [call EXCEPT ![v] = NoCall]
        BY <2>1 DEF Crash, Return, pcpVars, journalVars
      <3>2. QED
        BY <1>2, <3>1, NoCallSound, QuietReleases
    <2>2. CASE Open(v)
      <3>1. /\ finalized' = finalized /\ records' = records /\ handoffs' = handoffs
            /\ call' = call \/ Begin(v, "pin", None, None, None)
        BY <2>2 DEF Open, pcpVars, journalVars
      <3>2. call[v].step # "finalize"
        BY <2>2, NoCallSound DEF Open, Up, IInv, ViewSound
      <3>3. call' = call \/ Begin(v, "pin", call'[v].envelope, None, None)
        BY <3>1 DEF Begin, At, IInv, Typed
      <3>4. QED
        BY <1>2, <3>1, <3>2, <3>3, BeginReleases
    <2>3. CASE PinPosition(v) \/ VerifyDenied(v) \/ \E a \in Authorizations : AllowLost(v, a)
      <3>1. /\ finalized' = finalized /\ records' = records /\ handoffs' = handoffs /\ Return(v)
            /\ call[v].step # "finalize"
        BY <2>3 DEF PinPosition, VerifyDenied, AllowLost, pcpVars, bookVars, journalVars
      <3>2. QED
        BY <1>2, <3>1, BeginReleases
    <2>4. CASE \/ \E t \in Threads, now \in Clocks : AdvanceNow(v, t, now)
               \/ \E e \in Candidates, now \in Clocks \cup {None} : Submit(v, e, now) \/ Resubmit(v, e, now)
               \/ ReconcileAmbiguous(v)
      <3>1. /\ finalized' = finalized /\ handoffs' = handoffs /\ call[v] = NoCall
        BY <2>4 DEF AdvanceNow, Submit, Resubmit, ReconcileAmbiguous, Idle, pcpVars, bookVars
      <3>2. call[v].step # "finalize" /\ PaidIn(records') = PaidIn(records)
        BY <1>2, <3>1, NoCallSound, PaidGrows DEF AppendEnvelope
      <3>3. \/ call' = call \/ Return(v)
            \/ \E step \in {"verify", "resolve"} : \E e : Begin(v, step, e, None, None)
            \/ \E e, a, i, n : Begin(v, "finalize", e, a, CommitRequest(i, n))
        BY <2>4 DEF AdvanceNow, Submit, Resubmit, ReconcileAmbiguous
      <3>4. ASSUME NEW step \in {"verify", "resolve"}, NEW e, Begin(v, step, e, None, None)
            PROVE  Begin(v, step, call'[v].envelope, None, None)
        BY <3>4 DEF Begin, At, IInv, Typed
      <3>5. QED
        BY <1>2, <3>1, <3>2, <3>3, <3>4, BeginReleases
    <2>5. CASE \E a \in Authorizations : Verify(v, a)
      BY <2>5, VerifyReleases
    <2>6. CASE ObserveCandidateClock(v)
      BY <2>6, ObserveReleases
    <2>7. CASE AppendEnvelope(v)
      BY <2>7, AppendReleases
    <2>8. CASE \E applied, confirmed : \/ Finalize(v, applied, confirmed)
                                       \/ ReconcilePcp(v, applied, confirmed)
                                       \/ ResolveAmbiguous(v, applied, confirmed)
      BY <1>2, <2>8, FinalizeReleases, ReconcileReleases
    <2>9. QED
      BY <1>2, <2>1, <2>2, <2>3, <2>4, <2>5, <2>6, <2>7, <2>8 DEF ViewNext
  <1>3. QED
    BY <1>1, <1>2 DEF Next

\* CInv holds always, when one view writes and PCP reserves nothing released.
LEMMA ReleasesHold ==
    ASSUME SingleView, ReservesOnlyLive
    PROVE  Spec => [](IInv /\ JInv /\ SInv /\ CInv)
  <1>1. Init => CInv
    <2>1. Journaled(<<>>) = {}
      BY DEF Journaled
    <2>2. QED
      BY <2>1, NoCallSound DEF Init, CInv, Up, PaidIn
  <1>2. (IInv /\ JInv /\ SInv) /\ CInv /\ [Next]_vars => CInv'
    BY CInvNext
  <1>3. RebuildsAlone
    BY DEF RebuildsAlone
  <1>4. QED
    BY <1>1, <1>2, <1>3, SettlementHolds, PTL DEF Spec

\* Commit is the outcome after a durable append, release after a rejection or
\* proven absence, and never both: one writer's crashes, lost leases, failed
\* deliveries and duplicate submits in whatever order release no authorization
\* that the journal has spent.  Two writers do (runs late_release, absent_release).
THEOREM CommittedStaysCommitted ==
    ASSUME SingleView, ReservesOnlyLive PROVE Spec => []CommittedNeverReleased
  <1>1. CInv => CommittedNeverReleased
    BY DEF CInv, PaidIn, IsRelease, CommittedNeverReleased, Released
  <1>2. QED
    BY <1>1, ReleasesHold, PTL

\* What ReleaseOnlyAbsent and AppendOnlyLive ask of one step.
ReleasesAbsent ==
    \A a \in Authorizations : ~Released(a) /\ Released(a)' => a \notin DOMAIN CommitsIn(records)

AppendsLive == \A n \in Journaled(records') \ DOMAIN records : ~Released(records'[n].auth)

\* A release meets no record, and a record no release.
LEMMA StepSettlesOnce ==
    ASSUME SingleView, ReservesOnlyLive, IInv, JInv, SInv, CInv, [Next]_vars
    PROVE  ReleasesAbsent /\ AppendsLive
  <1>1. CInv' /\ Kept /\ SettledKept /\ IInv'
    BY CInvNext, RecordsKept, SInvNext, InvNext
  <1>2. ASSUME NEW a \in Authorizations, Released(a)'
        PROVE  a \notin DOMAIN CommitsIn(records)
    <2>1. a \notin PaidIn(records')
      BY <1>1, <1>2 DEF CInv, IsRelease, Released
    <2>2. PaidIn(records) \subseteq PaidIn(records')
      BY <1>1 DEF Kept, PaidIn
    <2>3. QED
      BY <2>1, <2>2, PaidCommits
  <1>3. ASSUME NEW n \in Journaled(records')
        PROVE  ~Released(records'[n].auth)
    <2>1. records'[n].auth \in PaidIn(records') /\ records'[n].auth \in Authorizations
      BY <1>1 DEF PaidIn, Journaled, Record, IInv, Typed
    <2>2. ~IsRelease(finalized'[records'[n].auth])
      BY <1>1, <2>1 DEF CInv
    <2>3. QED
      BY <1>1, <2>1, <2>2 DEF SettledKept, Released, IsRelease
  <1>4. QED
    BY <1>2, <1>3 DEF ReleasesAbsent, AppendsLive

\* reconcile_ambiguous_pcp and the refusals of submit release only what no record
\* has spent, as long as one view writes.
THEOREM ReleasesStayAbsent ==
    ASSUME SingleView, ReservesOnlyLive PROVE Spec => ReleaseOnlyAbsent
  <1>1. (IInv /\ JInv /\ SInv /\ CInv) /\ [Next]_vars => ReleasesAbsent
    BY StepSettlesOnce
  <1>2. Spec => [][ReleasesAbsent]_vars
    BY <1>1, ReleasesHold, PTL DEF Spec
  <1>3. QED
    BY <1>2 DEF ReleaseOnlyAbsent, ReleasesAbsent

\* No record is written under an authorization that PCP has released, as long as
\* one view writes.
THEOREM AppendsStayLive ==
    ASSUME SingleView, ReservesOnlyLive PROVE Spec => AppendOnlyLive
  <1>1. (IInv /\ JInv /\ SInv /\ CInv) /\ [Next]_vars => AppendsLive
    BY StepSettlesOnce
  <1>2. Spec => [][AppendsLive]_vars
    BY <1>1, ReleasesHold, PTL DEF Spec
  <1>3. QED
    BY <1>2 DEF AppendOnlyLive, AppendsLive
=============================================================================
