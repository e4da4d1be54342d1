---------------------------- MODULE JournalProofs ----------------------------
(***************************************************************************)
(* Proofs about the journal that the writers of Runtime share, and about    *)
(* what PCP is told of it.                                                  *)
(*                                                                         *)
(* The journal.  No append falls between the two reads of a rebuild: the    *)
(* rebuild is atomic, or the view is the only one (RebuildsAlone; the run   *)
(* rebuild_race shows what happens otherwise).  A view that appends has     *)
(* then observed the whole journal, so what it checked of its own memory    *)
(* holds of the journal: every append is a step of Coordination.            *)
(*                                                                         *)
(* The settlements.  Every commit that the finalizer receives, first or     *)
(* repeated, names a durable record, and an acknowledgement that says       *)
(* "committed" is true.  The invariant is about everything a commit can be  *)
(* sent from: the settled requests, the pending handoffs, the calls under   *)
(* way and the acknowledgements, from which a duplicate submit makes its    *)
(* request again.                                                           *)
(***************************************************************************)
EXTENDS RuntimeProofs

-----------------------------------------------------------------------------
(* The invariant of the fold.                                               *)

SingleView == \A v, w \in Views : v = w

\* Nobody can append between the two reads of a rebuild: a call under way keeps
\* its own view busy.
RebuildsAlone == RebuildIsAtomic \/ SingleView

\* A view remembers the prefix it has observed.
ViewFolds(v) ==
    /\ cache[v] = Replay(Observed(v))
    /\ cache[v].ok

\* A rebuild that still has to read len(records) will find what it has folded.
PinsSettled == \A v \in Views : call[v].step = "pin" => SingleView /\ known[v] = Len(records)

JInv ==
    /\ Replay(records).ok
    /\ \A v \in Views : ViewFolds(v)
    /\ PinsSettled

\* Before the first record every view folds the empty prefix.
LEMMA JInvInit == Init => JInv
  <1> SUFFICES ASSUME Init PROVE JInv
    OBVIOUS
  <1>1. Replay(records) = EmptyCache /\ EmptyCache.ok
    BY ReplayEmpty DEF Init, EmptyCache
  <1>2. ASSUME NEW v \in Views PROVE ViewFolds(v)
    <2>1. Observed(v) = <<>>
      BY DEF Init, Observed
    <2>2. QED
      BY <1>1, <2>1 DEF Init, ViewFolds
  <1>3. PinsSettled
    BY NoCallSound DEF Init, PinsSettled
  <1>4. QED
    BY <1>1, <1>2, <1>3 DEF JInv

\* A step that appends nothing and changes no view's memory.
LEMMA CalmFolds ==
    ASSUME JInv, UNCHANGED <<records, cache, known>>,
           PinsSettled'
    PROVE  JInv'
  BY DEF JInv, ViewFolds, Observed

\* View v, which has observed everything, appends r.
Extends(v, r) ==
    /\ known[v] = Len(records)
    /\ records' = Append(records, r)
    /\ cache' = [cache EXCEPT ![v] = Absorb(Replay(records), r)]
    /\ Absorb(Replay(records), r).ok
    /\ known' = [known EXCEPT ![v] = Len(records) + 1]

\* A step of view v that appends r and folds it keeps every view on its prefix:
\* v has the whole journal, and the others keep theirs.
LEMMA ExtendsFolds ==
    ASSUME IInv, JInv, NEW v \in Views, NEW r \in Record, Extends(v, r),
           PinsSettled'
    PROVE  JInv' /\ Replay(records') = Absorb(Replay(records), r)
  <1>1. /\ records \in Seq(Record) /\ cache \in [Views -> Cache] /\ known \in [Views -> Nat]
    BY DEF IInv, Typed
  <1>2. Replay(records') = Absorb(Replay(records), r) /\ Replay(records').ok
    BY <1>1, ReplayAppend DEF Extends
  <1>3. ASSUME NEW w \in Views PROVE ViewFolds(w)'
    <2>1. CASE w = v
      <3>1. cache'[v] = Replay(records') /\ known'[v] = Len(records')
        BY <1>1, <1>2 DEF Extends
      <3>2. records' \in Seq(Record)
        BY <1>1 DEF Extends
      <3>3. Observed(v)' = records'
        BY <3>1, <3>2, WholePrefix DEF Observed
      <3>4. QED
        BY <1>2, <2>1, <3>1, <3>3 DEF ViewFolds
    <2>2. CASE w # v
      <3>1. cache'[w] = cache[w] /\ known'[w] = known[w]
        BY <1>1, <2>2 DEF Extends
      <3>2. known[w] \in 0..Len(records)
        BY <1>1 DEF IInv, ViewSound
      <3>3. Observed(w)' = Observed(w)
        BY <1>1, <3>1, <3>2, PrefixKept DEF Observed, Extends
      <3>4. QED
        BY <3>1, <3>3 DEF JInv, ViewFolds
    <2>3. QED
      BY <2>1, <2>2
  <1>4. QED
    BY <1>2, <1>3 DEF JInv

-----------------------------------------------------------------------------
(* The two kinds of append.                                                 *)

\* What a view that may append has in memory.
LEMMA WholeJournal ==
    ASSUME IInv, JInv, NEW v \in Views, known[v] = Len(records)
    PROVE  cache[v] = Replay(records) /\ Replay(records).ok /\ cache[v] \in Cache
  <1>1. records \in Seq(Record) /\ cache \in [Views -> Cache]
    BY DEF IInv, Typed
  <1>2. Observed(v) = records
    BY <1>1, WholePrefix DEF Observed
  <1>3. QED
    BY <1>1, <1>2 DEF JInv, ViewFolds

\* Coordination and Runtime judge and apply moves by the same definitions.
LEMMA SameTimeouts ==
    ASSUME NEW s, NEW now
    PROVE  (Journal!TimeoutDue(s, now) <=> TimeoutDue(s, now)) /\ Journal!ApplyTimeout(s, now) = ApplyTimeout(s, now)
  BY DEF Journal!TimeoutDue, TimeoutDue, Journal!ApplyTimeout, ApplyTimeout, Journal!Later, Later

\* Coordination and Runtime judge an envelope by the same checks.
LEMMA SameChecks ==
    ASSUME NEW s, NEW e, NEW envelopes
    PROVE  /\ Journal!CausalityHolds(e, s, envelopes) <=> CausalityHolds(e, s, envelopes)
           /\ Journal!ClockHolds(e, s) <=> ClockHolds(e, s)
           /\ Journal!TransitionAllowed(e, s) <=> TransitionAllowed(e, s)
  <1>1. Journal!CausalityHolds(e, s, envelopes) <=> CausalityHolds(e, s, envelopes)
    BY DEF Journal!CausalityHolds, CausalityHolds
  <1>2. Journal!ClockHolds(e, s) <=> ClockHolds(e, s)
    BY DEF Journal!ClockHolds, ClockHolds
  <1>3. Journal!LegalMoves = LegalMoves
    BY DEF Journal!LegalMoves, LegalMoves
  <1>4. Journal!Gated(e) <=> Gated(e)
    BY DEF Journal!Gated, Gated
  <1>5. Journal!Entitled(e, s) <=> Entitled(e, s)
    BY DEF Journal!Entitled, Entitled
  <1>6. Journal!TransitionAllowed(e, s) <=> TransitionAllowed(e, s)
    BY <1>3, <1>4, <1>5 DEF Journal!TransitionAllowed, TransitionAllowed
  <1>7. QED
    BY <1>1, <1>2, <1>6

\* Coordination and Runtime give an envelope the same effect.
LEMMA SameEffect ==
    ASSUME NEW s, NEW e
    PROVE  Journal!ApplyEnvelope(s, e) = ApplyEnvelope(s, e)
  BY DEF Journal!ApplyEnvelope, ApplyEnvelope, Journal!Stamped, Stamped, Journal!Later, Later,
         Journal!Delegated, Delegated, Journal!HandedOff, HandedOff, Journal!Approved, Approved,
         Journal!Failed, Failed, Journal!Retried, Retried, Journal!Cancelled, Cancelled,
         Journal!Resumed, Resumed, Journal!Gated, Gated, Journal!Parked, Parked,
         Journal!Running, Running, Journal!FloorPassedTo, FloorPassedTo,
         Journal!NamedAssignee, NamedAssignee

\* A step of Coordination, on the fold of the journal.
LEMMA TimeoutExtends ==
    ASSUME IInv, JInv, NEW v \in Views, NEW ep, NEW t \in Threads, NEW now \in Clocks,
           TimeoutDue(cache[v].threads[t], now), AppendAccepted(v, ep), RecordTimeout(v, ep, t, now),
           epoch' = epoch, PinsSettled'
    PROVE  JInv' /\ Journal!Next
  <1> DEFINE c == Replay(records)
             s == c.threads[t]
             r == TimeoutRecord(ep, t, s, now)
  <1>1. known[v] = Len(records)
    BY DEF AppendAccepted
  <1>2. cache[v] = c /\ c.ok /\ c \in Cache
    BY <1>1, WholeJournal
  <1>3. r \in Record
    BY <1>2, TimeoutRecorded
  <1>4. /\ records' = Append(records, r)
        /\ cache' = [cache EXCEPT ![v] = WithTimeout(c, t, now)]
        /\ known' = [known EXCEPT ![v] = Len(records) + 1]
    BY <1>2 DEF RecordTimeout, IInv, Typed
  <1>5. r.kind = "timeout" /\ r.thread = t /\ r.now = now
    BY DEF TimeoutRecord
  <1>6. TimeoutReplays(c, r)
    BY <1>2 DEF TimeoutReplays, TimeoutRecord
  <1> HIDE DEF r
  <1>7. Absorb(c, r) = WithTimeout(c, t, now)
    BY <1>2, <1>5, <1>6 DEF Absorb
  <1>8. /\ WithTimeout(c, t, now).ok
        /\ WithTimeout(c, t, now).threads = [c.threads EXCEPT ![t] = ApplyTimeout(s, now)]
        /\ WithTimeout(c, t, now).envelopes = c.envelopes
    BY <1>2 DEF WithTimeout, Cache
  <1>9. Extends(v, r)
    BY <1>1, <1>4, <1>7, <1>8 DEF Extends
  <1>10. JInv' /\ Replay(records') = WithTimeout(c, t, now)
    BY <1>3, <1>7, <1>9, ExtendsFolds
  <1>11. TimeoutDue(s, now)
    BY <1>2
  <1>12. Journal!ObserveClock(t, now)
    BY <1>8, <1>10, <1>11, SameTimeouts DEF Journal!ObserveClock
  <1>13. QED
    BY <1>10, <1>12 DEF Journal!Next

\* An accepted append of submit is a Commit of Coordination on the whole journal:
\* the compare-and-set says that the judgment was made on that journal.
LEMMA EnvelopeExtends ==
    ASSUME IInv, JInv, NEW v \in Views, AppendEnvelope(v), AppendAccepted(v, call[v].epoch)
    PROVE  JInv' /\ Journal!Next
  <1> DEFINE c == Replay(records)
             e == call[v].envelope
             a == call[v].auth
             s == c.threads[e.thread]
             r == EnvelopeRecord(call[v].epoch, e, a)
  <1>1. known[v] = Len(records) /\ call[v].epoch = epoch /\ call[v].step = "append" /\ epoch \in 1..MaxEpoch
    BY DEF AppendAccepted, AppendEnvelope, IInv, Typed
  <1>2. cache[v] = c /\ c.ok /\ c \in Cache
    BY <1>1, WholeJournal
  <1>3. /\ e \in Candidates /\ e.id \in EnvelopeIds /\ e.thread \in Threads /\ a \in Authorizations
        /\ Fresh(c, e) /\ TransitionAllowed(e, s)
        /\ \A i \in EnvelopeIds : c.auths[i] # a
    BY <1>1, <1>2, AllowedCall
  <1>4. ~TimeoutDue(s, e.now)
    BY <1>1, <1>2 DEF IInv, ViewSound, CallSound
  <1>5. /\ records' = Append(records, r)
        /\ cache' = [cache EXCEPT ![v] = WithEnvelope(c, e, a)]
        /\ known' = [known EXCEPT ![v] = Len(records) + 1]
        /\ call' = [call EXCEPT ![v] = At("finalize", call[v].epoch, e, a, CommitRequest(e.id, Len(records) + 1))]
    BY <1>2 DEF AppendEnvelope, Proceed, IInv, Typed
  <1>6. PinsSettled'
    <2>1. \A w \in Views : call[w].step # "pin"
      BY <1>1 DEF JInv, PinsSettled, SingleView
    <2>2. QED
      BY <1>5, <2>1 DEF At, PinsSettled, IInv, Typed
  <1> HIDE DEF c, e, a, s
  <1>7. r \in Record
    BY <1>1, <1>3, EnvelopeRecordType
  <1>8. r.kind = "envelope" /\ r.envelope = e /\ r.auth = a
    BY DEF EnvelopeRecord
  <1> HIDE DEF r
  <1>9. EnvelopeReplays(c, e, a)
    BY <1>3 DEF EnvelopeReplays, Fresh, s
  <1>10. Absorb(c, r) = WithEnvelope(c, e, a)
    BY <1>2, <1>8, <1>9 DEF Absorb
  <1>11. /\ WithEnvelope(c, e, a).ok
         /\ WithEnvelope(c, e, a).threads = [c.threads EXCEPT ![e.thread] = ApplyEnvelope(s, e)]
         /\ WithEnvelope(c, e, a).envelopes = [c.envelopes EXCEPT ![e.id] = e]
    BY <1>2 DEF WithEnvelope, Cache, s
  <1>12. Extends(v, r)
    BY <1>1, <1>5, <1>10, <1>11 DEF Extends, c
  <1>13. JInv' /\ Replay(records') = WithEnvelope(c, e, a)
    BY <1>6, <1>7, <1>10, <1>12, ExtendsFolds DEF c
  <1>14. Journal!Acceptable(e)
    BY <1>3, <1>4, SameTimeouts, SameChecks DEF Journal!Acceptable, Fresh, s, c
  <1>15. Journal!Commit(e)
    BY <1>11, <1>13, <1>14, SameEffect DEF Journal!Commit, s, c
  <1>16. QED
    BY <1>3, <1>13, <1>15 DEF Journal!Next

-----------------------------------------------------------------------------
(* The other actions.                                                       *)

\* The steps that calls go to: none but Open waits to pin, and the view that
\* waits has appended nothing meanwhile.
LEMMA PinsStay ==
    ASSUME RebuildsAlone, IInv, JInv, NEW v \in Views, ViewNext(v)
    PROVE  PinsSettled'
  <1>1. call \in [Views -> CallRecord] /\ known \in [Views -> Nat]
    BY DEF IInv, Typed
  <1>2. ASSUME NEW u \in Views, call[u].step = "pin"
        PROVE  PinsSettled'
    <2>1. SingleView /\ u = v /\ lease[v] # 0 /\ call[v] # NoCall
      BY <1>2, NoCallSound DEF JInv, PinsSettled, SingleView, IInv, ViewSound
    <2>2. Return(v)
      BY <1>2, <2>1 DEF ViewNext, Open, Up, PinPosition, Crash, AdvanceNow, Submit, Resubmit, Idle, Verify,
         VerifyDenied, AllowLost, ObserveCandidateClock, AppendEnvelope, Finalize, ReconcilePcp, ReconcileAmbiguous,
         ResolveAmbiguous
    <2>3. \A w \in Views : call'[w] = NoCall
      BY <1>1, <2>1, <2>2 DEF Return, SingleView
    <2>4. QED
      BY <2>3, NoCallSound DEF PinsSettled
  <1> SUFFICES ASSUME \A w \in Views : call[w].step # "pin"
               PROVE  PinsSettled'
    BY <1>2
  <1>3. ASSUME NEW x, x.step # "pin", call' = [call EXCEPT ![v] = x]
        PROVE  PinsSettled'
    BY <1>1, <1>3 DEF PinsSettled
  <1>4. CASE call' = call
    BY <1>1, <1>4 DEF PinsSettled
  <1>5. CASE Open(v) /\ SingleView
    <2>1. known'[v] = Len(records) /\ records' = records /\ \A w \in Views : w = v
      BY <1>1, <1>5 DEF Open, journalVars, SingleView
    <2>2. QED
      BY <1>5, <2>1 DEF PinsSettled, SingleView
  <1>6. CASE Return(v)
    BY <1>3, <1>6, NoCallSound DEF Return
  <1>7. CASE \E step \in Calls \ {"pin"} : \E e, a, r : Begin(v, step, e, a, r) \/ Proceed(v, step, e, a, r)
    BY <1>3, <1>7 DEF Begin, Proceed, At
  <1>8. CASE \E a \in Authorizations : Verify(v, a)
    <2>1. PICK a \in Authorizations : Verify(v, a)
      BY <1>8
    <2>2. \A s, e : StepAfterJudgment(s, e) \in {"observe", "append"}
      BY DEF StepAfterJudgment
    <2>3. \/ Return(v)
          \/ \E step \in {"finalize", "observe", "append"} : \E e, r : Proceed(v, step, e, a, r)
      BY <2>1, <2>2 DEF Verify
    <2>4. QED
      BY <1>6, <1>7, <2>3 DEF Calls
  <1>9. CASE \E e \in Candidates, now \in Clocks \cup {None} : Submit(v, e, now) \/ Resubmit(v, e, now)
    <2>1. \/ Return(v)
          \/ \E step \in {"verify", "finalize"} : \E e, a, r : Begin(v, step, e, a, r)
      BY <1>9 DEF Submit, Resubmit
    <2>2. QED
      BY <1>6, <1>7, <2>1 DEF Calls
  <1>10. CASE ObserveCandidateClock(v) \/ AppendEnvelope(v)
    <2>1. \/ Return(v)
          \/ \E step \in {"append", "finalize"} : \E e, a, r : Proceed(v, step, e, a, r)
      BY <1>10 DEF ObserveCandidateClock, AppendEnvelope, LoseAppend
    <2>2. QED
      BY <1>6, <1>7, <2>1 DEF Calls
  <1>11. CASE ReconcileAmbiguous(v)
    <2>1. \E step \in {"resolve"} : \E e, a, r : Begin(v, step, e, a, r)
      BY <1>11 DEF ReconcileAmbiguous
    <2>2. QED
      BY <1>7, <2>1 DEF Calls
  <1>12. QED
    BY <1>4, <1>5, <1>6, <1>8, <1>9, <1>10, <1>11
       DEF RebuildsAlone, ViewNext, Open, PinPosition, Crash, AdvanceNow, VerifyDenied, AllowLost, Finalize,
           ReconcilePcp, ResolveAmbiguous

\* A view that is opened or lost remembers what it has observed.
LEMMA FreshViewFolds ==
    ASSUME IInv, JInv, NEW v \in Views, Open(v) \/ Crash(v), PinsSettled'
    PROVE  JInv'
  <1>1. records \in Seq(Record) /\ cache \in [Views -> Cache] /\ known \in [Views -> Nat]
    BY DEF IInv, Typed
  <1>2. records' = records
    BY DEF Open, Crash, journalVars
  <1>3. \A w \in Views \ {v} : cache'[w] = cache[w] /\ known'[w] = known[w]
    BY <1>1 DEF Open, Crash
  <1>4. \A w \in Views \ {v} : ViewFolds(w)'
    BY <1>2, <1>3 DEF JInv, ViewFolds, Observed
  <1>5. CASE Open(v)
    <2>1. cache'[v] = Replay(records) /\ known'[v] = Len(records)
      BY <1>1, <1>5 DEF Open
    <2>2. Observed(v)' = records
      BY <1>1, <1>2, <2>1, WholePrefix DEF Observed
    <2>3. QED
      BY <1>2, <1>4, <2>1, <2>2 DEF JInv, ViewFolds
  <1>6. CASE Crash(v)
    <2>1. cache'[v] = EmptyCache /\ known'[v] = 0
      BY <1>1, <1>6 DEF Crash
    <2>2. Observed(v)' = <<>>
      BY <1>1, <1>2, <2>1 DEF Observed
    <2>3. EmptyCache.ok
      BY DEF EmptyCache
    <2>4. QED
      BY <1>2, <1>4, <2>1, <2>2, <2>3, ReplayEmpty DEF JInv, ViewFolds
  <1>7. QED
    BY <1>5, <1>6

\* Every step keeps the fold, and an append is a step of Coordination.
LEMMA JInvNext ==
    ASSUME RebuildsAlone, IInv, JInv, [Next]_vars
    PROVE  JInv' /\ (records' = records \/ Journal!Next)
  <1>1. CASE UNCHANGED vars
    BY <1>1 DEF vars, journalVars, viewVars, JInv, ViewFolds, Observed, PinsSettled, SingleView
  <1>2. CASE AcquireWriter
    BY <1>2 DEF AcquireWriter, viewVars, JInv, ViewFolds, Observed, PinsSettled, SingleView
  <1>3. ASSUME NEW v \in Views, ViewNext(v) PROVE JInv' /\ (records' = records \/ Journal!Next)
    <2>1. PinsSettled'
      BY <1>3, PinsStay
    <2>2. CASE UNCHANGED <<records, cache, known>>
      BY <2>1, <2>2, CalmFolds
    <2>3. CASE Open(v) \/ Crash(v)
      BY <2>1, <2>3, FreshViewFolds DEF Open, Crash, journalVars
    <2>4. CASE PinPosition(v)
      <3>1. known' = known
        BY <2>4 DEF PinPosition, JInv, PinsSettled, IInv, Typed
      <3>2. QED
        BY <2>2, <2>4, <3>1 DEF PinPosition, journalVars
    <2>5. CASE \E t \in Threads, now \in Clocks : AdvanceNow(v, t, now)
      BY <2>1, <2>5, TimeoutExtends DEF AdvanceNow
    <2>6. ASSUME NEW e \in Candidates, NEW now \in Clocks \cup {None}, ObserveRuntimeNow(v, e.thread, now),
                 epoch' = epoch
          PROVE  JInv' /\ (records' = records \/ Journal!Next)
      <3>1. CASE ClockDue(v, e.thread, now)
        <4>1. RecordTimeout(v, epoch, e.thread, now) /\ AppendAccepted(v, epoch)
          BY <2>6, <3>1 DEF ObserveRuntimeNow
        <4>2. now \in Clocks /\ TimeoutDue(cache[v].threads[e.thread], now) /\ e.thread \in Threads
          BY <3>1, CandidateFields DEF ClockDue
        <4>3. QED
          BY <2>1, <2>6, <4>1, <4>2, TimeoutExtends
      <3>2. CASE ~ClockDue(v, e.thread, now)
        BY <2>2, <2>6, <3>2 DEF ObserveRuntimeNow
      <3>3. QED
        BY <3>1, <3>2
    <2>7. CASE \E e \in Candidates, now \in Clocks \cup {None} : Submit(v, e, now) \/ Resubmit(v, e, now)
      BY <2>6, <2>7 DEF Submit, Resubmit
    <2>8. CASE ObserveCandidateClock(v)
      <3> DEFINE e == call[v].envelope
                 ep == call[v].epoch
      <3>1. call[v].step = "observe" /\ epoch' = epoch
        BY <2>8 DEF ObserveCandidateClock
      <3>2. e.thread \in Threads /\ e.now \in Clocks
        BY <3>1, AllowedCall
      <3>3. TimeoutDue(cache[v].threads[e.thread], e.now)
        BY <3>1 DEF IInv, ViewSound, CallSound
      <3>4. \/ AppendAccepted(v, ep) /\ RecordTimeout(v, ep, e.thread, e.now)
            \/ UNCHANGED <<records, cache, known>>
        BY <2>8 DEF ObserveCandidateClock, LoseAppend
      <3> HIDE DEF e, ep
      <3>5. QED
        BY <2>1, <2>2, <3>1, <3>2, <3>3, <3>4, TimeoutExtends
    <2>9. CASE AppendEnvelope(v)
      <3>1. CASE AppendAccepted(v, call[v].epoch)
        BY <2>9, <3>1, EnvelopeExtends
      <3>2. CASE ~AppendAccepted(v, call[v].epoch)
        BY <2>2, <2>9, <3>2 DEF AppendEnvelope, LoseAppend
      <3>3. QED
        BY <3>1, <3>2
    <2>10. QED
      BY <1>3, <2>2, <2>3, <2>4, <2>5, <2>7, <2>8, <2>9 DEF ViewNext, Verify, VerifyDenied, AllowLost,
         ReconcileAmbiguous, Finalize, ReconcilePcp, ResolveAmbiguous, viewVars, journalVars
  <1>4. QED
    BY <1>1, <1>2, <1>3 DEF Next

-----------------------------------------------------------------------------
(* What the fold gives.                                                     *)

\* The journal replays and every view is the fold of its prefix, together.
THEOREM FoldHolds == ASSUME RebuildsAlone PROVE Spec => [](IInv /\ JInv)
  <1>1. Init => IInv /\ JInv
    BY InvInit, JInvInit
  <1>2. (IInv /\ JInv) /\ [Next]_vars => (IInv /\ JInv)'
    BY InvNext, JInvNext
  <1>3. QED
    BY <1>1, <1>2, PTL DEF Spec

\* _rebuild never raises JournalCorrupt on what the writers of a store wrote,
\* whichever of them wrote it and from whatever stale view.
THEOREM JournalAlwaysReplays == ASSUME RebuildsAlone PROVE Spec => []JournalReplays
  <1>1. IInv /\ JInv => JournalReplays
    BY DEF IInv, Fenced, JInv, JournalReplays, Rebuilds, RebuildsUnder
  <1>2. QED
    BY <1>1, FoldHolds, PTL

\* A stale Runtime is behind, never wrong: threads, envelopes and authorization
\* identifiers are the fold of the records up to its _known_position.
THEOREM ViewsAlwaysFold == ASSUME RebuildsAlone PROVE Spec => []ViewsFoldPrefix
  <1>1. IInv /\ JInv => ViewsFoldPrefix
    BY DEF IInv, ViewSound, JInv, ViewFolds, ViewsFoldPrefix
  <1>2. QED
    BY <1>1, FoldHolds, PTL

\* The duplicate checks of submit read the view's own memory; still no two
\* records of the shared journal have an identifier or an authorization in common.
THEOREM AuthorizationsStayUnique == ASSUME RebuildsAlone PROVE Spec => []AuthorizationsUnique
  <1>1. IInv /\ JInv => AuthorizationsUnique
    BY ReplaySound DEF IInv, Typed, JInv, Sound, PaidOnce, AuthorizationsUnique
  <1>2. QED
    BY <1>1, FoldHolds, PTL

\* Runtime implements Coordination: whatever view appends, and however stale
\* the checks it made, the record is one legal commit or one due timeout of the
\* thread as the whole journal before it left it.
THEOREM RuntimeImplementsCoordination == ASSUME RebuildsAlone PROVE Spec => JournalIsLegal
  <1>1. Init => Journal!Init
    <2> SUFFICES ASSUME Init PROVE Journal!Init
      OBVIOUS
    <2>1. Replay(records) = EmptyCache
      BY ReplayEmpty DEF Init
    <2>2. QED
      BY <2>1 DEF Journal!Init, EmptyCache, Journal!VoidSnapshot, VoidSnapshot
  <1>2. (IInv /\ JInv) /\ [Next]_vars => [records' # records /\ Journal!Next]_records
    BY JInvNext
  <1>3. QED
    BY <1>1, <1>2, FoldHolds, PTL DEF Spec, JournalIsLegal

-----------------------------------------------------------------------------
(* The invariant of the settlements.                                        *)

\* A commit request for authorization a names its record of journal rs.
DurableIn(rs, a, r) ==
    r.outcome = "commit" => /\ r.position \in Journaled(rs)
                            /\ rs[r.position].auth = a
                            /\ rs[r.position].envelope.id = r.id

\* Acknowledgement k of envelope i is true of journal rs and settlements f.
AckTrue(rs, f, i, k) ==
    k # None => /\ k.position \in Journaled(rs)
                /\ rs[k.position].envelope.id = i
                /\ k.confirmed => f[rs[k.position].auth] = CommitRequest(i, k.position)

SInv ==
    /\ \A a \in Authorizations : finalized[a] # None => DurableIn(records, a, finalized[a])
    /\ \A v \in Views, a \in Authorizations :
         handoffs[v][a] # None => DurableIn(records, a, handoffs[v][a])
    /\ \A v \in Views : call[v].step = "finalize" => DurableIn(records, call[v].auth, call[v].request)
    /\ \A v \in Views, i \in EnvelopeIds : AckTrue(records, finalized, i, acks[v][i])

\* Nothing is requested, settled or acknowledged at first.
LEMMA SInvInit == Init => SInv
  <1> SUFFICES ASSUME Init PROVE SInv
    OBVIOUS
  <1>1. NoCall.step # "finalize"
    BY NoCallSound
  <1>2. QED
    BY <1>1 DEF Init, SInv, NoRequests, Unset, AckTrue

-----------------------------------------------------------------------------
(* What a step keeps.                                                       *)

\* Records stay where they are.
Kept == \A n \in Journaled(records) : n \in Journaled(records') /\ records'[n] = records[n]

\* The journal only grows, so records keep their places.
LEMMA RecordsKept ==
    ASSUME IInv, [Next]_vars
    PROVE  Kept
  <1>1. records \in Seq(Record) /\ records' \in Seq(Record)
    BY InvNext DEF IInv, Typed
  <1>2. CASE records' = records
    BY <1>2 DEF Kept
  <1>3. CASE records' # records
    <2>1. Len(records') = Len(records) + 1 /\ SubSeq(records', 1, Len(records)) = records
      BY <1>3, StepFenced DEF OneRecordFenced
    <2>2. ASSUME NEW n \in DOMAIN records PROVE n \in DOMAIN records' /\ records'[n] = records[n]
      <3>1. n \in 1..Len(records) /\ Len(records) \in Nat
        BY <1>1
      <3>2. SubSeq(records', 1, Len(records))[n] = records'[n]
        BY <1>1, <2>1, <3>1
      <3>3. QED
        BY <1>1, <2>1, <3>1, <3>2
    <2>3. QED
      BY <2>2 DEF Kept, Journaled
  <1>4. QED
    BY <1>2, <1>3

\* A durable request stays durable.
LEMMA DurableKept ==
    ASSUME Kept, NEW a, NEW r, DurableIn(records, a, r)
    PROVE  DurableIn(records', a, r)
  BY DEF Kept, DurableIn

\* A settled reservation stays settled by the same request.
SettledKept == \A a \in Authorizations : finalized[a] # None => finalized'[a] = finalized[a]

\* A true acknowledgement stays true.
LEMMA AckKept ==
    ASSUME IInv, Kept, SettledKept, NEW i \in EnvelopeIds, NEW k, AckTrue(records, finalized, i, k)
    PROVE  AckTrue(records', finalized', i, k)
  <1> SUFFICES ASSUME k # None PROVE AckTrue(records', finalized', i, k)
    BY DEF AckTrue
  <1> DEFINE n == k.position
  <1>1. n \in Journaled(records) /\ records[n].envelope.id = i
    BY DEF AckTrue
  <1>2. n \in Journaled(records') /\ records'[n] = records[n]
    BY <1>1 DEF Kept
  <1>3. records[n].auth \in Authorizations /\ n \in Nat \ {0}
    BY <1>1 DEF Journaled, Record, IInv, Typed
  <1>4. CommitRequest(i, n) # None
    BY <1>3, RequestTypes
  <1>5. QED
    BY <1>1, <1>2, <1>3, <1>4 DEF AckTrue, SettledKept

\* The parts of a step that keep the invariant.
PcpDurable ==
    /\ \A a \in Authorizations : finalized'[a] # None => DurableIn(records', a, finalized'[a])
    /\ \A v \in Views, a \in Authorizations :
         handoffs'[v][a] # None => DurableIn(records', a, handoffs'[v][a])

CallsDurable ==
    \A v \in Views : call'[v].step = "finalize" => DurableIn(records', call'[v].auth, call'[v].request)

AcksDurable ==
    \A v \in Views, i \in EnvelopeIds :
        acks'[v][i] = acks[v][i] \/ AckTrue(records', finalized', i, acks'[v][i])

\* SInv is kept by a step whose settlements, handoffs, calls and acknowledgements
\* are old or durable.
LEMMA SInvFrame ==
    ASSUME IInv, SInv, Kept, SettledKept, PcpDurable, CallsDurable, AcksDurable
    PROVE  SInv'
  <1>1. ASSUME NEW v \in Views, NEW i \in EnvelopeIds PROVE AckTrue(records', finalized', i, acks'[v][i])
    <2>1. AckTrue(records', finalized', i, acks[v][i])
      BY AckKept DEF SInv
    <2>2. QED
      BY <2>1 DEF AcksDurable
  <1>2. QED
    BY <1>1 DEF SInv, PcpDurable, CallsDurable

\* PCP and the pending handoffs are left alone, or only forgotten by view v.
LEMMA PcpCalm ==
    ASSUME SInv, Kept, finalized' = finalized,
           \A v \in Views, a \in Authorizations : handoffs'[v][a] \in {handoffs[v][a], None}
    PROVE  PcpDurable /\ SettledKept
  BY DurableKept DEF SInv, PcpDurable, SettledKept

\* The call of one view changes.
LEMMA CallDurable ==
    ASSUME IInv, SInv, Kept, NEW v \in Views, NEW x, call' = [call EXCEPT ![v] = x],
           x.step = "finalize" => DurableIn(records', x.auth, x.request)
    PROVE  CallsDurable
  <1>1. call \in [Views -> CallRecord]
    BY DEF IInv, Typed
  <1>2. call'[v] = x /\ \A w \in Views \ {v} : call'[w] = call[w]
    BY <1>1
  <1>3. \A w \in Views \ {v} : call'[w].step = "finalize" => DurableIn(records', call'[w].auth, call'[w].request)
    BY <1>2, DurableKept DEF SInv
  <1>4. QED
    BY <1>2, <1>3 DEF CallsDurable

\* A call that ends leaves no request behind.
LEMMA ReturnDurable ==
    ASSUME IInv, SInv, Kept, NEW v \in Views, Return(v)
    PROVE  CallsDurable
  BY CallDurable, NoCallSound DEF Return

\* Calls that stay where they are keep their durable requests.
LEMMA CallsCalm ==
    ASSUME SInv, Kept, call' = call
    PROVE  CallsDurable
  BY DurableKept DEF SInv, CallsDurable

-----------------------------------------------------------------------------
(* Deliveries.                                                              *)

\* A batch of durable requests.
LEMMA DeliverDurable ==
    ASSUME IInv, SInv, Kept, NEW v \in Views, NEW requests \in [Authorizations -> Request \cup {None}],
           NEW applied, NEW confirmed, Deliver(v, requests, applied, confirmed),
           \A a \in Authorizations : requests[a] # None => DurableIn(records, a, requests[a])
    PROVE  /\ PcpDurable /\ SettledKept
           /\ \A a \in confirmed : a \in Authorizations /\ requests[a] # None /\ finalized'[a] = requests[a]
  <1>1. /\ \A a \in applied : /\ a \in Authorizations /\ requests[a] # None
                              /\ finalized[a] \in {None, requests[a]}
        /\ confirmed \subseteq applied
    BY DEF Deliver, Deliverable, Finalizable
  <1>2. \A a \in Authorizations : finalized'[a] = IF a \in applied THEN requests[a] ELSE finalized[a]
    BY DEF Deliver
  <1>3. \A a \in Authorizations : finalized'[a] # None => DurableIn(records', a, finalized'[a])
    BY <1>1, <1>2, DurableKept DEF SInv
  <1> DEFINE kept == [a \in Authorizations |-> CASE requests[a] = None -> handoffs[v][a]
                                                  [] a \in confirmed    -> None
                                                  [] OTHER              -> requests[a]]
  <1>4. handoffs' = [handoffs EXCEPT ![v] = kept]
    BY DEF Deliver
  <1>5. \A a \in Authorizations : kept[a] \in {requests[a], handoffs[v][a], None}
    BY <1>1
  <1> HIDE DEF kept
  <1>6. handoffs \in [Views -> [Authorizations -> Request \cup {None}]]
    BY DEF IInv, Typed
  <1>7. handoffs'[v] = kept /\ \A w \in Views \ {v} : handoffs'[w] = handoffs[w]
    BY <1>4, <1>6
  <1>8. ASSUME NEW w \in Views, NEW a \in Authorizations, handoffs'[w][a] # None
        PROVE  DurableIn(records', a, handoffs'[w][a])
    <2>1. DurableIn(records, a, handoffs'[w][a])
      BY <1>5, <1>7, <1>8 DEF SInv
    <2>2. QED
      BY <2>1, DurableKept
  <1>9. QED
    BY <1>1, <1>2, <1>3, <1>8 DEF PcpDurable, SettledKept

\* A commit request is determined by its envelope and its position.
LEMMA CommitShape ==
    ASSUME NEW r \in Request, r.outcome = "commit"
    PROVE  r = CommitRequest(r.id, r.position) /\ r.position \in Nat \ {0}
  BY DEF Request, CommitRequest

\* The last step of submit.
LEMMA FinalizeSettles ==
    ASSUME IInv, SInv, Kept, NEW v \in Views, NEW applied, NEW confirmed, Finalize(v, applied, confirmed)
    PROVE  PcpDurable /\ SettledKept /\ CallsDurable /\ AcksDurable
  <1> DEFINE c == call[v]
             i == c.envelope.id
             rs == [NoRequests EXCEPT ![c.auth] = c.request]
             k == Ack(c.request.position, confirmed # {})
  <1>1. /\ c.step = "finalize" /\ Deliver(v, rs, applied, confirmed)
        /\ acks' = IF c.request.outcome = "release" THEN acks ELSE [acks EXCEPT ![v] = [acks[v] EXCEPT ![i] = k]]
        /\ Return(v)
    BY DEF Finalize, IInv, Typed
  <1>2. /\ c.auth \in Authorizations /\ c.request \in Request /\ c.request.id = i /\ i \in EnvelopeIds
        /\ c.request # None
    BY <1>1, CandidateFields, RequestsAssumption DEF IInv, ViewSound, CallSound
  <1>3. DurableIn(records, c.auth, c.request)
    BY <1>1 DEF SInv
  <1>4. acks \in [Views -> [EnvelopeIds -> Acknowledgement \cup {None}]]
    BY DEF IInv, Typed
  <1>5. CallsDurable
    BY <1>1, ReturnDurable
  <1> HIDE DEF c
  <1>6. /\ rs \in [Authorizations -> Request \cup {None}] /\ rs[c.auth] = c.request
        /\ \A a \in Authorizations : rs[a] # None => a = c.auth
    BY <1>2 DEF NoRequests
  <1> HIDE DEF rs
  <1>7. \A a \in Authorizations : rs[a] # None => DurableIn(records, a, rs[a])
    BY <1>3, <1>6
  <1>8. /\ PcpDurable /\ SettledKept
        /\ \A a \in confirmed : a \in Authorizations /\ rs[a] # None /\ finalized'[a] = rs[a]
    BY <1>1, <1>6, <1>7, DeliverDurable
  <1>9. CASE c.request.outcome = "release"
    BY <1>1, <1>5, <1>8, <1>9 DEF AcksDurable
  <1>10. CASE c.request.outcome # "release"
    <2>1. c.request.outcome = "commit" /\ c.request = CommitRequest(i, c.request.position)
      BY <1>2, <1>10, CommitShape DEF Request
    <2>2. DurableIn(records', c.auth, c.request)
      BY <1>3, DurableKept
    <2>3. confirmed # {} => finalized'[c.auth] = c.request
      BY <1>6, <1>8
    <2>4. AckTrue(records', finalized', i, k)
      BY <1>2, <2>1, <2>2, <2>3 DEF AckTrue, DurableIn, Ack
    <2> HIDE DEF k, i
    <2>5. acks' = [acks EXCEPT ![v] = [acks[v] EXCEPT ![i] = k]]
      BY <1>1, <1>10
    <2>6. ASSUME NEW w \in Views, NEW j \in EnvelopeIds
          PROVE  acks'[w][j] = acks[w][j] \/ (j = i /\ acks'[w][j] = k)
      BY <1>2, <1>4, <2>5
    <2>7. QED
      BY <1>5, <1>8, <2>4, <2>6 DEF AcksDurable
  <1>11. QED
    BY <1>9, <1>10

\* A commit of an observed prefix is durable.
LEMMA ReconcilableDurable ==
    ASSUME IInv, SInv, NEW v \in Views, NEW a \in Authorizations, Reconcilable(v)[a] # None
    PROVE  DurableIn(records, a, Reconcilable(v)[a])
  <1>1. CASE a \in DOMAIN CommitsIn(Observed(v))
    <2>1. Reconcilable(v)[a] = CommitsIn(Observed(v))[a]
      BY <1>1, ReconcilableType
    <2>2. PICK n \in Journaled(Observed(v)) :
                 /\ Observed(v)[n].auth = a
                 /\ CommitsIn(Observed(v))[a] = CommitRequest(Observed(v)[n].envelope.id, n)
      BY <1>1, ObservedType, CommitsName
    <2>3. n \in Journaled(records) /\ Observed(v)[n] = records[n]
      <3>1. /\ records \in Seq(Record) /\ known[v] \in Nat /\ known[v] <= Len(records)
            /\ n \in DOMAIN Observed(v)
        BY <2>2 DEF IInv, Typed, ViewSound, Journaled
      <3>2. n \in DOMAIN records /\ Observed(v)[n] = records[n]
        BY <3>1 DEF Observed
      <3>3. QED
        BY <2>2, <3>2 DEF Journaled
    <2>4. QED
      BY <2>1, <2>2, <2>3 DEF DurableIn, CommitRequest
  <1>2. CASE a \notin DOMAIN CommitsIn(Observed(v))
    BY <1>2, ReconcilableType DEF SInv
  <1>3. QED
    BY <1>1, <1>2

\* reconcile_pcp confirms an acknowledgement only with the request of its own
\* record: no other record has the envelope.
LEMMA ReconcileSettles ==
    ASSUME IInv, JInv, SInv, Kept, NEW v \in Views, NEW applied, NEW confirmed,
           ReconcilePcp(v, applied, confirmed)
    PROVE  PcpDurable /\ SettledKept /\ CallsDurable /\ AcksDurable
  <1> DEFINE rs == Reconcilable(v)
             commitOf(i) == {a \in Authorizations :
                                rs[a] # None /\ rs[a].outcome = "commit" /\ rs[a].id = i}
             m == [i \in EnvelopeIds |->
                     IF acks[v][i] = None \/ commitOf(i) = {} THEN acks[v][i]
                     ELSE Ack(acks[v][i].position, commitOf(i) \subseteq confirmed)]
  <1>1. acks \in [Views -> [EnvelopeIds -> Acknowledgement \cup {None}]]
    BY DEF IInv, Typed
  <1>2. /\ call' = call /\ Deliver(v, rs, applied, confirmed) /\ acks' = [acks EXCEPT ![v] = m]
        /\ records' = records
    BY <1>1 DEF ReconcilePcp, journalVars
  <1>3. CallsDurable
    BY <1>2, CallsCalm
  <1>4. /\ rs \in [Authorizations -> Request \cup {None}]
        /\ \A a \in Authorizations : rs[a] # None => DurableIn(records, a, rs[a])
    BY ReconcilableType, ReconcilableDurable
  <1> HIDE DEF rs
  <1>5. /\ PcpDurable /\ SettledKept
        /\ \A a \in confirmed : a \in Authorizations /\ rs[a] # None /\ finalized'[a] = rs[a]
    BY <1>2, <1>4, DeliverDurable
  <1>6. ASSUME NEW i \in EnvelopeIds
        PROVE  m[i] = acks[v][i] \/ AckTrue(records', finalized', i, m[i])
    <2> DEFINE n == acks[v][i].position
               k == Ack(n, commitOf(i) \subseteq confirmed)
    <2> SUFFICES ASSUME acks[v][i] # None, commitOf(i) # {}
                 PROVE  AckTrue(records', finalized', i, k)
      OBVIOUS
    <2>1. n \in Journaled(records) /\ records[n].envelope.id = i
      BY DEF SInv, AckTrue
    <2>2. PICK a \in commitOf(i) : TRUE
      OBVIOUS
    <2>3. /\ a \in Authorizations /\ rs[a] # None /\ rs[a].outcome = "commit" /\ rs[a].id = i
          /\ rs[a] \in Request
      BY <1>4, <2>2
    <2>4. /\ rs[a].position \in Journaled(records) /\ records[rs[a].position].auth = a
          /\ records[rs[a].position].envelope.id = i
      BY <1>4, <2>3 DEF DurableIn
    <2>5. rs[a].position = n
      <3>1. PaidOnce(records)
        BY ReplaySound DEF IInv, Typed, JInv, Sound
      <3>2. QED
        BY <2>1, <2>4, <3>1 DEF PaidOnce
    <2>6. rs[a] = CommitRequest(i, n) /\ records[n].auth = a
      BY <2>3, <2>4, <2>5, CommitShape
    <2>7. commitOf(i) \subseteq confirmed => finalized'[a] = CommitRequest(i, n)
      BY <1>5, <2>2, <2>6
    <2>8. k.position = n /\ (k.confirmed <=> commitOf(i) \subseteq confirmed)
      BY DEF Ack
    <2> HIDE DEF n, k, commitOf
    <2>9. QED
      BY <1>2, <2>1, <2>6, <2>7, <2>8 DEF AckTrue
  <1> HIDE DEF m
  <1>7. acks'[v] = m /\ \A w \in Views \ {v} : acks'[w] = acks[w]
    <2>1. acks' = [acks EXCEPT ![v] = m]
      BY <1>2
    <2>2. QED
      BY <1>1, <2>1
  <1>8. AcksDurable
    BY <1>6, <1>7 DEF AcksDurable
  <1>9. QED
    BY <1>3, <1>5, <1>8

\* reconcile_ambiguous_pcp commits only what the journal holds.
LEMMA ResolveSettles ==
    ASSUME IInv, SInv, Kept, NEW v \in Views, NEW applied, NEW confirmed,
           ResolveAmbiguous(v, applied, confirmed)
    PROVE  PcpDurable /\ SettledKept /\ CallsDurable /\ AcksDurable
  <1> DEFINE rs == Resolvable(v)
  <1>1. Return(v) /\ Deliver(v, rs, applied, confirmed) /\ acks' = acks
    BY DEF ResolveAmbiguous
  <1>2. rs \in [Authorizations -> Request \cup {None}] /\ \A a \in Authorizations : Resolving(rs[a], a)
    BY ResolvableType
  <1>3. ASSUME NEW a \in Authorizations, rs[a] # None
        PROVE  DurableIn(records, a, rs[a])
    <2>1. CASE rs[a].outcome = "release"
      BY <2>1 DEF DurableIn
    <2>2. CASE a \in DOMAIN CommitsIn(records) /\ rs[a] = CommitsIn(records)[a]
      <3>1. PICK n \in Journaled(records) : /\ records[n].auth = a
                                            /\ rs[a] = CommitRequest(records[n].envelope.id, n)
        BY <2>2, CommitsName DEF IInv, Typed
      <3>2. QED
        BY <3>1 DEF DurableIn, CommitRequest
    <2>3. QED
      BY <1>2, <1>3, <2>1, <2>2 DEF Resolving
  <1> HIDE DEF rs
  <1>4. PcpDurable /\ SettledKept
    BY <1>1, <1>2, <1>3, DeliverDurable
  <1>5. QED
    BY <1>1, <1>4, ReturnDurable DEF AcksDurable

-----------------------------------------------------------------------------
(* The other steps of a call.                                               *)

\* A duplicate submit repeats the commit of the record it is acknowledged for.
LEMMA ResubmitSettles ==
    ASSUME IInv, JInv, SInv, Kept, NEW v \in Views, NEW e \in Candidates, NEW now, Resubmit(v, e, now)
    PROVE  PcpDurable /\ SettledKept /\ CallsDurable /\ AcksDurable
  <1> DEFINE a == cache[v].auths[e.id]
             n == acks[v][e.id].position
             x == At("finalize", epoch, e, a, CommitRequest(e.id, n))
             seen == Observed(v)
  <1>1. /\ call[v] = NoCall /\ cache[v].envelopes[e.id] = e /\ call' = [call EXCEPT ![v] = x]
        /\ UNCHANGED <<finalized, acks, handoffs>>
    BY DEF Resubmit, Idle, Begin, pcpVars, bookVars
  <1>2. e.id \in EnvelopeIds /\ e # None
    BY CandidateFields
  <1>3. n \in Journaled(records) /\ records[n].envelope.id = e.id
    <2>1. acks[v][e.id] # None
      BY <1>1, <1>2, NoCallSound DEF IInv, ViewSound, BooksSound, Finalizing
    <2>2. QED
      BY <1>2, <2>1 DEF SInv, AckTrue
  <1>4. seen \in Seq(Record) /\ Indexes(cache[v], seen)
    <2>1. seen \in Seq(Record) /\ cache[v] = Replay(seen) /\ cache[v].ok
      BY ObservedType DEF JInv, ViewFolds
    <2> HIDE DEF seen
    <2>2. QED
      BY <2>1, ReplaySound DEF Sound
  <1>5. PICK m \in Journaled(seen) : seen[m].envelope.id = e.id
    BY <1>1, <1>2, <1>4 DEF Indexes
  <1>6. a = seen[m].auth
    BY <1>4, <1>5 DEF Indexes
  <1>7. m \in Journaled(records) /\ seen[m] = records[m]
    <2>1. /\ records \in Seq(Record) /\ known[v] \in Nat /\ known[v] <= Len(records) /\ m \in DOMAIN seen
      BY <1>5 DEF IInv, Typed, ViewSound, Journaled
    <2>2. m \in DOMAIN records /\ seen[m] = records[m]
      BY <2>1 DEF Observed
    <2>3. QED
      BY <1>5, <2>2 DEF Journaled
  <1>8. m = n
    <2>1. PaidOnce(records)
      BY ReplaySound DEF IInv, Typed, JInv, Sound
    <2>2. QED
      BY <1>3, <1>5, <1>7, <2>1 DEF PaidOnce
  <1>9. DurableIn(records, a, CommitRequest(e.id, n))
    BY <1>3, <1>6, <1>7, <1>8 DEF DurableIn, CommitRequest
  <1> HIDE DEF a, n
  <1>10. DurableIn(records', x.auth, x.request)
    BY <1>9, DurableKept DEF At
  <1> HIDE DEF x
  <1>11. CallsDurable
    BY <1>1, <1>10, CallDurable
  <1>12. QED
    BY <1>1, <1>11, PcpCalm DEF AcksDurable

\* A release vouches for no record.
LEMMA ReleaseDurable ==
    ASSUME NEW rs, NEW a, NEW i
    PROVE  DurableIn(rs, a, ReleaseRequest(i))
  BY DEF DurableIn, ReleaseRequest

\* The steps between the checks and the finalization.
LEMMA JudgmentSettles ==
    ASSUME IInv, SInv, Kept, NEW v \in Views,
           (\E a \in Authorizations : Verify(v, a)) \/ ObserveCandidateClock(v)
    PROVE  PcpDurable /\ SettledKept /\ CallsDurable /\ AcksDurable
  <1>1. UNCHANGED <<finalized, acks, handoffs>>
    BY DEF Verify, ObserveCandidateClock, pcpVars, bookVars
  <1>2. PcpDurable /\ SettledKept /\ AcksDurable
    BY <1>1, PcpCalm DEF AcksDurable
  <1>3. ASSUME NEW step, step # "finalize", NEW e, NEW a, NEW r, Proceed(v, step, e, a, r)
        PROVE  CallsDurable
    BY <1>3, CallDurable DEF Proceed, At
  <1>4. ASSUME NEW e, NEW a, Proceed(v, "finalize", e, a, ReleaseRequest(e.id))
        PROVE  CallsDurable
    BY <1>4, CallDurable, ReleaseDurable DEF Proceed, At
  <1>5. CASE \E a \in Authorizations : Verify(v, a)
    <2>1. PICK a \in Authorizations : Verify(v, a)
      BY <1>5
    <2>2. \A s, e : StepAfterJudgment(s, e) \in {"observe", "append"}
      BY DEF StepAfterJudgment
    <2>3. \/ Return(v)
          \/ Proceed(v, "finalize", call[v].envelope, a, ReleaseRequest(call[v].envelope.id))
          \/ \E step \in {"observe", "append"} : \E e, r : Proceed(v, step, e, a, r)
      BY <2>1, <2>2 DEF Verify
    <2>4. QED
      BY <1>2, <1>3, <1>4, <2>3, ReturnDurable
  <1>6. CASE ObserveCandidateClock(v)
    <2>1. \/ Return(v)
          \/ Proceed(v, "finalize", call[v].envelope, call[v].auth, ReleaseRequest(call[v].envelope.id))
          \/ \E e, a, r : Proceed(v, "append", e, a, r)
      BY <1>6 DEF ObserveCandidateClock, LoseAppend
    <2>2. QED
      BY <1>2, <1>3, <1>4, <2>1, ReturnDurable
  <1>7. QED
    BY <1>5, <1>6

\* The commit of an append names the record just written.
LEMMA AppendSettles ==
    ASSUME IInv, SInv, Kept, NEW v \in Views, AppendEnvelope(v)
    PROVE  PcpDurable /\ SettledKept /\ CallsDurable /\ AcksDurable
  <1> DEFINE e == call[v].envelope
             a == call[v].auth
             n == Len(records) + 1
             r == EnvelopeRecord(call[v].epoch, e, a)
             x == At("finalize", call[v].epoch, e, a, CommitRequest(e.id, n))
  <1>1. UNCHANGED <<finalized, acks, handoffs>>
    BY DEF AppendEnvelope, pcpVars
  <1>2. PcpDurable /\ SettledKept /\ AcksDurable
    BY <1>1, PcpCalm DEF AcksDurable
  <1>3. CASE ~AppendAccepted(v, call[v].epoch)
    BY <1>2, <1>3, ReturnDurable DEF AppendEnvelope, LoseAppend
  <1>4. CASE AppendAccepted(v, call[v].epoch)
    <2>1. records' = Append(records, r) /\ call' = [call EXCEPT ![v] = x]
      BY <1>4 DEF AppendEnvelope, Proceed
    <2>2. r.kind = "envelope" /\ r.envelope = e /\ r.auth = a
      BY DEF EnvelopeRecord
    <2>3. records \in Seq(Record)
      BY DEF IInv, Typed
    <2> HIDE DEF r
    <2>4. n \in DOMAIN records' /\ records'[n] = r
      BY <2>1, <2>3
    <2>5. DurableIn(records', a, CommitRequest(e.id, n))
      BY <2>2, <2>4 DEF DurableIn, CommitRequest, Journaled
    <2>6. DurableIn(records', x.auth, x.request)
      BY <2>5 DEF At
    <2> HIDE DEF x
    <2>7. CallsDurable
      BY <2>1, <2>6, CallDurable
    <2>8. QED
      BY <1>2, <2>7
  <1>5. QED
    BY <1>3, <1>4

\* A view that is opened finds every acknowledgement in the journal, unconfirmed.
LEMMA OpenSettles ==
    ASSUME IInv, SInv, Kept, NEW v \in Views, Open(v)
    PROVE  PcpDurable /\ SettledKept /\ CallsDurable /\ AcksDurable
  <1> DEFINE k == RebuiltAcks(records)
             at(i) == {n \in Journaled(records) : records[n].envelope.id = i}
  <1>1. /\ UNCHANGED <<records, finalized, handoffs>> /\ acks' = [acks EXCEPT ![v] = k]
        /\ call' = call \/ Begin(v, "pin", None, None, None)
    BY DEF Open, journalVars, pcpVars
  <1>2. acks \in [Views -> [EnvelopeIds -> Acknowledgement \cup {None}]]
    BY DEF IInv, Typed
  <1>3. k = [i \in EnvelopeIds |-> IF at(i) = {} THEN None ELSE Ack(CHOOSE n \in at(i) : TRUE, FALSE)]
    BY DEF RebuiltAcks
  <1> HIDE DEF k
  <1>4. ASSUME NEW i \in EnvelopeIds PROVE AckTrue(records', finalized', i, k[i])
    <2>1. CASE at(i) = {}
      BY <1>3, <1>4, <2>1 DEF AckTrue
    <2>2. CASE at(i) # {}
      <3> DEFINE n == CHOOSE m \in at(i) : TRUE
      <3>1. n \in at(i)
        BY <2>2
      <3>2. k[i] = Ack(n, FALSE)
        BY <1>3, <1>4, <2>2
      <3> HIDE DEF n
      <3>3. QED
        BY <1>1, <3>1, <3>2 DEF AckTrue, Ack
    <2>3. QED
      BY <2>1, <2>2
  <1>5. acks'[v] = k /\ \A w \in Views \ {v} : acks'[w] = acks[w]
    BY <1>1, <1>2
  <1>6. CallsDurable
    BY <1>1, CallsCalm, CallDurable DEF Begin, At
  <1>7. QED
    BY <1>1, <1>4, <1>5, <1>6, PcpCalm DEF AcksDurable

\* A view that is lost forgets its handoffs and acknowledgements.
LEMMA CrashSettles ==
    ASSUME IInv, SInv, Kept, NEW v \in Views, Crash(v)
    PROVE  PcpDurable /\ SettledKept /\ CallsDurable /\ AcksDurable
  <1>1. /\ finalized' = finalized /\ Return(v)
        /\ handoffs' = [handoffs EXCEPT ![v] = NoRequests] /\ acks' = [acks EXCEPT ![v] = Unset]
    BY DEF Crash, pcpVars
  <1>2. /\ handoffs \in [Views -> [Authorizations -> Request \cup {None}]]
        /\ acks \in [Views -> [EnvelopeIds -> Acknowledgement \cup {None}]]
    BY DEF IInv, Typed
  <1>3. \A w \in Views, a \in Authorizations : handoffs'[w][a] \in {handoffs[w][a], None}
    BY <1>1, <1>2 DEF NoRequests
  <1>4. \A w \in Views, i \in EnvelopeIds : acks'[w][i] \in {acks[w][i], None}
    BY <1>1, <1>2 DEF Unset
  <1>5. QED
    BY <1>1, <1>3, <1>4, PcpCalm, ReturnDurable DEF AcksDurable, AckTrue

\* SInv is inductive relative to IInv and JInv, and PCP's settlements are final.
LEMMA SInvNext ==
    ASSUME IInv, JInv, SInv, [Next]_vars
    PROVE  SInv' /\ SettledKept
  <1>1. Kept
    BY RecordsKept
  <1>2. ASSUME PcpDurable /\ SettledKept /\ CallsDurable /\ AcksDurable
        PROVE  SInv' /\ SettledKept
    BY <1>1, <1>2, SInvFrame
  <1>3. CASE UNCHANGED <<finalized, handoffs, acks, call>>
    <2>1. PcpDurable /\ SettledKept
      BY <1>1, <1>3, PcpCalm
    <2>2. CallsDurable /\ AcksDurable
      BY <1>1, <1>3, CallsCalm DEF AcksDurable
    <2>3. QED
      BY <1>2, <2>1, <2>2
  <1>4. ASSUME NEW v \in Views, ViewNext(v) PROVE SInv' /\ SettledKept
    <2>1. CASE Open(v)
      BY <1>1, <1>2, <2>1, OpenSettles
    <2>2. CASE PinPosition(v)
      <3>1. UNCHANGED <<finalized, acks, handoffs>> /\ Return(v)
        BY <2>2 DEF PinPosition, pcpVars, bookVars
      <3>2. QED
        BY <1>1, <1>2, <3>1, PcpCalm, ReturnDurable DEF AcksDurable
    <2>3. CASE Crash(v)
      BY <1>1, <1>2, <2>3, CrashSettles
    <2>4. CASE \E t \in Threads, now \in Clocks : AdvanceNow(v, t, now)
      BY <1>3, <2>4 DEF AdvanceNow, pcpVars, bookVars
    <2>5. CASE \E e \in Candidates, now \in Clocks \cup {None} : Submit(v, e, now)
      <3>1. UNCHANGED <<finalized, acks, handoffs>>
        BY <2>5 DEF Submit, pcpVars, bookVars
      <3>2. Return(v) \/ \E e, a, r : Begin(v, "verify", e, a, r)
        BY <2>5 DEF Submit
      <3>3. CallsDurable
        BY <1>1, <3>2, ReturnDurable, CallDurable DEF Begin, At
      <3>4. QED
        BY <1>1, <1>2, <3>1, <3>3, PcpCalm DEF AcksDurable
    <2>6. CASE \E e \in Candidates, now \in Clocks \cup {None} : Resubmit(v, e, now)
      BY <1>1, <1>2, <2>6, ResubmitSettles
    <2>7. CASE (\E a \in Authorizations : Verify(v, a)) \/ ObserveCandidateClock(v)
      BY <1>1, <1>2, <2>7, JudgmentSettles
    <2>8. CASE VerifyDenied(v) \/ \E a \in Authorizations : AllowLost(v, a)
      <3>1. UNCHANGED <<finalized, acks, handoffs>> /\ Return(v)
        BY <2>8 DEF VerifyDenied, AllowLost, pcpVars, bookVars
      <3>2. QED
        BY <1>1, <1>2, <3>1, PcpCalm, ReturnDurable DEF AcksDurable
    <2>9. CASE AppendEnvelope(v)
      BY <1>1, <1>2, <2>9, AppendSettles
    <2>10. CASE \E applied, confirmed : \/ Finalize(v, applied, confirmed)
                                        \/ ReconcilePcp(v, applied, confirmed)
                                        \/ ResolveAmbiguous(v, applied, confirmed)
      BY <1>1, <1>2, <2>10, FinalizeSettles, ReconcileSettles, ResolveSettles
    <2>11. CASE ReconcileAmbiguous(v)
      <3>1. UNCHANGED <<finalized, acks, handoffs>> /\ \E e, a, r : Begin(v, "resolve", e, a, r)
        BY <2>11 DEF ReconcileAmbiguous, pcpVars, bookVars
      <3>2. CallsDurable
        BY <1>1, <3>1, CallDurable DEF Begin, At
      <3>3. QED
        BY <1>1, <1>2, <3>1, <3>2, PcpCalm DEF AcksDurable
    <2>12. QED
      BY <1>4, <2>1, <2>2, <2>3, <2>4, <2>5, <2>6, <2>7, <2>8, <2>9, <2>10, <2>11 DEF ViewNext
  <1>5. QED
    BY <1>3, <1>4 DEF Next, AcquireWriter, vars, pcpVars, bookVars

-----------------------------------------------------------------------------
(* What the settlements give.                                               *)

\* SInv holds always: every request that is pending, under way or settled was
\* durable, and every acknowledgement tells of a journaled record.
THEOREM SettlementHolds == ASSUME RebuildsAlone PROVE Spec => [](IInv /\ JInv /\ SInv)
  <1>1. Init => SInv
    BY SInvInit
  <1>2. (IInv /\ JInv) /\ SInv /\ [Next]_vars => SInv'
    BY SInvNext
  <1>3. QED
    BY <1>1, <1>2, FoldHolds, PTL DEF Spec

\* The finalizer is told "commit" only for an envelope that is durable at that
\* position under that authorization, by whichever of submit, a duplicate
\* submit and the two reconciliations, however often and in whatever order.
THEOREM CommitsStayJournaled == ASSUME RebuildsAlone PROVE Spec => []CommitsAreJournaled
  <1>1. SInv => CommitsAreJournaled
    BY DEF SInv, DurableIn, CommitsAreJournaled
  <1>2. QED
    BY <1>1, SettlementHolds, PTL

\* authorization_state "committed" is the truth, and an acknowledgement of any
\* state names the durable record: _finalize, reconcile_pcp and _rebuild file
\* an acknowledgement with a position they computed apart from each other.
THEOREM AcksStayTruthful == ASSUME RebuildsAlone PROVE Spec => []AcksTruthful
  <1>1. SInv => AcksTruthful
    BY DEF SInv, AckTrue, AcksTruthful
  <1>2. QED
    BY <1>1, SettlementHolds, PTL
=============================================================================
