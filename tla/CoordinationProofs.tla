------------------------- MODULE CoordinationProofs -------------------------
(***************************************************************************)
(* Proofs about Coordination, for every set of principals, identifiers,     *)
(* threads, candidates and clocks.  Three parts: the inductive invariant    *)
(* IInv; what a step may do to gates and floors; the invariant HInv of the  *)
(* committed envelopes.                                                     *)
(***************************************************************************)
EXTENDS Coordination, MovesProofs, FiniteSetTheorems, TLAPS

\* A parked move is well formed, gated, and signed by who still has the authority.
Parks(s) ==
    s.pending # None =>
        /\ WellFormed(s.pending) /\ Gated(s.pending)
        /\ \/ s.pending.type \in {"delegate", "retry"} /\ s.pending.signer = s.principal
           \/ s.pending.type \in {"handoff", "resume"} /\ s.pending.signer = s.floor

\* Every legal move keeps a thread coherent, its gate authorised and its clock
\* within its deadline.
LEMMA MoveKeeps ==
    ASSUME NEW s \in Snapshot, NEW e \in Envelope, WellFormed(e),
           TransitionAllowed(e, s), ClockHolds(e, s), ~TimeoutDue(s, e.now),
           SnapshotCoherent(s), Parks(s)
    PROVE  LET n == ApplyEnvelope(s, e) IN
           /\ n \in Snapshot /\ SnapshotCoherent(n) /\ Parks(n) /\ ~TimeoutDue(n, n.now)
           /\ n.pending \in {None, s.pending, e}
  <1> DEFINE n == ApplyEnvelope(s, e)
  <1>1. /\ e.type \in MoveTypes /\ e.id # None /\ e.seq # 0 /\ e.signer # None
        /\ e.now \in Nat /\ s.now \in Nat /\ e.now >= s.now
        /\ e.deadline # None => e.deadline \in Nat /\ e.deadline >= e.now
    BY EnvelopeFields, NoneAssumption DEF ClockHolds, Snapshot
  <1>2. /\ e.type \in {"delegate", "handoff"} => e.target # None
        /\ s.pending # None /\ s.pending.type \in {"delegate", "handoff"} => s.pending.target # None
    BY DEF WellFormed, Parks
  <1>3. n \in Snapshot /\ StampedBy(n, s, e)
    BY AllowedMoves, MoveEffect
  <1>4. n.now = e.now
    BY <1>1, <1>3 DEF StampedBy, Later
  <1>5. ASSUME e.type # "approve" PROVE ~TimeoutDue(n, n.now)
    <2>1. CASE e.type \in {"fail", "cancel"}
      BY <2>1, AllowedMoves, MoveEffect DEF TimeoutDue
    <2>2. CASE e.type \notin {"fail", "cancel"}
      BY <1>1, <1>3, <1>4, <1>5, <2>2 DEF TimeoutDue, StampedBy
    <2>3. QED
      BY <2>1, <2>2
  <1>6. ASSUME NEW before, NEW after, ParkedOrRun(n, e, before, after),
               before # None, after # None, n.principal # None, n.lastAssignee # None,
               \/ e.type \in {"delegate", "retry"} /\ e.signer = n.principal
               \/ e.type \in {"handoff", "resume"} /\ e.signer = before
        PROVE  SnapshotCoherent(n) /\ Parks(n) /\ n.pending \in {None, e}
    <2> HIDE DEF n
    <2>1. n.seq # 0 /\ n.lastId # None /\ n.state \in {"running", "awaiting_approve"} /\ n.floor # None
      BY <1>1, <1>3, <1>6 DEF StampedBy, ParkedOrRun
    <2>2. IF Gated(e) THEN n.pending = e /\ n.state = "awaiting_approve" /\ n.floor = before
                      ELSE n.pending = None /\ n.state = "running"
      BY <1>6 DEF ParkedOrRun
    <2>3. e # None
      BY NoneAssumption
    <2>4. SnapshotCoherent(n)
      BY <1>6, <2>1, <2>2, <2>3 DEF SnapshotCoherent
    <2>5. Parks(n)
      BY <1>6, <2>2 DEF Parks
    <2>6. QED
      BY <2>2, <2>4, <2>5
  <1>7. CASE e.type = "delegate"
    <2>1. n.principal = e.signer /\ n.lastAssignee = e.target /\ ParkedOrRun(n, e, e.signer, e.target)
      BY <1>7, MoveEffect
    <2>2. QED
      BY <1>1, <1>2, <1>3, <1>5, <1>6, <1>7, <2>1
  <1>8. ASSUME e.type # "delegate"
        PROVE  /\ s.state # "void" /\ s.floor # None /\ s.principal # None /\ s.lastAssignee # None
               /\ n.principal = s.principal /\ NamedAssignee(s, e) # None
               /\ s.pending # None => NamedAssignee(s, s.pending) # None
    BY <1>3, <1>8, AllowedMoves DEF SnapshotCoherent, StampedBy, NamedAssignee
  <1>9. CASE e.type = "handoff"
    <2>1. ParkedOrRun(n, e, s.floor, e.target) /\ n.lastAssignee = s.lastAssignee
      BY <1>3, <1>9, MoveEffect DEF StampedBy
    <2>2. e.signer = s.floor
      BY <1>9, AllowedMoves
    <2>3. QED
      BY <1>2, <1>3, <1>5, <1>6, <1>8, <1>9, <2>1, <2>2
  <1>10. CASE e.type = "retry"
    <2>1. n.lastAssignee = NamedAssignee(s, e) /\ ParkedOrRun(n, e, s.floor, NamedAssignee(s, e))
      BY <1>10, MoveEffect
    <2>2. e.signer = s.principal
      BY <1>10, AllowedMoves
    <2>3. QED
      BY <1>3, <1>5, <1>6, <1>8, <1>10, <2>1, <2>2
  <1>11. CASE e.type = "resume"
    <2>1. e.signer = s.floor /\ n.lastAssignee = s.lastAssignee
      BY <1>3, <1>11, AllowedMoves DEF StampedBy
    <2>2. CASE s.pending = None
      <3>1. ParkedOrRun(n, e, s.floor, s.floor)
        BY <1>11, <2>2, MoveEffect
      <3>2. QED
        BY <1>3, <1>5, <1>6, <1>8, <1>11, <2>1, <3>1
    <2>3. CASE s.pending # None
      <3>1. n.state = "awaiting_approve" /\ n.pending = s.pending /\ n.floor = s.floor
        BY <1>11, <2>3, MoveEffect
      <3>2. SnapshotCoherent(n) /\ Parks(n)
        BY <1>1, <1>3, <1>8, <1>11, <2>1, <2>3, <3>1 DEF SnapshotCoherent, Parks, StampedBy
      <3>3. QED
        BY <1>3, <1>5, <1>11, <3>1, <3>2
    <2>4. QED
      BY <2>2, <2>3
  <1>12. CASE e.type = "approve"
    <2>1. /\ n.deadline = s.deadline /\ n.state = "running" /\ n.pending = None
          /\ n.lastAssignee = s.lastAssignee /\ s.state = "awaiting_approve"
      BY <1>3, <1>12, AllowedMoves, MoveEffect DEF StampedBy
    <2>2. n.floor # None
      BY <1>2, <1>8, <1>12, AllowedMoves, MoveEffect
    <2>3. SnapshotCoherent(n) /\ Parks(n)
      BY <1>1, <1>3, <1>8, <1>12, <2>1, <2>2 DEF SnapshotCoherent, Parks, StampedBy
    <2>4. ~TimeoutDue(n, n.now)
      BY <1>4, <2>1 DEF TimeoutDue
    <2>5. QED
      BY <1>3, <2>1, <2>3, <2>4
  <1>13. CASE e.type \in {"fail", "cancel"}
    <2>1. /\ n.pending = None /\ n.lastAssignee = s.lastAssignee
          /\ \/ n.state = "failed" /\ n.floor = s.floor
             \/ n.state = "cancelled" /\ n.floor = None
      BY <1>3, <1>13, MoveEffect DEF StampedBy
    <2>2. SnapshotCoherent(n) /\ Parks(n)
      BY <1>1, <1>3, <1>8, <1>13, <2>1 DEF SnapshotCoherent, Parks, StampedBy
    <2>3. QED
      BY <1>3, <1>5, <1>13, <2>1, <2>2
  <1>14. QED
    BY <1>1, <1>7, <1>9, <1>10, <1>11, <1>12, <1>13 DEF MoveTypes

-----------------------------------------------------------------------------
(* The inductive invariant of the snapshots.                                *)

\* A thread's parked move and the clock.
SoundThread(t) ==
    /\ SnapshotCoherent(threads[t])
    /\ Parks(threads[t])
    /\ ~TimeoutDue(threads[t], threads[t].now)

\* A parked move is on file, and every committed envelope is filed under its id.
Filed ==
    /\ \A i \in EnvelopeIds : envelopes[i] # None => envelopes[i].id = i
    /\ \A t \in Threads : LET p == threads[t].pending
                          IN  p # None => p.thread = t /\ envelopes[p.id] = p

\* The inductive invariant.
IInv == TypeOK /\ (\A t \in Threads : SoundThread(t)) /\ Filed

\* The journal starts inside the invariant.
LEMMA InvInit == Init => IInv
  <1> SUFFICES ASSUME Init PROVE IInv
    OBVIOUS
  <1>1. \A t \in Threads : threads[t] = VoidSnapshot
    BY DEF Init
  <1>2. TypeOK
    BY <1>1, VoidSnapshotType DEF Init, TypeOK
  <1>3. SnapshotCoherent(VoidSnapshot) /\ Parks(VoidSnapshot) /\ ~TimeoutDue(VoidSnapshot, 0)
    BY DEF VoidSnapshot, SnapshotCoherent, Parks, TimeoutDue
  <1>4. VoidSnapshot.now = 0 /\ VoidSnapshot.pending = None
    BY DEF VoidSnapshot
  <1>5. QED
    BY <1>1, <1>2, <1>3, <1>4 DEF IInv, SoundThread, Filed, Init

\* What Commit does.
LEMMA CommitStep ==
    ASSUME IInv, NEW e \in Candidates, Commit(e)
    PROVE  LET s == threads[e.thread]
               n == ApplyEnvelope(s, e)
           IN  /\ e \in Envelope /\ WellFormed(e) /\ e.thread \in Threads /\ e.id \in EnvelopeIds
               /\ s \in Snapshot /\ SnapshotCoherent(s) /\ Parks(s)
               /\ envelopes[e.id] = None
               /\ CausalityHolds(e, s, envelopes) /\ ClockHolds(e, s) /\ TransitionAllowed(e, s)
               /\ ~TimeoutDue(s, e.now)
               /\ n \in Snapshot
               /\ threads'[e.thread] = n
               /\ \A t \in Threads : t # e.thread => threads'[t] = threads[t]
               /\ envelopes'[e.id] = e
               /\ \A i \in EnvelopeIds : i # e.id => envelopes'[i] = envelopes[i]
               /\ threads' \in [Threads -> Snapshot]
               /\ envelopes' \in [EnvelopeIds -> Envelope \cup {None}]
  <1> DEFINE s == threads[e.thread]
             n == ApplyEnvelope(s, e)
  <1>1. e \in Envelope /\ WellFormed(e) /\ e.thread \in Threads /\ e.id \in EnvelopeIds
    BY CandidatesAssumption, EnvelopeFields
  <1>2. s \in Snapshot /\ SnapshotCoherent(s) /\ Parks(s)
    BY <1>1 DEF IInv, TypeOK, SoundThread
  <1>3. /\ envelopes[e.id] = None /\ CausalityHolds(e, s, envelopes) /\ ClockHolds(e, s)
        /\ TransitionAllowed(e, s) /\ ~TimeoutDue(s, e.now)
    BY DEF Commit, Acceptable
  <1>4. n \in Snapshot
    BY <1>1, <1>2, <1>3, MoveKeeps
  <1>5. threads' = [threads EXCEPT ![e.thread] = n] /\ envelopes' = [envelopes EXCEPT ![e.id] = e]
    BY DEF Commit
  <1> HIDE DEF s, n
  <1>6. QED
    BY <1>1, <1>2, <1>3, <1>4, <1>5 DEF IInv, TypeOK, s, n

\* What ObserveClock does.
LEMMA ObserveStep ==
    ASSUME IInv, NEW t \in Threads, NEW now \in Clocks, ObserveClock(t, now)
    PROVE  LET s == threads[t]
               n == ApplyTimeout(s, now)
           IN  /\ s \in Snapshot /\ SnapshotCoherent(s) /\ Parks(s) /\ now \in Nat
               /\ s.state \in {"running", "awaiting_approve"} /\ now > s.deadline
               /\ n \in Snapshot
               /\ threads'[t] = n
               /\ \A u \in Threads : u # t => threads'[u] = threads[u]
               /\ threads' \in [Threads -> Snapshot]
               /\ envelopes' = envelopes
  <1> DEFINE s == threads[t]
             n == ApplyTimeout(s, now)
  <1>1. s \in Snapshot /\ SnapshotCoherent(s) /\ Parks(s) /\ now \in Nat
    BY ClocksAssumption DEF IInv, TypeOK, SoundThread
  <1>2. s.state \in {"running", "awaiting_approve"} /\ now > s.deadline
    BY DEF ObserveClock, TimeoutDue
  <1>3. n \in Snapshot
    BY <1>1, TimeoutEffect
  <1>4. threads' = [threads EXCEPT ![t] = n] /\ envelopes' = envelopes
    BY DEF ObserveClock
  <1> HIDE DEF s, n
  <1>5. QED
    BY <1>1, <1>2, <1>3, <1>4 DEF IInv, TypeOK, s, n

\* Every commit and every timeout keeps the invariant.
LEMMA InvNext == IInv /\ [Next]_vars => IInv'
  <1> SUFFICES ASSUME IInv, [Next]_vars PROVE IInv'
    OBVIOUS
  <1>1. ASSUME NEW e \in Candidates, Commit(e) PROVE IInv'
    <2> DEFINE s == threads[e.thread]
               n == ApplyEnvelope(s, e)
    <2>1. /\ e \in Envelope /\ WellFormed(e) /\ e.thread \in Threads /\ e.id \in EnvelopeIds
          /\ s \in Snapshot /\ SnapshotCoherent(s) /\ Parks(s)
          /\ envelopes[e.id] = None
          /\ ClockHolds(e, s) /\ TransitionAllowed(e, s) /\ ~TimeoutDue(s, e.now)
          /\ threads'[e.thread] = n
          /\ \A t \in Threads : t # e.thread => threads'[t] = threads[t]
          /\ envelopes'[e.id] = e
          /\ \A i \in EnvelopeIds : i # e.id => envelopes'[i] = envelopes[i]
          /\ threads' \in [Threads -> Snapshot]
          /\ envelopes' \in [EnvelopeIds -> Envelope \cup {None}]
      BY <1>1, CommitStep
    <2>2. /\ n \in Snapshot /\ SnapshotCoherent(n) /\ Parks(n) /\ ~TimeoutDue(n, n.now)
          /\ n.pending \in {None, s.pending, e}
      BY <2>1, MoveKeeps
    <2> HIDE DEF n
    <2>3. TypeOK'
      BY <2>1 DEF TypeOK
    <2>4. ASSUME NEW t \in Threads PROVE SoundThread(t)'
      BY <2>1, <2>2, <2>4 DEF SoundThread, IInv
    <2>5. Filed'
      <3>1. ASSUME NEW i \in EnvelopeIds, envelopes'[i] # None PROVE envelopes'[i].id = i
        BY <2>1, <3>1 DEF IInv, Filed
      <3>2. ASSUME NEW t \in Threads, NEW p, p = threads'[t].pending, p # None
            PROVE  p.thread = t /\ envelopes'[p.id] = p
        <4>1. CASE t = e.thread /\ p = e
          BY <2>1, <4>1
        <4>2. CASE ~(t = e.thread /\ p = e)
          <5>1. p = threads[t].pending
            BY <2>1, <2>2, <3>2, <4>2
          <5>2. p.thread = t /\ envelopes[p.id] = p /\ p \in Envelope
            BY <3>2, <5>1 DEF IInv, Filed, TypeOK, Snapshot
          <5>3. QED
            BY <2>1, <3>2, <5>2, EnvelopeFields
        <4>3. QED
          BY <4>1, <4>2
      <3>3. QED
        BY <3>1, <3>2 DEF Filed
    <2>6. QED
      BY <2>3, <2>4, <2>5 DEF IInv
  <1>2. ASSUME NEW t \in Threads, NEW now \in Clocks, ObserveClock(t, now) PROVE IInv'
    <2> DEFINE s == threads[t]
               n == ApplyTimeout(s, now)
    <2>1. /\ s \in Snapshot /\ SnapshotCoherent(s) /\ Parks(s) /\ now \in Nat
          /\ s.state \in {"running", "awaiting_approve"}
          /\ threads'[t] = n
          /\ \A u \in Threads : u # t => threads'[u] = threads[u]
          /\ threads' \in [Threads -> Snapshot]
          /\ envelopes' = envelopes
      BY <1>2, ObserveStep
    <2>2. /\ n \in Snapshot /\ n.seq = s.seq /\ n.lastId = s.lastId
          /\ n.principal = s.principal /\ n.lastAssignee = s.lastAssignee /\ n.floor = s.floor
          /\ n.state = "paused" /\ n.pending = s.pending
      BY <2>1, TimeoutEffect
    <2> HIDE DEF n
    <2>3. TypeOK'
      BY <2>1 DEF TypeOK, IInv
    <2>4. SnapshotCoherent(n) /\ Parks(n) /\ ~TimeoutDue(n, n.now)
      BY <2>1, <2>2 DEF SnapshotCoherent, Parks, TimeoutDue
    <2>5. ASSUME NEW u \in Threads PROVE SoundThread(u)'
      BY <2>1, <2>4, <2>5 DEF SoundThread, IInv
    <2>6. Filed'
      BY <2>1, <2>2 DEF Filed, IInv
    <2>7. QED
      BY <2>3, <2>5, <2>6 DEF IInv
  <1>3. CASE UNCHANGED vars
    BY <1>3 DEF vars, IInv, TypeOK, SoundThread, Filed
  <1>4. QED
    BY <1>1, <1>2, <1>3 DEF Next

\* IInv is an invariant: what _check_signer_and_transition relies on when it
\* indexes pending, floor and last_assignee holds at every point of every journal.
THEOREM InvHolds == Spec => []IInv
  BY InvInit, InvNext, PTL DEF Spec

\* Every snapshot and every committed envelope keeps its type.
THEOREM TypesHold == Spec => []TypeOK
  <1>1. IInv => TypeOK
    BY DEF IInv
  <1>2. QED
    BY <1>1, InvHolds, PTL

\* Gates, floors and states fit together in every snapshot (see SnapshotCoherent).
THEOREM CoherenceHolds == Spec => []ThreadsCoherent
  <1>1. IInv => ThreadsCoherent
    BY DEF IInv, SoundThread, ThreadsCoherent
  <1>2. QED
    BY <1>1, InvHolds, PTL

\* Whoever proposed a parked move still has the authority when the gate is answered.
THEOREM ProposersHoldAlways == Spec => []ProposersHold
  <1>1. IInv => ProposersHold
    BY DEF IInv, SoundThread, Filed, Parks, ProposersHold, ProposerHolds
  <1>2. QED
    BY <1>1, InvHolds, PTL

\* No envelope slips past a deadline: _apply_envelope and advance_now never leave
\* an active thread whose clock is past it.
THEOREM DeadlinesHold == Spec => []NoOverdueThread
  <1>1. IInv => NoOverdueThread
    BY DEF IInv, SoundThread, NoOverdueThread
  <1>2. QED
    BY <1>1, InvHolds, PTL

-----------------------------------------------------------------------------
(* What a step may do to gates, floors and history.                         *)

\* What becomes of a gate and of the floor, move by move.
LEMMA MoveGrants ==
    ASSUME NEW s \in Snapshot, NEW e \in Envelope, WellFormed(e), TransitionAllowed(e, s),
           ClockHolds(e, s), SnapshotCoherent(s), Parks(s)
    PROVE  LET n == ApplyEnvelope(s, e) IN
           /\ s.pending \notin {None, n.pending} => n.pending = None /\ GateAnswered(e, s)
           /\ s.state # "void" /\ n.floor # s.floor => FloorGranted(e, s, n.floor)
           /\ n.now >= s.now /\ n.seq = s.seq + 1 /\ n.lastId = e.id
           /\ s.state # "void" => n.principal = s.principal
           /\ s.state # "cancelled"
  <1> DEFINE n == ApplyEnvelope(s, e)
  <1>1. e.type \in MoveTypes /\ s.seq \in Nat /\ s.now \in Nat /\ e.now \in Nat
    BY EnvelopeFields DEF Snapshot
  <1>2. StampedBy(n, s, e)
    BY AllowedMoves, MoveEffect
  <1>3. n.now >= s.now /\ n.seq = s.seq + 1 /\ n.lastId = e.id
    BY <1>1, <1>2 DEF StampedBy, ClockHolds, Later
  <1>4. s.state # "void" => n.principal = s.principal
    BY <1>2, AllowedMoves DEF StampedBy
  <1>5. s.state # "cancelled"
    BY AllowedMoves
  <1>6. s.pending # None => s.state \in {"awaiting_approve", "paused"}
    BY DEF SnapshotCoherent
  <1>7. ASSUME s.pending \notin {None, n.pending} PROVE n.pending = None /\ GateAnswered(e, s)
    <2>1. e.type \in {"approve", "fail", "cancel", "resume"}
      BY <1>1, <1>6, <1>7, AllowedMoves DEF MoveTypes
    <2>2. e.type # "resume"
      BY <1>7, MoveEffect
    <2>3. QED
      BY <2>1, <2>2, AllowedMoves, MoveEffect DEF GateAnswered
  <1>8. ASSUME s.state # "void", n.floor # s.floor PROVE FloorGranted(e, s, n.floor)
    <2>1. e.type # "delegate"
      BY <1>8, AllowedMoves
    <2>2. CASE e.type = "handoff"
      <3>1. ParkedOrRun(n, e, s.floor, e.target) /\ e.signer = s.floor
        BY <2>2, MoveEffect, AllowedMoves
      <3>2. QED
        BY <1>8, <2>2, <3>1 DEF ParkedOrRun, FloorGranted
    <2>3. CASE e.type = "retry"
      <3>1. ParkedOrRun(n, e, s.floor, NamedAssignee(s, e)) /\ e.signer = s.principal
        BY <2>3, MoveEffect, AllowedMoves
      <3>2. QED
        BY <1>8, <2>3, <3>1 DEF ParkedOrRun, FloorGranted
    <2>4. CASE e.type = "cancel"
      BY <2>4, MoveEffect, AllowedMoves DEF FloorGranted
    <2>5. CASE e.type = "approve"
      <3> DEFINE p == s.pending
      <3>1. /\ p # None /\ e.signer = p.approver
            /\ n.floor = CASE p.type \in {"delegate", "handoff"} -> p.target
                           [] p.type = "retry" -> NamedAssignee(s, p)
                           [] OTHER -> s.floor
        BY <2>5, MoveEffect, AllowedMoves
      <3>2. p.type \in {"delegate", "handoff", "retry", "resume"} /\ WellFormed(p)
        BY <3>1 DEF Parks
      <3>3. p.type # "resume" /\ n.floor = NamedAssignee(s, p)
        BY <1>8, <3>1, <3>2 DEF NamedAssignee, WellFormed
      <3>4. QED
        BY <2>5, <3>1, <3>3 DEF FloorGranted
    <2>6. CASE e.type \in {"fail", "resume"}
      BY <1>8, <2>6, MoveEffect DEF ParkedOrRun
    <2>7. QED
      BY <1>1, <2>1, <2>2, <2>3, <2>4, <2>5, <2>6 DEF MoveTypes
  <1>9. QED
    BY <1>3, <1>4, <1>5, <1>7, <1>8

\* What one step of the journal may do to one thread.
LEMMA StepGrants ==
    ASSUME IInv, [Next]_vars, NEW t \in Threads
    PROVE  LET s == threads[t]
               n == threads'[t]
               e == JustCommitted(t)
           IN  /\ s.pending \notin {None, n.pending} =>
                     n.pending = None /\ Commits(t) /\ GateAnswered(e, s)
               /\ s.state # "void" /\ n.floor # s.floor =>
                     Commits(t) /\ FloorGranted(e, s, n.floor)
               /\ n.now >= s.now /\ n.seq \in {s.seq, s.seq + 1}
               /\ s.state # "void" => n.principal = s.principal
               /\ s.state = "cancelled" => n = s
  <1> DEFINE s == threads[t]
             n == threads'[t]
  <1>1. s \in Snapshot /\ s.now \in Nat /\ s.seq \in Nat
    BY DEF IInv, TypeOK, Snapshot
  <1>2. ASSUME NEW e \in Candidates, Commit(e), e.thread = t
        PROVE  /\ s.pending \notin {None, n.pending} =>
                     n.pending = None /\ Commits(t) /\ GateAnswered(JustCommitted(t), s)
               /\ s.state # "void" /\ n.floor # s.floor =>
                     Commits(t) /\ FloorGranted(JustCommitted(t), s, n.floor)
               /\ n.now >= s.now /\ n.seq \in {s.seq, s.seq + 1}
               /\ s.state # "void" => n.principal = s.principal
               /\ s.state # "cancelled"
    <2>1. /\ e \in Envelope /\ WellFormed(e) /\ SnapshotCoherent(s) /\ Parks(s)
          /\ ClockHolds(e, s) /\ TransitionAllowed(e, s)
          /\ n = ApplyEnvelope(s, e) /\ envelopes'[e.id] = e
      BY <1>2, CommitStep
    <2> HIDE DEF s, n
    <2>2. /\ s.pending \notin {None, n.pending} => n.pending = None /\ GateAnswered(e, s)
          /\ s.state # "void" /\ n.floor # s.floor => FloorGranted(e, s, n.floor)
          /\ n.now >= s.now /\ n.seq = s.seq + 1 /\ n.lastId = e.id
          /\ s.state # "void" => n.principal = s.principal
          /\ s.state # "cancelled"
      BY <1>1, <2>1, MoveGrants
    <2>3. JustCommitted(t) = e /\ Commits(t)
      BY <1>1, <2>1, <2>2 DEF JustCommitted, Commits, s, n
    <2>4. QED
      BY <2>2, <2>3
  <1>3. ASSUME n = s
        PROVE  /\ s.pending \notin {None, n.pending} => FALSE
               /\ n.floor = s.floor
               /\ n.now >= s.now /\ n.seq \in {s.seq, s.seq + 1}
    BY <1>1, <1>3
  <1>4. ASSUME NEW now \in Clocks, ObserveClock(t, now)
        PROVE  /\ n.pending = s.pending /\ n.floor = s.floor /\ n.principal = s.principal
               /\ n.now >= s.now /\ n.seq = s.seq /\ s.state # "cancelled"
    <2>1. s.state # "cancelled" /\ n = ApplyTimeout(s, now) /\ now \in Nat
      BY <1>4, ObserveStep
    <2> HIDE DEF s, n
    <2>2. /\ n.pending = s.pending /\ n.floor = s.floor /\ n.principal = s.principal
          /\ n.now = Later(s.now, now) /\ n.seq = s.seq
      BY <1>1, <2>1, TimeoutEffect
    <2>3. Later(s.now, now) >= s.now
      BY <1>1, <2>1 DEF Later
    <2>4. QED
      BY <2>1, <2>2, <2>3
  <1>5. \/ n = s
        \/ \E e \in Candidates : Commit(e) /\ e.thread = t
        \/ \E now \in Clocks : ObserveClock(t, now)
    <2>1. ASSUME NEW e \in Candidates, Commit(e), e.thread # t PROVE n = s
      BY <2>1, CommitStep
    <2>2. ASSUME NEW u \in Threads, NEW now \in Clocks, ObserveClock(u, now), u # t PROVE n = s
      BY <2>2, ObserveStep
    <2>3. QED
      BY <2>1, <2>2 DEF Next, vars
  <1>6. ASSUME NEW now \in Clocks, ObserveClock(t, now)
        PROVE  /\ s.pending \notin {None, n.pending} =>
                     n.pending = None /\ Commits(t) /\ GateAnswered(JustCommitted(t), s)
               /\ s.state # "void" /\ n.floor # s.floor =>
                     Commits(t) /\ FloorGranted(JustCommitted(t), s, n.floor)
               /\ n.now >= s.now /\ n.seq \in {s.seq, s.seq + 1}
               /\ s.state # "void" => n.principal = s.principal
               /\ s.state = "cancelled" => n = s
    BY <1>4, <1>6
  <1>7. QED
    BY <1>2, <1>3, <1>5, <1>6

\* A committed envelope stays what it was.
LEMMA EnvelopesKept ==
    ASSUME IInv, [Next]_vars
    PROVE  \A i \in EnvelopeIds : envelopes[i] \in {None, envelopes'[i]}
  <1>1. ASSUME NEW e \in Candidates, Commit(e), NEW i \in EnvelopeIds
        PROVE  envelopes[i] \in {None, envelopes'[i]}
    BY <1>1, CommitStep
  <1>2. CASE UNCHANGED envelopes
    BY <1>2
  <1>3. QED
    BY <1>1, <1>2 DEF Next, ObserveClock, vars

\* A gate is dropped only by its approver or by a fail or cancel of floor or opener.
THEOREM GateKept == Spec => GateNotDropped
  <1>1. IInv /\ [Next]_vars =>
          [\A t \in Threads :
             threads[t].pending \notin {None, threads'[t].pending} =>
                 /\ threads'[t].pending = None
                 /\ Commits(t) /\ GateAnswered(JustCommitted(t), threads[t])]_vars
    BY StepGrants
  <1>2. QED
    BY <1>1, InvHolds, PTL DEF Spec, GateNotDropped

\* The floor moves only where its holder, the opener or the approver granted it.
THEOREM FloorGrantedAlways == Spec => FloorMovesByGrant
  <1>1. IInv /\ [Next]_vars =>
          [\A t \in Threads :
             threads[t].state # "void" /\ threads'[t].floor # threads[t].floor =>
                 Commits(t) /\ FloorGranted(JustCommitted(t), threads[t], threads'[t].floor)]_vars
    BY StepGrants
  <1>2. QED
    BY <1>1, InvHolds, PTL DEF Spec, FloorMovesByGrant

\* Clocks, sequences, openers, cancellations and committed envelopes are never undone.
THEOREM HistoryOnlyGrows == Spec => HistoryGrows
  <1>1. IInv /\ [Next]_vars =>
          [/\ \A t \in Threads :
                LET s == threads[t]
                    n == threads'[t]
                IN  /\ n.now >= s.now
                    /\ n.seq \in {s.seq, s.seq + 1}
                    /\ s.state # "void" => n.principal = s.principal
                    /\ s.state = "cancelled" => n = s
           /\ \A i \in EnvelopeIds : envelopes[i] \in {None, envelopes'[i]}]_vars
    BY StepGrants, EnvelopesKept
  <1>2. QED
    BY <1>1, InvHolds, PTL DEF Spec, HistoryGrows

-----------------------------------------------------------------------------
(* The committed envelopes of a thread.                                     *)

\* The sequence numbers of a thread, and of its committed envelopes.
Numbered(t) ==
    LET s == threads[t]
    IN  /\ s.seq = Cardinality(CommittedOn(t))
        /\ s.seq # 0 => s.lastId \in CommittedOn(t) /\ envelopes[s.lastId].seq = s.seq
        /\ s.state = "failed" => envelopes[s.lastId].type = "fail"
        /\ \A i \in CommittedOn(t) : envelopes[i].seq <= s.seq

\* The parents of a thread form one chain.
Chained(t) ==
    \A i \in CommittedOn(t) :
        LET e == envelopes[i]
        IN  /\ \A p \in e.parents : p \in CommittedOn(t) /\ envelopes[p].seq < e.seq
            /\ e.seq > 1 => \E p \in e.parents : envelopes[p].seq = e.seq - 1

\* The invariant of the committed envelopes.
HInv == \A t \in Threads : Numbered(t) /\ Chained(t)

\* An empty journal is numbered and chained.
LEMMA HInvInit == Init => HInv
  <1> SUFFICES ASSUME Init, NEW t \in Threads PROVE Numbered(t) /\ Chained(t)
    BY DEF HInv
  <1>1. CommittedOn(t) = {}
    BY DEF Init, CommittedOn
  <1>2. threads[t].seq = 0 /\ threads[t].state = "void"
    BY DEF Init, VoidSnapshot
  <1>3. Cardinality(CommittedOn(t)) = 0
    BY <1>1, FS_EmptySet
  <1>4. QED
    BY <1>1, <1>2, <1>3 DEF Numbered, Chained

\* A thread whose envelopes and sequence stay the same stays numbered and chained.
LEMMA HInvUntouched ==
    ASSUME NEW t \in Threads, Numbered(t), Chained(t), 
           threads'[t].seq = threads[t].seq, threads'[t].lastId = threads[t].lastId,
           threads'[t].state = "failed" => threads[t].state = "failed",
           CommittedOn(t)' = CommittedOn(t),
           threads[t].seq # 0 \/ threads[t].state # "failed",
           \A i \in CommittedOn(t) : envelopes'[i] = envelopes[i]
    PROVE  Numbered(t)' /\ Chained(t)'
  <1>1. Numbered(t)'
    BY DEF Numbered
  <1>2. Chained(t)'
    BY DEF Chained
  <1>3. QED
    BY <1>1, <1>2

\* A commit takes the next number and hangs on the last envelope.
LEMMA HInvNext == IInv /\ HInv /\ [Next]_vars => HInv'
  <1> SUFFICES ASSUME IInv, HInv, [Next]_vars PROVE HInv'
    OBVIOUS
  <1>1. \A t \in Threads : threads[t].seq # 0 \/ threads[t].state # "failed"
    BY DEF IInv, SoundThread, SnapshotCoherent
  <1>2. ASSUME NEW e \in Candidates, Commit(e) PROVE HInv'
    <2> DEFINE u == e.thread
               s == threads[u]
               n == ApplyEnvelope(s, e)
    <2>1. /\ e \in Envelope /\ u \in Threads /\ e.id \in EnvelopeIds
          /\ s \in Snapshot
          /\ envelopes[e.id] = None
          /\ CausalityHolds(e, s, envelopes) /\ ClockHolds(e, s) /\ TransitionAllowed(e, s)
          /\ threads'[u] = n
          /\ \A t \in Threads : t # u => threads'[t] = threads[t]
          /\ envelopes'[e.id] = e
          /\ \A i \in EnvelopeIds : i # e.id => envelopes'[i] = envelopes[i]
      BY <1>2, CommitStep
    <2>2. e # None /\ e.seq \in Nat /\ s.seq \in Nat /\ e.seq = s.seq + 1
          /\ e.parents \subseteq EnvelopeIds
      BY <2>1, EnvelopeFields, NoneAssumption DEF Snapshot, ClockHolds
    <2>3. ASSUME NEW t \in Threads, t # u PROVE Numbered(t)' /\ Chained(t)'
      <3>1. CommittedOn(t)' = CommittedOn(t)
        BY <2>1, <2>3 DEF CommittedOn
      <3>2. \A i \in CommittedOn(t) : envelopes'[i] = envelopes[i]
        BY <2>1 DEF CommittedOn
      <3>3. QED
        BY <1>1, <2>1, <2>3, <3>1, <3>2, HInvUntouched DEF HInv
    <2>4. CommittedOn(u)' = CommittedOn(u) \cup {e.id} /\ e.id \notin CommittedOn(u)
      BY <2>1, <2>2 DEF CommittedOn
    <2>5. \A i \in CommittedOn(u) : envelopes'[i] = envelopes[i] /\ i \in EnvelopeIds
      BY <2>1 DEF CommittedOn
    <2>6. /\ n.seq = e.seq /\ n.lastId = e.id
          /\ n.state = "failed" => e.type = "fail"
      <3>1. e.type \in MoveTypes
        BY <2>1, EnvelopeFields
      <3>2. StampedBy(n, s, e)
        BY <2>1, AllowedMoves, MoveEffect
      <3>3. ASSUME e.type # "fail" PROVE n.state # "failed"
        BY <2>1, <3>1, <3>3, AllowedMoves, MoveEffect DEF ParkedOrRun, MoveTypes
      <3>4. QED
        BY <3>2, <3>3 DEF StampedBy
    <2> HIDE DEF n
    <2>7. Numbered(u)'
      <3>1. IsFiniteSet(CommittedOn(u))
        BY IdsAssumption, FS_Subset DEF CommittedOn
      <3>2. Cardinality(CommittedOn(u)') = Cardinality(CommittedOn(u)) + 1
        BY <2>4, <3>1, FS_AddElement
      <3>3. \A i \in CommittedOn(u) : envelopes[i].seq <= s.seq /\ envelopes[i].seq \in Nat
        BY <2>1, EnvelopeFields DEF HInv, Numbered, CommittedOn, IInv, TypeOK
      <3>4. \A i \in CommittedOn(u)' : envelopes'[i].seq <= n.seq
        BY <2>1, <2>2, <2>4, <2>5, <2>6, <3>3
      <3>5. n.seq = Cardinality(CommittedOn(u)')
        BY <2>1, <2>2, <2>6, <3>2 DEF HInv, Numbered
      <3>6. QED
        BY <2>1, <2>4, <2>6, <3>4, <3>5 DEF Numbered
    <2>8. Chained(u)'
      <3>1. \A i \in CommittedOn(u) : \A p \in envelopes[i].parents : p \in CommittedOn(u)
        BY <2>1 DEF HInv, Chained
      <3>2. ASSUME NEW i \in CommittedOn(u)
            PROVE  /\ \A p \in envelopes'[i].parents :
                         p \in CommittedOn(u)' /\ envelopes'[p].seq < envelopes'[i].seq
                   /\ envelopes'[i].seq > 1 =>
                         \E p \in envelopes'[i].parents : envelopes'[p].seq = envelopes'[i].seq - 1
        BY <2>1, <2>4, <2>5, <3>1 DEF HInv, Chained
      <3>3. \A p \in e.parents : p \in CommittedOn(u)
        BY <2>1, <2>2 DEF CausalityHolds, CommittedOn
      <3>4. \A p \in CommittedOn(u) : envelopes[p].seq < e.seq
        <4>1. \A p \in CommittedOn(u) : envelopes[p].seq <= s.seq /\ envelopes[p].seq \in Nat
          BY <2>1, EnvelopeFields DEF HInv, Numbered, CommittedOn, IInv, TypeOK
        <4>2. QED
          BY <2>2, <4>1
      <3>5. ASSUME e.seq > 1 PROVE \E p \in e.parents : envelopes'[p].seq = e.seq - 1
        <4>1. s.seq # 0
          BY <2>2, <3>5
        <4>2. s.lastId \in e.parents
          BY <2>1, <4>1 DEF CausalityHolds
        <4>3. envelopes'[s.lastId].seq = s.seq
          BY <2>1, <2>5, <3>3, <4>1, <4>2 DEF HInv, Numbered
        <4>4. QED
          BY <2>2, <4>2, <4>3
      <3>6. QED
        BY <2>1, <2>4, <2>5, <3>2, <3>3, <3>4, <3>5 DEF Chained
    <2>9. QED
      BY <2>3, <2>7, <2>8 DEF HInv
  <1>3. ASSUME NEW u \in Threads, NEW now \in Clocks, ObserveClock(u, now) PROVE HInv'
    <2> SUFFICES ASSUME NEW t \in Threads PROVE Numbered(t)' /\ Chained(t)'
      BY DEF HInv
    <2>1. /\ threads'[t].seq = threads[t].seq /\ threads'[t].lastId = threads[t].lastId
          /\ threads'[t].state = "failed" => threads[t].state = "failed"
      BY <1>3, ObserveStep, TimeoutEffect
    <2>2. envelopes' = envelopes
      BY <1>3, ObserveStep
    <2>3. CommittedOn(t)' = CommittedOn(t)
      BY <2>2 DEF CommittedOn
    <2>4. QED
      BY <1>1, <2>1, <2>2, <2>3, HInvUntouched DEF HInv
  <1>4. CASE UNCHANGED vars
    BY <1>4 DEF vars, HInv, Numbered, Chained, CommittedOn
  <1>5. QED
    BY <1>2, <1>3, <1>4 DEF Next

\* HInv is an invariant.
THEOREM HistoryHolds == Spec => []HInv
  BY InvHolds, HInvInit, HInvNext, PTL DEF Spec

\* seq counts the committed envelopes of a thread without a gap, timeouts aside.
THEOREM SequenceGapless == Spec => []SeqGapless
  <1>1. HInv => SeqGapless
    BY DEF HInv, Numbered, SeqGapless
  <1>2. QED
    BY <1>1, HistoryHolds, PTL

\* Happens-before on a thread is one unbroken chain of committed envelopes.
THEOREM ParentsAlwaysChain == Spec => []ParentsChain
  <1>1. HInv => ParentsChain
    BY DEF HInv, Chained, ParentsChain
  <1>2. QED
    BY <1>1, HistoryHolds, PTL
=============================================================================
