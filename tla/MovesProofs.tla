----------------------------- MODULE MovesProofs -----------------------------
(***************************************************************************)
(* What the moves of Moves do to a snapshot, field by field, for every      *)
(* snapshot and envelope.  CoordinationProofs and RuntimeProofs build on it, *)
(* and all proofs that count positions or moves on its two facts about      *)
(* numbers: induction, and that a set of numbers has a least one.           *)
(***************************************************************************)
EXTENDS Moves, FiniteSetTheorems, TLAPS

-----------------------------------------------------------------------------
(* Numbers.                                                                 *)

\* A set of numbers with 0 that is closed under successor holds every number:
\* otherwise n |-> n + 1 would map its part below the missing one, a finite
\* set, one to one to that part without 0.
LEMMA NumberInduction ==
    ASSUME NEW S \in SUBSET Nat, 0 \in S, \A n \in S : n + 1 \in S, NEW k \in Nat
    PROVE  k \in S
  <1>1. SUFFICES ASSUME k \notin S PROVE FALSE
    OBVIOUS
  <1> DEFINE T == {n \in 0..k : n \in S}
             f == [n \in T |-> n + 1]
  <1>2. IsFiniteSet(T)
    <2>1. IsFiniteSet(0..k)
      BY FS_Interval
    <2>2. T \in SUBSET (0..k)
      OBVIOUS
    <2>3. QED
      BY <2>1, <2>2, FS_Subset
  <1>3. 0 \in T
    OBVIOUS
  <1>4. /\ IsFiniteSet(T \ {0})
        /\ Cardinality(T \ {0}) = Cardinality(T) - 1
        /\ Cardinality(T) \in Nat
    <2> HIDE DEF T
    <2>1. QED
      BY <1>2, <1>3, FS_RemoveElement, FS_CardinalityType
  <1>5. f \in [T -> T \ {0}]
    BY <1>1
  <1>6. \E x, y \in T : x # y /\ f[x] = f[y]
    <2> HIDE DEF T, f
    <2>1. Cardinality(T \ {0}) < Cardinality(T)
      BY <1>4
    <2>2. QED
      BY <1>2, <1>4, <1>5, <2>1, FS_PigeonHole
  <1>7. QED
    BY <1>6

\* A set of numbers has a least one.
LEMMA LeastNumber ==
    ASSUME NEW S \in SUBSET Nat, S # {}
    PROVE  \E x \in S : \A y \in S : x <= y
  <1> DEFINE U == {k \in Nat : (\E x \in S : x <= k) => \E x \in S : \A y \in S : x <= y}
  <1>1. 0 \in U
    OBVIOUS
  <1>2. ASSUME NEW k \in U PROVE k + 1 \in U
    <2>1. CASE \E x \in S : x <= k
      BY <2>1
    <2>2. CASE ~(\E x \in S : x <= k)
      <3>1. \A x \in S : k + 1 <= x
        BY <2>2
      <3>2. QED
        BY <3>1
    <2>3. QED
      BY <2>1, <2>2
  <1>3. U \in SUBSET Nat
    OBVIOUS
  <1>4. PICK k \in S : k \in Nat
    OBVIOUS
  <1>5. k \in U
    <2> HIDE DEF U
    <2>1. QED
      BY <1>1, <1>2, <1>3, <1>4, NumberInduction
  <1>6. QED
    BY <1>4, <1>5

-----------------------------------------------------------------------------
(* The moves.                                                               *)

\* The types of the fields, without the size of the record set.
LEMMA EnvelopeFields ==
    ASSUME NEW e \in Envelope
    PROVE  /\ e.id \in EnvelopeIds /\ e.thread \in Threads /\ e.type \in MoveTypes
           /\ e.parents \subseteq EnvelopeIds
           /\ e.seq \in Nat \ {0} /\ e.now \in Nat /\ e.signer \in Principals
           /\ e.approver \in Principals \cup {None} /\ e.target \in Principals \cup {None}
           /\ e.deadline \in Nat \cup {None}
  BY DEF Envelope

\* A gated move waits with its own deadline and moves nobody.
LEMMA ParkedEffect ==
    ASSUME NEW s \in Snapshot, NEW e \in Envelope
    PROVE  LET n == Parked(s, e) IN
           /\ n \in Snapshot
           /\ n.pending = e /\ n.state = "awaiting_approve" /\ n.deadline = e.deadline
           /\ n.principal = s.principal /\ n.floor = s.floor /\ n.lastAssignee = s.lastAssignee
           /\ n.seq = s.seq /\ n.now = s.now /\ n.lastId = s.lastId
  BY EnvelopeFields DEF Parked, Snapshot, ThreadStates

\* A thread set running has no gate left.
LEMMA RunningEffect ==
    ASSUME NEW s \in Snapshot, NEW d \in Nat \cup {None}
    PROVE  LET n == Running(s, d) IN
           /\ n \in Snapshot
           /\ n.pending = None /\ n.state = "running" /\ n.deadline = d
           /\ n.principal = s.principal /\ n.floor = s.floor /\ n.lastAssignee = s.lastAssignee
           /\ n.seq = s.seq /\ n.now = s.now /\ n.lastId = s.lastId
  BY DEF Running, Snapshot, ThreadStates

\* A floor handed on changes the floor and the previous floors only.
LEMMA PassedEffect ==
    ASSUME NEW s \in Snapshot, NEW p \in Principals \cup {None}
    PROVE  LET n == FloorPassedTo(s, p) IN
           /\ n \in Snapshot
           /\ n.pending = s.pending /\ n.state = s.state /\ n.deadline = s.deadline
           /\ n.principal = s.principal /\ n.floor = p /\ n.lastAssignee = s.lastAssignee
           /\ n.seq = s.seq /\ n.now = s.now /\ n.lastId = s.lastId
  BY DEF FloorPassedTo, Snapshot

\* Every move advances seq, the clock and last_id, and nothing else by that.
LEMMA StampedEffect ==
    ASSUME NEW s \in Snapshot, NEW e \in Envelope
    PROVE  LET n == Stamped(s, e) IN
           /\ n \in Snapshot
           /\ n.pending = s.pending /\ n.state = s.state /\ n.deadline = s.deadline
           /\ n.principal = s.principal /\ n.floor = s.floor /\ n.lastAssignee = s.lastAssignee
           /\ n.seq = e.seq /\ n.now = Later(s.now, e.now) /\ n.lastId = e.id
  <1>1. e.seq \in Nat /\ e.now \in Nat /\ e.id \in EnvelopeIds
    BY EnvelopeFields
  <1>2. s.now \in Nat
    BY DEF Snapshot
  <1> DEFINE latest == Later(s.now, e.now)
  <1>3. latest \in Nat
    BY <1>1, <1>2 DEF Later
  <1>4. Stamped(s, e) = [s EXCEPT !.seq = e.seq, !.now = latest, !.lastId = e.id]
    BY DEF Stamped, Snapshot
  <1> HIDE DEF latest
  <1>5. LET n == Stamped(s, e) IN
        /\ n \in Snapshot
        /\ n.pending = s.pending /\ n.state = s.state /\ n.deadline = s.deadline
        /\ n.principal = s.principal /\ n.floor = s.floor /\ n.lastAssignee = s.lastAssignee
        /\ n.seq = e.seq /\ n.now = latest /\ n.lastId = e.id
    BY <1>1, <1>3, <1>4 DEF Snapshot
  <1>6. QED
    BY <1>5 DEF latest

\* seq, the clock and last_id are set once, by Stamped.
SameStamp(n, s) == n.seq = s.seq /\ n.now = s.now /\ n.lastId = s.lastId

\* The opening move: the floor waits with the opener behind a gate.
LEMMA DelegatedEffect ==
    ASSUME NEW s \in Snapshot, NEW e \in Envelope
    PROVE  LET n == Delegated(s, e) IN
           /\ n \in Snapshot /\ SameStamp(n, s)
           /\ n.principal = e.signer /\ n.lastAssignee = e.target
           /\ n.deadline = e.deadline
           /\ IF Gated(e) THEN n.state = "awaiting_approve" /\ n.pending = e /\ n.floor = e.signer
                          ELSE n.state = "running" /\ n.pending = None /\ n.floor = e.target
  <1> DEFINE g == [s EXCEPT !.principal = e.signer, !.lastAssignee = e.target, !.floor = e.signer]
             u == [s EXCEPT !.principal = e.signer, !.lastAssignee = e.target, !.floor = e.target]
  <1>1. /\ g \in Snapshot /\ SameStamp(g, s)
        /\ g.principal = e.signer /\ g.lastAssignee = e.target /\ g.floor = e.signer
    BY EnvelopeFields DEF Snapshot, SameStamp
  <1>2. /\ u \in Snapshot /\ SameStamp(u, s)
        /\ u.principal = e.signer /\ u.lastAssignee = e.target /\ u.floor = e.target
    BY EnvelopeFields DEF Snapshot, SameStamp
  <1>3. Delegated(s, e) = IF Gated(e) THEN Parked(g, e) ELSE Running(u, e.deadline)
    BY DEF Delegated, Snapshot
  <1> HIDE DEF g, u
  <1>4. CASE Gated(e)
    BY <1>1, <1>3, <1>4, ParkedEffect DEF SameStamp
  <1>5. CASE ~Gated(e)
    <2> DEFINE n == Delegated(s, e)
    <2>1. n = Running(u, e.deadline) /\ e.deadline \in Nat \cup {None}
      BY <1>3, <1>5, EnvelopeFields
    <2> HIDE DEF n
    <2>2. /\ n \in Snapshot /\ SameStamp(n, s)
          /\ n.principal = e.signer /\ n.lastAssignee = e.target /\ n.floor = e.target
          /\ n.deadline = e.deadline /\ n.state = "running" /\ n.pending = None
      BY <1>2, <2>1, RunningEffect DEF SameStamp
    <2>3. QED
      BY <1>5, <2>2 DEF n
  <1>6. QED
    BY <1>4, <1>5

\* A handoff moves the floor only when no gate holds it.
LEMMA HandedOffEffect ==
    ASSUME NEW s \in Snapshot, NEW e \in Envelope
    PROVE  LET n == HandedOff(s, e) IN
           /\ n \in Snapshot /\ SameStamp(n, s)
           /\ n.principal = s.principal /\ n.lastAssignee = s.lastAssignee
           /\ n.deadline = e.deadline
           /\ IF Gated(e) THEN n.state = "awaiting_approve" /\ n.pending = e /\ n.floor = s.floor
                          ELSE n.state = "running" /\ n.pending = None /\ n.floor = e.target
  <1>1. CASE Gated(e)
    BY <1>1, ParkedEffect DEF HandedOff, SameStamp
  <1>2. CASE ~Gated(e)
    <2>1. e.deadline \in Nat \cup {None} /\ e.target \in Principals \cup {None}
      BY EnvelopeFields
    <2> DEFINE h == FloorPassedTo(s, e.target)
               n == HandedOff(s, e)
    <2>2. n = Running(h, e.deadline)
      BY <1>2 DEF HandedOff
    <2>3. /\ h \in Snapshot /\ SameStamp(h, s) /\ h.floor = e.target
          /\ h.principal = s.principal /\ h.lastAssignee = s.lastAssignee
      BY <2>1, PassedEffect DEF SameStamp
    <2> HIDE DEF h, n
    <2>4. /\ n \in Snapshot /\ SameStamp(n, s) /\ n.floor = e.target
          /\ n.principal = s.principal /\ n.lastAssignee = s.lastAssignee
          /\ n.deadline = e.deadline /\ n.state = "running" /\ n.pending = None
      BY <2>1, <2>2, <2>3, RunningEffect DEF SameStamp
    <2>5. QED
      BY <1>2, <2>4 DEF n
  <1>3. QED
    BY <1>1, <1>2

\* A retry names its assignee at once and gives the floor when no gate holds it.
LEMMA RetriedEffect ==
    ASSUME NEW s \in Snapshot, NEW e \in Envelope
    PROVE  LET n == Retried(s, e) IN
           /\ n \in Snapshot /\ SameStamp(n, s)
           /\ n.principal = s.principal /\ n.lastAssignee = NamedAssignee(s, e)
           /\ n.deadline = e.deadline
           /\ IF Gated(e) THEN n.state = "awaiting_approve" /\ n.pending = e /\ n.floor = s.floor
                          ELSE n.state = "running" /\ n.pending = None /\ n.floor = NamedAssignee(s, e)
  <1> DEFINE a == NamedAssignee(s, e)
             g == [s EXCEPT !.lastAssignee = a]
             u == [g EXCEPT !.floor = g.lastAssignee]
  <1>1. a \in Principals \cup {None}
    BY EnvelopeFields DEF NamedAssignee, Snapshot
  <1> HIDE DEF a
  <1>2. /\ g \in Snapshot /\ SameStamp(g, s)
        /\ g.principal = s.principal /\ g.lastAssignee = a /\ g.floor = s.floor
    BY <1>1 DEF Snapshot, SameStamp
  <1>3. /\ u \in Snapshot /\ SameStamp(u, s)
        /\ u.principal = s.principal /\ u.lastAssignee = a /\ u.floor = a
    BY <1>1 DEF Snapshot, SameStamp
  <1>4. Retried(s, e) = IF Gated(e) THEN Parked(g, e) ELSE Running(u, e.deadline)
    BY DEF Retried, a
  <1> HIDE DEF g, u
  <1>5. CASE Gated(e)
    BY <1>2, <1>4, <1>5, ParkedEffect DEF SameStamp, a
  <1>6. CASE ~Gated(e)
    <2> DEFINE n == Retried(s, e)
    <2>1. n = Running(u, e.deadline) /\ e.deadline \in Nat \cup {None}
      BY <1>4, <1>6, EnvelopeFields
    <2> HIDE DEF n
    <2>2. /\ n \in Snapshot /\ SameStamp(n, s)
          /\ n.principal = s.principal /\ n.lastAssignee = a /\ n.floor = a
          /\ n.deadline = e.deadline /\ n.state = "running" /\ n.pending = None
      BY <1>3, <2>1, RunningEffect DEF SameStamp
    <2>3. QED
      BY <1>6, <2>2 DEF n, a
  <1>7. QED
    BY <1>5, <1>6

\* An approval gives the floor to whom the parked move named; resume keeps it.
LEMMA ApprovedEffect ==
    ASSUME NEW s \in Snapshot, s.pending # None
    PROVE  LET n == Approved(s) IN
           /\ n \in Snapshot /\ SameStamp(n, s)
           /\ n.principal = s.principal /\ n.lastAssignee = s.lastAssignee
           /\ n.deadline = s.deadline /\ n.state = "running" /\ n.pending = None
           /\ n.floor = CASE s.pending.type \in {"delegate", "handoff"} -> s.pending.target
                          [] s.pending.type = "retry" -> NamedAssignee(s, s.pending)
                          [] OTHER -> s.floor
  <1> DEFINE p == s.pending
             a == NamedAssignee(s, p)
  <1>1. p \in Envelope /\ s.deadline \in Nat \cup {None}
    BY DEF Snapshot
  <1>2. p.type \in MoveTypes /\ p.target \in Principals \cup {None} /\ a \in Principals \cup {None}
    BY <1>1, EnvelopeFields DEF NamedAssignee, Snapshot
  <1> HIDE DEF a
  <1>3. CASE p.type = "handoff"
    BY <1>1, <1>2, <1>3, RunningEffect, PassedEffect DEF Approved, SameStamp
  <1>4. CASE p.type \in {"delegate", "retry"}
    <2> DEFINE f == IF p.type = "delegate" THEN p.target ELSE a
               u == [s EXCEPT !.floor = f]
    <2>1. f \in Principals \cup {None}
      BY <1>2
    <2> HIDE DEF f
    <2>2. /\ u \in Snapshot /\ SameStamp(u, s) /\ u.floor = f
          /\ u.principal = s.principal /\ u.lastAssignee = s.lastAssignee
      BY <2>1 DEF Snapshot, SameStamp
    <2>3. Approved(s) = Running(u, s.deadline)
      BY <1>4 DEF Approved, f, a
    <2> HIDE DEF u
    <2>4. QED
      BY <1>1, <1>4, <2>2, <2>3, RunningEffect DEF SameStamp, f, a
  <1>5. CASE p.type \notin {"delegate", "handoff", "retry"}
    BY <1>1, <1>5, RunningEffect DEF Approved, SameStamp
  <1>6. QED
    BY <1>3, <1>4, <1>5

\* A fail keeps the floor and drops the gate.
LEMMA FailedEffect ==
    ASSUME NEW s \in Snapshot
    PROVE  LET n == Failed(s) IN
           /\ n \in Snapshot /\ SameStamp(n, s)
           /\ n.principal = s.principal /\ n.lastAssignee = s.lastAssignee
           /\ n.floor = s.floor /\ n.state = "failed" /\ n.pending = None
  BY DEF Failed, Snapshot, SameStamp, ThreadStates

\* A cancel drops floor and gate.
LEMMA CancelledEffect ==
    ASSUME NEW s \in Snapshot
    PROVE  LET n == Cancelled(s) IN
           /\ n \in Snapshot /\ SameStamp(n, s)
           /\ n.principal = s.principal /\ n.lastAssignee = s.lastAssignee
           /\ n.floor = None /\ n.state = "cancelled" /\ n.pending = None
  BY DEF Cancelled, Snapshot, SameStamp, ThreadStates

\* A resume thaws the frozen gate, or parks or runs.
LEMMA ResumedEffect ==
    ASSUME NEW s \in Snapshot, NEW e \in Envelope
    PROVE  LET n == Resumed(s, e) IN
           /\ n \in Snapshot /\ SameStamp(n, s)
           /\ n.principal = s.principal /\ n.lastAssignee = s.lastAssignee
           /\ n.floor = s.floor /\ n.deadline = e.deadline
           /\ IF s.pending # None THEN n.state = "awaiting_approve" /\ n.pending = s.pending
              ELSE IF Gated(e) THEN n.state = "awaiting_approve" /\ n.pending = e
              ELSE n.state = "running" /\ n.pending = None
  <1>1. CASE s.pending # None
    BY <1>1, EnvelopeFields DEF Resumed, Snapshot, SameStamp, ThreadStates
  <1>2. CASE s.pending = None
    BY <1>2, ParkedEffect, RunningEffect, EnvelopeFields DEF Resumed, SameStamp
  <1>3. QED
    BY <1>1, <1>2

\* A timeout changes the state and the clock only.
LEMMA TimeoutEffect ==
    ASSUME NEW s \in Snapshot, NEW now \in Nat
    PROVE  LET n == ApplyTimeout(s, now) IN
           /\ n \in Snapshot /\ n.seq = s.seq /\ n.now = Later(s.now, now) /\ n.lastId = s.lastId
           /\ n.principal = s.principal /\ n.lastAssignee = s.lastAssignee /\ n.floor = s.floor
           /\ n.state = "paused" /\ n.pending = s.pending /\ n.deadline = s.deadline
  BY DEF ApplyTimeout, Later, Snapshot, ThreadStates

\* A thread nobody has opened is a snapshot.
LEMMA VoidSnapshotType == VoidSnapshot \in Snapshot
  BY NoneAssumption DEF VoidSnapshot, Snapshot, ThreadStates

-----------------------------------------------------------------------------
(* Which moves are legal, and what they do.                                 *)

\* What _check_signer_and_transition lets through, state by state.
LEMMA AllowedMoves ==
    ASSUME NEW s \in Snapshot, NEW e \in Envelope, TransitionAllowed(e, s)
    PROVE  /\ s.state # "cancelled"
           /\ e.type = "delegate" <=> s.state = "void"
           /\ e.type = "handoff" => s.state = "running" /\ e.signer = s.floor
           /\ e.type = "approve" => /\ s.state = "awaiting_approve" /\ s.pending # None
                                    /\ e.signer = s.pending.approver /\ e.of = s.pending.id
           /\ e.type \in {"fail", "cancel"} => e.signer \in {s.floor, s.principal}
           /\ e.type = "retry" => s.state = "failed" /\ e.signer = s.principal
           /\ e.type = "resume" => s.state = "paused" /\ e.signer = s.floor
  <1>1. e.type \in LegalMoves[s.state] /\ s.state \in ThreadStates /\ e.type \in MoveTypes
    BY DEF TransitionAllowed, Snapshot, Envelope
  <1>2. CASE s.state = "void"
    BY <1>1, <1>2 DEF LegalMoves, MoveTypes
  <1>3. CASE s.state # "void"
    <2>1. Entitled(e, s)
      BY <1>3 DEF TransitionAllowed
    <2>2. /\ s.state # "cancelled" /\ e.type # "delegate"
          /\ e.type = "handoff" => s.state = "running"
          /\ e.type = "approve" => s.state = "awaiting_approve"
          /\ e.type = "retry" => s.state = "failed"
          /\ e.type = "resume" => s.state = "paused"
      BY <1>1, <1>3 DEF LegalMoves, ThreadStates
    <2>3. QED
      BY <1>1, <1>3, <2>1, <2>2 DEF Entitled, TransitionAllowed, MoveTypes
  <1>4. QED
    BY <1>2, <1>3

\* The fields that depend on little more than the kind of move.
StampedBy(n, s, e) ==
    /\ n.seq = e.seq /\ n.lastId = e.id /\ n.now = Later(s.now, e.now)
    /\ e.type # "delegate" => n.principal = s.principal
    /\ e.type \notin {"delegate", "retry"} => n.lastAssignee = s.lastAssignee
    /\ e.type \notin {"approve", "fail", "cancel"} => n.deadline = e.deadline

\* The gate decides: parked with the floor of before, or running with the one of after.
ParkedOrRun(n, e, before, after) ==
    IF Gated(e) THEN n.state = "awaiting_approve" /\ n.pending = e /\ n.floor = before
                ELSE n.state = "running" /\ n.pending = None /\ n.floor = after

\* _apply_envelope, field by field, in terms of the snapshot before.
LEMMA MoveEffect ==
    ASSUME NEW s \in Snapshot, NEW e \in Envelope, e.type = "approve" => s.pending # None
    PROVE  LET n == ApplyEnvelope(s, e) IN
           /\ n \in Snapshot
           /\ StampedBy(n, s, e)
           /\ e.type = "delegate" => /\ n.principal = e.signer /\ n.lastAssignee = e.target
                                     /\ ParkedOrRun(n, e, e.signer, e.target)
           /\ e.type = "handoff" => ParkedOrRun(n, e, s.floor, e.target)
           /\ e.type = "retry" => /\ n.lastAssignee = NamedAssignee(s, e)
                                  /\ ParkedOrRun(n, e, s.floor, NamedAssignee(s, e))
           /\ e.type = "approve" =>
                /\ n.deadline = s.deadline /\ n.state = "running" /\ n.pending = None
                /\ n.floor = CASE s.pending.type \in {"delegate", "handoff"} -> s.pending.target
                               [] s.pending.type = "retry" -> NamedAssignee(s, s.pending)
                               [] OTHER -> s.floor
           /\ e.type = "fail" => n.state = "failed" /\ n.pending = None /\ n.floor = s.floor
           /\ e.type = "cancel" => n.state = "cancelled" /\ n.pending = None /\ n.floor = None
           /\ e.type = "resume" =>
                IF s.pending # None
                  THEN n.state = "awaiting_approve" /\ n.pending = s.pending /\ n.floor = s.floor
                  ELSE ParkedOrRun(n, e, s.floor, s.floor)
  <1> DEFINE t == Stamped(s, e)
             n == ApplyEnvelope(s, e)
  <1>1. /\ t \in Snapshot
        /\ t.pending = s.pending /\ t.state = s.state /\ t.deadline = s.deadline
        /\ t.principal = s.principal /\ t.floor = s.floor /\ t.lastAssignee = s.lastAssignee
        /\ t.seq = e.seq /\ t.now = Later(s.now, e.now) /\ t.lastId = e.id
    BY StampedEffect
  <1>2. e.type \in MoveTypes
    BY DEF Envelope
  <1>3. /\ e.type = "delegate" => n = Delegated(t, e)
        /\ e.type = "handoff" => n = HandedOff(t, e)
        /\ e.type = "approve" => n = Approved(t)
        /\ e.type = "fail" => n = Failed(t)
        /\ e.type = "retry" => n = Retried(t, e)
        /\ e.type = "cancel" => n = Cancelled(t)
        /\ e.type = "resume" => n = Resumed(t, e)
    BY DEF ApplyEnvelope
  <1>4. \A p : NamedAssignee(t, p) = NamedAssignee(s, p)
    BY <1>1 DEF NamedAssignee
  <1> HIDE DEF t, n
  <1>5. CASE e.type = "delegate"
    BY <1>1, <1>3, <1>5, DelegatedEffect DEF StampedBy, ParkedOrRun, SameStamp, n
  <1>6. CASE e.type = "handoff"
    BY <1>1, <1>3, <1>6, HandedOffEffect DEF StampedBy, ParkedOrRun, SameStamp, n
  <1>7. CASE e.type = "approve"
    BY <1>1, <1>3, <1>4, <1>7, ApprovedEffect DEF StampedBy, SameStamp, n
  <1>8. CASE e.type = "fail"
    BY <1>1, <1>3, <1>8, FailedEffect DEF StampedBy, SameStamp, n
  <1>9. CASE e.type = "retry"
    BY <1>1, <1>3, <1>4, <1>9, RetriedEffect DEF StampedBy, ParkedOrRun, SameStamp, n
  <1>10. CASE e.type = "cancel"
    BY <1>1, <1>3, <1>10, CancelledEffect DEF StampedBy, SameStamp, n
  <1>11. CASE e.type = "resume"
    BY <1>1, <1>3, <1>11, ResumedEffect DEF StampedBy, ParkedOrRun, SameStamp, n
  <1>12. QED
    BY <1>2, <1>5, <1>6, <1>7, <1>8, <1>9, <1>10, <1>11 DEF MoveTypes
=============================================================================
