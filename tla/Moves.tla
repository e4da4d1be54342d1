------------------------------- MODULE Moves -------------------------------
(***************************************************************************)
(* The pure part of conformance/legatus.py: the envelope and snapshot       *)
(* records, the legality checks a candidate must pass, and the effect of a  *)
(* committed envelope or of a timeout record on one thread's snapshot.      *)
(*                                                                         *)
(* Data abstraction.  Identifiers and principals are members of sets.  An   *)
(* envelope carries the fields the checks read; the proof, task_ref, ts,    *)
(* note and stop codes are left out.  The payload members assignee (of      *)
(* delegate and retry) and to (of handoff) share the field target, and      *)
(* gate = true is "approver is present", which validate_envelope enforces.  *)
(***************************************************************************)
EXTENDS Integers

CONSTANTS
    Principals,     \* PCP principal URNs
    EnvelopeIds,    \* envelope identifiers
    Threads,        \* thread identifiers
    None            \* Python's None

MoveTypes == {"delegate", "handoff", "approve", "fail", "retry", "cancel", "resume"}

ThreadStates == {"void", "running", "awaiting_approve", "paused", "failed", "cancelled"}

Envelope ==
    [id       : EnvelopeIds,
     thread   : Threads,
     type     : MoveTypes,
     parents  : SUBSET EnvelopeIds,
     seq      : Nat \ {0},
     now      : Nat,
     signer   : Principals,
     approver : Principals \cup {None},
     target   : Principals \cup {None},
     of       : EnvelopeIds \cup {None},
     deadline : Nat \cup {None}]

Gated(e) == e.approver # None

\* The payload branch of validate_envelope: required and allowed members.
WellFormed(e) ==
    /\ e.type \in {"delegate", "handoff"} => e.target # None
    /\ e.type \notin {"delegate", "handoff", "retry"} => e.target = None
    /\ e.type \in {"approve", "retry"} => e.of # None
    /\ e.type \in {"delegate", "handoff"} => e.of = None
    /\ e.type \in {"approve", "fail", "cancel"} => ~Gated(e) /\ e.deadline = None

Snapshot ==
    [state          : ThreadStates,
     principal      : Principals \cup {None},
     floor          : Principals \cup {None},
     pending        : Envelope \cup {None},
     seq            : Nat,
     now            : Nat,
     deadline       : Nat \cup {None},
     lastId         : EnvelopeIds \cup {None},
     lastAssignee   : Principals \cup {None},
     previousFloors : SUBSET Principals]

VoidSnapshot ==
    [state |-> "void", principal |-> None, floor |-> None, pending |-> None,
     seq |-> 0, now |-> 0, deadline |-> None, lastId |-> None,
     lastAssignee |-> None, previousFloors |-> {}]

\* None stands outside every set it completes.
ASSUME NoneAssumption ==
    /\ None \notin Principals
    /\ None \notin EnvelopeIds
    /\ None \notin Threads
    /\ None \notin Nat
    /\ None \notin Envelope

-----------------------------------------------------------------------------
(* The checks.  envelopes[i] is the envelope committed under i, or None.    *)

\* Faulty: any committed parents of the thread will do.
CausalityOfAnyParent(e, s, envelopes) ==
    /\ \A p \in e.parents : envelopes[p] # None /\ envelopes[p].thread = e.thread
    /\ s.seq = 0 <=> e.parents = {}

\* _check_causality_and_clock, the parents: all committed on this thread, the
\* last committed one among them, and none at all for an opening envelope.
CausalityHolds(e, s, envelopes) ==
    /\ \A p \in e.parents : envelopes[p] # None => envelopes[p].thread = e.thread
    /\ s.seq = 0 => e.parents = {}
    /\ s.seq # 0 => /\ \A p \in e.parents : envelopes[p] # None
                    /\ s.lastId \in e.parents

\* _check_causality_and_clock, the clock.
ClockHolds(e, s) ==
    /\ e.seq = s.seq + 1
    /\ e.now >= s.now
    /\ e.deadline # None => e.deadline >= e.now

\* Who may sign a move on an open thread.
Entitled(e, s) ==
    CASE e.type = "approve"            -> s.pending # None /\ e.signer = s.pending.approver
      [] e.type \in {"fail", "cancel"} -> e.signer \in {s.floor, s.principal}
      [] e.type = "retry"              -> e.signer = s.principal
      [] OTHER                         -> e.signer = s.floor

\* Faulty: the opener can retry a cancelled thread.
LegalMovesReopening ==
    [void             |-> {"delegate"},
     running          |-> {"handoff", "fail", "cancel"},
     awaiting_approve |-> {"approve", "fail", "cancel"},
     paused           |-> {"resume", "fail", "cancel"},
     failed           |-> {"retry", "cancel"},
     cancelled        |-> {"retry"}]

LegalMoves ==
    [void             |-> {"delegate"},
     running          |-> {"handoff", "fail", "cancel"},
     awaiting_approve |-> {"approve", "fail", "cancel"},
     paused           |-> {"resume", "fail", "cancel"},
     failed           |-> {"retry", "cancel"},
     cancelled        |-> {}]

\* _check_signer_and_transition: no failure code is returned.
TransitionAllowed(e, s) ==
    /\ s.state # "void" => Entitled(e, s)
    /\ e.type \in LegalMoves[s.state]
    /\ e.type = "approve" => e.of = s.pending.id
    /\ e.type = "resume" => s.pending = None \/ ~Gated(e)
    /\ e.type = "retry" => e.of = s.lastId

-----------------------------------------------------------------------------
(* The effect of a committed envelope, move by move (_apply_envelope).      *)

Later(m, n) == IF m >= n THEN m ELSE n

\* The part every move shares.
Stamped(s, e) == [s EXCEPT !.seq = e.seq, !.now = Later(@, e.now), !.lastId = e.id]

\* Every floor handed on is remembered as a previous floor.
FloorPassedTo(s, p) ==
    [s EXCEPT !.floor = p,
              !.previousFloors = IF s.floor = None THEN @ ELSE @ \cup {s.floor}]

Parked(s, e) == [s EXCEPT !.pending = e, !.state = "awaiting_approve", !.deadline = e.deadline]

Running(s, deadline) == [s EXCEPT !.pending = None, !.state = "running", !.deadline = deadline]

\* payload.get("assignee", last_assignee).
NamedAssignee(s, e) == IF e.target = None THEN s.lastAssignee ELSE e.target

Delegated(s, e) ==
    LET opened == [s EXCEPT !.principal = e.signer, !.lastAssignee = e.target]
    IN  IF Gated(e) THEN Parked([opened EXCEPT !.floor = e.signer], e)
                    ELSE Running([opened EXCEPT !.floor = e.target], e.deadline)

\* Faulty: a gated handoff moves the floor when it is proposed.
HandedOffAtProposal(s, e) ==
    IF Gated(e) THEN Parked(FloorPassedTo(s, e.target), e)
                ELSE Running(FloorPassedTo(s, e.target), e.deadline)

HandedOff(s, e) ==
    IF Gated(e) THEN Parked(s, e) ELSE Running(FloorPassedTo(s, e.target), e.deadline)

Approved(s) ==
    LET p == s.pending
    IN  Running(CASE p.type = "delegate" -> [s EXCEPT !.floor = p.target]
                  [] p.type = "handoff"  -> FloorPassedTo(s, p.target)
                  [] p.type = "retry"    -> [s EXCEPT !.floor = NamedAssignee(s, p)]
                  [] OTHER               -> s,
                s.deadline)

\* Faulty: a fail leaves the gate in place.
FailedKeepingGate(s) == [s EXCEPT !.state = "failed", !.deadline = None]

Failed(s) == [s EXCEPT !.pending = None, !.state = "failed", !.deadline = None]

\* Faulty: a gated retry moves the floor when it is proposed.
RetriedAtProposal(s, e) ==
    LET named == [s EXCEPT !.lastAssignee = NamedAssignee(s, e), !.floor = NamedAssignee(s, e)]
    IN  IF Gated(e) THEN Parked(named, e) ELSE Running(named, e.deadline)

Retried(s, e) ==
    LET named == [s EXCEPT !.lastAssignee = NamedAssignee(s, e)]
    IN  IF Gated(e) THEN Parked(named, e)
                    ELSE Running([named EXCEPT !.floor = named.lastAssignee], e.deadline)

\* Faulty: the floor is remembered after it was dropped.
CancelledRemembering(s) ==
    [s EXCEPT !.pending = None, !.floor = None, !.state = "cancelled", !.deadline = None,
              !.previousFloors = @ \cup {None}]

Cancelled(s) ==
    [s EXCEPT !.pending = None, !.floor = None, !.state = "cancelled", !.deadline = None]

\* Faulty: an ungated resume drops the frozen gate.
ResumedDroppingGate(s, e) == IF Gated(e) THEN Parked(s, e) ELSE Running(s, e.deadline)

\* A frozen gate thaws into the same pending move.
Resumed(s, e) ==
    IF s.pending # None
      THEN [s EXCEPT !.state = "awaiting_approve", !.deadline = e.deadline]
      ELSE IF Gated(e) THEN Parked(s, e) ELSE Running(s, e.deadline)

ApplyEnvelope(s, e) ==
    LET t == Stamped(s, e)
    IN  CASE e.type = "delegate" -> Delegated(t, e)
          [] e.type = "handoff"  -> HandedOff(t, e)
          [] e.type = "approve"  -> Approved(t)
          [] e.type = "fail"     -> Failed(t)
          [] e.type = "retry"    -> Retried(t, e)
          [] e.type = "cancel"   -> Cancelled(t)
          [] e.type = "resume"   -> Resumed(t, e)

-----------------------------------------------------------------------------
(* Timeouts.                                                                *)

\* The early returns of advance_now.
TimeoutDue(s, now) ==
    /\ s.state \in {"running", "awaiting_approve"}
    /\ s.deadline # None
    /\ now > s.deadline

\* Faulty: a timeout counts as an envelope.
ApplyTimeoutCounted(s, now) ==
    [s EXCEPT !.state = "paused", !.now = Later(@, now), !.seq = @ + 1]

\* _apply_timeout: the floor, the gate, the deadline and seq stay.
ApplyTimeout(s, now) == [s EXCEPT !.state = "paused", !.now = Later(@, now)]
=============================================================================
