---------------------------- MODULE Coordination ----------------------------
(***************************************************************************)
(* What the journal promises: every thread is a sequential machine that     *)
(* takes one legal envelope or one timeout at a time.  There are no         *)
(* writers, views or reservations here; Runtime implements this             *)
(* specification, its threads being the fold of the journal.                *)
(***************************************************************************)
EXTENDS Moves, FiniteSets

CONSTANTS
    Candidates,     \* the envelopes anybody may submit
    Clocks          \* the values an authoritative clock may report

ASSUME IdsAssumption == IsFiniteSet(EnvelopeIds)

ASSUME CandidatesAssumption == Candidates \subseteq {e \in Envelope : WellFormed(e)}

ASSUME ClocksAssumption == Clocks \subseteq Nat

VARIABLES
    threads,        \* Runtime.threads: the snapshot of each thread
    envelopes       \* Runtime.envelopes: the committed envelope of each id

vars == <<threads, envelopes>>

Init ==
    /\ threads = [t \in Threads |-> VoidSnapshot]
    /\ envelopes = [i \in EnvelopeIds |-> None]

-----------------------------------------------------------------------------

\* Faulty: the candidate's own clock is not held against the deadline.
AcceptableWhenLate(e) ==
    LET s == threads[e.thread]
    IN  /\ envelopes[e.id] = None
        /\ CausalityHolds(e, s, envelopes)
        /\ ClockHolds(e, s)
        /\ TransitionAllowed(e, s)

\* The checks submit makes on a candidate, all of them on the same snapshot.
\* A candidate whose clock passes the deadline does not commit from an active
\* state: the timeout is recorded first and the checks are made again.
Acceptable(e) ==
    LET s == threads[e.thread]
    IN  /\ envelopes[e.id] = None
        /\ CausalityHolds(e, s, envelopes)
        /\ ClockHolds(e, s)
        /\ TransitionAllowed(e, s)
        /\ ~TimeoutDue(s, e.now)

\* One envelope record.
Commit(e) ==
    /\ Acceptable(e)
    /\ threads' = [threads EXCEPT ![e.thread] = ApplyEnvelope(@, e)]
    /\ envelopes' = [envelopes EXCEPT ![e.id] = e]

\* One timeout record.
ObserveClock(t, now) ==
    /\ TimeoutDue(threads[t], now)
    /\ threads' = [threads EXCEPT ![t] = ApplyTimeout(@, now)]
    /\ UNCHANGED envelopes

Next ==
    \/ \E e \in Candidates : Commit(e)
    \/ \E t \in Threads, now \in Clocks : ObserveClock(t, now)

Spec == Init /\ [][Next]_vars

-----------------------------------------------------------------------------
(* Properties.                                                              *)

\* Snapshots and the index of committed envelopes have their types (the
\* Snapshot dataclass and the envelopes dictionary).
TypeOK ==
    /\ threads \in [Threads -> Snapshot]
    /\ envelopes \in [EnvelopeIds -> Envelope \cup {None}]

\* A thread waits on a gate exactly when a gated move is parked, a parked move
\* outlives only a timeout, an open thread always has somebody who may move
\* it and a cancelled one nobody (_check_signer_and_transition and
\* _apply_envelope index pending, floor and last_assignee untested).
SnapshotCoherent(s) ==
    /\ s.state = "void" <=> s.seq = 0
    /\ s.state = "void" => s = VoidSnapshot
    /\ s.state = "awaiting_approve" => s.pending # None
    /\ s.pending # None => s.state \in {"awaiting_approve", "paused"}
    /\ s.state # "void" => s.principal # None /\ s.lastAssignee # None /\ s.lastId # None
    /\ s.state # "void" => (s.floor = None <=> s.state = "cancelled")

ThreadsCoherent == \A t \in Threads : SnapshotCoherent(threads[t])

\* A parked move is a journaled gated move of its own thread, and when the
\* approver answers its proposer still has the authority it was proposed under,
\* whatever timeouts and resumes came between: the opener for delegate and
\* retry, the floor for handoff and resume (_apply_envelope of an approve
\* checks none of this again).
ProposerHolds(t) ==
    LET s == threads[t]
        p == s.pending
    IN  p # None =>
            /\ p.thread = t /\ Gated(p) /\ envelopes[p.id] = p
            /\ \/ p.type \in {"delegate", "retry"} /\ p.signer = s.principal
               \/ p.type \in {"handoff", "resume"} /\ p.signer = s.floor

ProposersHold == \A t \in Threads : ProposerHolds(t)

\* No envelope slips past a deadline: a thread whose stored clock is past its
\* deadline is never running or awaiting approval (spec/03, section 4).
NoOverdueThread ==
    \A t \in Threads : ~TimeoutDue(threads[t], threads[t].now)

\* The envelope sequence is gapless, timeouts not counted: seq is the number of
\* committed envelopes of the thread and the last of them carries it; a
\* thread is failed only right after a fail, which a retry therefore names
\* (spec/01, sections 5 and 7; the code compares "of" with last_id).
CommittedOn(t) == {i \in EnvelopeIds : envelopes[i] # None /\ envelopes[i].thread = t}

SeqGapless ==
    \A t \in Threads :
        LET s == threads[t]
        IN  /\ s.seq = Cardinality(CommittedOn(t))
            /\ s.seq # 0 => s.lastId \in CommittedOn(t) /\ envelopes[s.lastId].seq = s.seq
            /\ s.state = "failed" => envelopes[s.lastId].type = "fail"

\* Happens-before is one chain per thread: every parent of a committed envelope
\* is an earlier envelope of the same thread, and the envelope before it is
\* among them (spec/01, section 8).
ParentsChain ==
    \A t \in Threads : \A i \in CommittedOn(t) :
        LET e == envelopes[i]
        IN  /\ \A p \in e.parents : p \in CommittedOn(t) /\ envelopes[p].seq < e.seq
            /\ e.seq > 1 => \E p \in e.parents : envelopes[p].seq = e.seq - 1

\* The envelope that a step commits on thread t, when it commits one there.
Commits(t) == threads'[t].seq # threads[t].seq

JustCommitted(t) == envelopes'[threads'[t].lastId]

\* A gate is dropped only by the approval of its approver, or by a fail or a
\* cancel of the floor or the opener; a timeout and a resume keep it, and no
\* other gate replaces it (V-011 and V-011b).
GateAnswered(e, s) ==
    \/ e.type = "approve" /\ e.of = s.pending.id /\ e.signer = s.pending.approver
    \/ e.type \in {"fail", "cancel"} /\ e.signer \in {s.floor, s.principal}

GateNotDropped ==
    [][\A t \in Threads :
         threads[t].pending \notin {None, threads'[t].pending} =>
             /\ threads'[t].pending = None
             /\ Commits(t) /\ GateAnswered(JustCommitted(t), threads[t])]_vars

\* The floor of an open thread passes only by an ungated handoff signed by the
\* floor itself, by an ungated retry of the opener, by a cancel, or by the
\* approver of a parked move that names the new floor (spec/01, section 9).
FloorGranted(e, s, floor) ==
    \/ e.type = "handoff" /\ ~Gated(e) /\ e.signer = s.floor /\ floor = e.target
    \/ e.type = "retry" /\ ~Gated(e) /\ e.signer = s.principal /\ floor = NamedAssignee(s, e)
    \/ e.type = "cancel" /\ e.signer \in {s.floor, s.principal} /\ floor = None
    \/ /\ e.type = "approve" /\ e.signer = s.pending.approver
       /\ s.pending.type # "resume" /\ floor = NamedAssignee(s, s.pending)

FloorMovesByGrant ==
    [][\A t \in Threads :
         threads[t].state # "void" /\ threads'[t].floor # threads[t].floor =>
             Commits(t) /\ FloorGranted(JustCommitted(t), threads[t], threads'[t].floor)]_vars

\* Per step and thread: the clock never goes back, seq grows by at most one,
\* the opener of an open thread is never replaced, a cancelled thread stays as
\* it is, and a committed envelope is never replaced.
HistoryGrows ==
    [][/\ \A t \in Threads :
            LET s == threads[t]
                n == threads'[t]
            IN  /\ n.now >= s.now
                /\ n.seq \in {s.seq, s.seq + 1}
                /\ s.state # "void" => n.principal = s.principal
                /\ s.state = "cancelled" => n = s
       /\ \A i \in EnvelopeIds : envelopes[i] \in {None, envelopes'[i]}]_vars
=============================================================================
