----------------------------- MODULE Transcript -----------------------------
(***************************************************************************)
(* export_transcript of conformance/legatus.py: what a view shows of one    *)
(* thread.  The transcript is a function of two things read one after the   *)
(* other, the view's snapshot and the records it has observed; export takes *)
(* no lock, so TranscriptRace lets a call come between them.                *)
(*                                                                         *)
(* The caller's action and receipt references are appended after a          *)
(* membership test and change nothing else; they are left out, and so are   *)
(* the limits on the numbers of links and timeouts.                         *)
(***************************************************************************)
EXTENDS Runtime

TimeoutsOf(rs, t) == {n \in DOMAIN rs : rs[n].kind = "timeout" /\ rs[n].thread = t}

RequestLink(r) == [role |-> "request", envelope |-> r.envelope.id]

MoveLink(r) ==
    [role |-> "move", envelope |-> r.envelope.id, type |-> r.envelope.type,
     seq |-> r.envelope.seq, signer |-> r.envelope.signer, auth |-> r.auth]

ApprovalLink(r) ==
    [role |-> "approval", envelope |-> r.envelope.id, of |-> r.envelope.of,
     approver |-> r.envelope.signer]

LinksOf(r) == IF r.envelope.type = "approve" THEN <<MoveLink(r), ApprovalLink(r)>> ELSE <<MoveLink(r)>>

ClockEvent(n, r) == [position |-> n, afterSeq |-> r.afterSeq, now |-> r.now, deadline |-> r.deadline]

\* The last cancel among the records at the positions moves, when the snapshot
\* is cancelled.
StopOf(s, rs, moves) ==
    IF s.state # "cancelled" THEN None
    ELSE rs[Max({n \in moves : rs[n].envelope.type = "cancel"})].envelope.id

\* for record in envelope_records: links.append(...)
MoveLinks(t, rs) ==
    FlattenSeq([n \in DOMAIN rs |-> IF n \in EnvelopesOf(rs, t) THEN LinksOf(rs[n]) ELSE <<>>])

ClockEvents(t, rs) ==
    FlattenSeq([n \in DOMAIN rs |-> IF n \in TimeoutsOf(rs, t) THEN <<ClockEvent(n, rs[n])>> ELSE <<>>])

\* The transcript of thread t made from snapshot s and records rs.
TranscriptOf(t, s, rs) ==
    LET moves == EnvelopesOf(rs, t)
    IN  [thread |-> t, seqThrough |-> s.seq,
         journalThrough |-> Max(moves \cup TimeoutsOf(rs, t)),
         now |-> s.now, state |-> s.state, floor |-> s.floor, principal |-> s.principal,
         pending |-> PendingId(s), stop |-> StopOf(s, rs, moves),
         clockEvents |-> ClockEvents(t, rs),
         links |-> <<RequestLink(rs[Min(moves)])>> \o MoveLinks(t, rs)]

\* Faulty: the whole journal is shown beside the view's snapshot.
ShownUnobserved(v) == records

\* self.store.records[:self._known_position]
Shown(v) == SubSeq(records, 1, known[v])

Exportable(v, t) == Up(v) /\ cache[v].threads[t].state # "void"

Export(v, t) == TranscriptOf(t, cache[v].threads[t], Shown(v))

-----------------------------------------------------------------------------
(* Properties.                                                              *)

Linked(x, role) == {k \in DOMAIN x.links : x.links[k].role = role}

\* The transcript shows snapshot s.
ShowsSnapshot(x, s) ==
    <<x.state, x.floor, x.principal, x.now, x.pending, x.seqThrough>> =
      <<s.state, s.floor, s.principal, s.now, PendingId(s), s.seq>>

\* The move links are the envelopes at the positions journaled of rs, in the
\* order of their numbers and without a gap, each with the authorization it is
\* journaled under.
ShowsMoves(x, rs, journaled) ==
    LET moves == Linked(x, "move")
    IN  /\ \A i, j \in moves : i < j => x.links[i].seq < x.links[j].seq
        /\ {x.links[k].seq : k \in moves} = 1..x.seqThrough
        /\ {<<x.links[k].envelope, x.links[k].seq, x.links[k].auth>> : k \in moves} =
             {<<rs[n].envelope.id, rs[n].envelope.seq, rs[n].auth>> : n \in journaled}

\* Approval link k answers the gate of envelope gated, asked of its signer by an
\* earlier move link than its own.
Answers(x, k, gated) ==
    /\ gated.id = x.links[k].of /\ gated.approver = x.links[k].approver
    /\ \E i, j \in Linked(x, "move") :
         /\ i < j /\ j < k
         /\ x.links[i].envelope = gated.id /\ x.links[j].envelope = x.links[k].envelope

ShowsApprovals(x, rs, journaled) ==
    \A k \in Linked(x, "approval") : \E n \in journaled : Answers(x, k, rs[n].envelope)

\* The clock events are the timeouts, each between the moves it fell between.
ShowsTimeouts(x, journaled, timeouts) ==
    /\ {x.clockEvents[k].position : k \in DOMAIN x.clockEvents} = timeouts
    /\ \A k \in DOMAIN x.clockEvents :
         LET event == x.clockEvents[k]
         IN  /\ event.afterSeq = Cardinality({n \in journaled : n < event.position})
             /\ event.now > event.deadline

\* A cancelled thread names its cancel, which is the last move.
ShowsStop(x, s) ==
    /\ x.stop # None <=> s.state = "cancelled"
    /\ x.stop # None =>
         \E k \in Linked(x, "move") : x.links[k].envelope = x.stop /\ x.links[k].seq = x.seqThrough

\* Transcript x tells what the journal rs, cut at x.journalThrough, says of the
\* thread: the snapshot is the fold of that prefix, and move links, approvals,
\* clock events and stop are those of its records (spec/05, sections 1 and 3).
TellsJournal(x, rs) ==
    LET prefix == SubSeq(rs, 1, x.journalThrough)
        s == Replay(prefix).threads[x.thread]
        journaled == EnvelopesOf(prefix, x.thread)
    IN  /\ ShowsSnapshot(x, s)
        /\ ShowsMoves(x, prefix, journaled)
        /\ ShowsApprovals(x, prefix, journaled)
        /\ ShowsTimeouts(x, journaled, TimeoutsOf(prefix, x.thread))
        /\ ShowsStop(x, s)

\* A transcript exported between two calls of its view tells the journal, even
\* from a view that is behind: it is then the transcript of an earlier moment.
TranscriptFaithful ==
    \A v \in Views, t \in Threads :
        Exportable(v, t) /\ call[v].step # "pin" => TellsJournal(Export(v, t), records)
=============================================================================
