--------------------------- MODULE MCCoordination ---------------------------
(***************************************************************************)
(* TLC's instance of Coordination for one thread and every move.  The       *)
(* identifiers are 1..MaxSeq and can be used in that order only; envelope n *)
(* names n-1 as its parent and n-1 or n-2 in "of".                          *)
(***************************************************************************)
EXTENDS Coordination

CONSTANTS MaxSeq, MaxNow, Opener, Approver

MCEnvelopeIds == 1..MaxSeq
MCClocks == 0..MaxNow

Base(t, i, n, p) ==
    [id |-> i, thread |-> t, type |-> "cancel", parents |-> {i - 1} \cap MCEnvelopeIds,
     seq |-> i, now |-> n, signer |-> p, approver |-> None, target |-> None,
     of |-> None, deadline |-> None]

Bases == {Base(t, i, n, p) : t \in Threads, i \in MCEnvelopeIds, n \in MCClocks, p \in Principals}

\* The deadline is absent or one tick away, the gate absent or Approver's.
Timed(es) == es \cup {[e EXCEPT !.deadline = e.now + 1] : e \in es}

WithGate(es) == es \cup {[e EXCEPT !.approver = Approver] : e \in es}

Earlier(b) == {b.id - 1, b.id - 2} \cap MCEnvelopeIds

Opening(b) ==
    IF b.signer = Opener
      THEN {[b EXCEPT !.type = "delegate", !.target = a] : a \in Principals \ {Opener}}
      ELSE {}

Following(b) ==
    {[b EXCEPT !.type = "handoff", !.target = a] : a \in Principals}
    \cup {[b EXCEPT !.type = "resume"]}
    \cup {[b EXCEPT !.type = "retry", !.of = o, !.target = a] :
            o \in Earlier(b), a \in {None} \cup (Principals \ {Opener})}

Answers(b) ==
    {[b EXCEPT !.type = m] : m \in {"fail", "cancel"}}
    \cup {[b EXCEPT !.type = "approve", !.of = o] : o \in Earlier(b)}

MCCandidates ==
    UNION {IF b.id = 1 THEN WithGate(Timed(Opening(b)))
                       ELSE WithGate(Timed(Following(b))) \cup Answers(b) : b \in Bases}

\* What the next step can depend on, with the type of each thread's last
\* envelope for SeqGapless.
MCView ==
    <<threads, {i \in EnvelopeIds : envelopes[i] # None},
      [t \in Threads |-> IF threads[t].lastId = None THEN None
                         ELSE envelopes[threads[t].lastId].type]>>
=============================================================================
