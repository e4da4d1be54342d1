----------------------------- MODULE MCThreads -----------------------------
(***************************************************************************)
(* TLC's instance of Coordination and EnvelopeCheck for two threads that    *)
(* draw on one set of envelope identifiers: candidates with the parents of  *)
(* the other thread, forks, stale parents, clocks and sequence numbers, and *)
(* reused ids, by the floor, by an earlier floor and by outsiders.          *)
(***************************************************************************)
EXTENDS EnvelopeCheck, TLC

CONSTANTS MaxSeq, Worker, Opener

MCClocks == {2}

SmallSubsets(S) == UNION {kSubset(k, S) : k \in 0..2}

Form(i, t, ps, n, m) ==
    [id |-> i, thread |-> t, type |-> m[1], parents |-> ps, seq |-> n, now |-> m[3],
     signer |-> m[2], approver |-> m[5],
     target |-> IF m[1] = "delegate" THEN Worker ELSE IF m[1] = "handoff" THEN Opener ELSE None,
     of |-> None, deadline |-> m[4]]

\* Type, signer, clock, deadline and approver.
Submissions ==
    {<<"delegate", Opener, 0, None, None>>, <<"delegate", Opener, 0, 1, Worker>>,
     <<"handoff", Worker, 0, 1, None>>, <<"handoff", Worker, 2, None, Opener>>,
     <<"resume", Worker, 2, None, None>>, <<"resume", Opener, 2, None, Worker>>,
     <<"fail", Worker, 0, None, None>>, <<"cancel", Opener, 2, None, None>>}

Chained ==
    {Form(i, t, ps, n, m) :
        i \in EnvelopeIds, t \in Threads, ps \in SmallSubsets(EnvelopeIds),
        n \in 1..MaxSeq, m \in Submissions}

\* An approve or a retry, of whatever envelope.
Answering ==
    {[Form(i, t, {o}, n, <<m, p, 2, None, None>>) EXCEPT !.of = o] :
        i \in EnvelopeIds, o \in EnvelopeIds, t \in Threads, n \in 2..MaxSeq,
        m \in {"approve", "retry"}, p \in {Opener, Worker}}

MCCandidates == Chained \cup Answering

Present(e, faults, answer, now) == [envelope |-> e, faults |-> faults, answer |-> answer, now |-> now]

\* Every candidate, well formed and proved, with and without a caller's clock;
\* and a few with faults of shape or proof.
Faultless == {Present(e, {}, "allow", now) : e \in MCCandidates, now \in {None, 2}}

Faulty ==
    {Present(e, faults, answer, None) :
        e \in {c \in MCCandidates : c.type = "fail" /\ Cardinality(c.parents) < 2},
        faults \in {{}, {"no_sig"}, {"signer", "payload"}, {"payload"}, {"header", "type"}, {"type", "sig"}},
        answer \in {"allow", "bad_signature"}}

MCPresented == Faultless \cup Faulty

Symmetry == Permutations(EnvelopeIds) \cup Permutations(Threads)
=============================================================================
