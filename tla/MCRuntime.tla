----------------------------- MODULE MCRuntime -----------------------------
(***************************************************************************)
(* TLC's instances of Runtime: one busy thread, and scripts of a few envelopes   *)
(* whose orders of submission bring out the races.                          *)
(***************************************************************************)
EXTENDS Runtime, TLC

CONSTANTS opener, worker, thread, other

MCPrincipals == {opener, worker}
MCThreads == {thread, other}
MCClocks == {0, 2}

Move(i, type, seq, now, signer) ==
    [id |-> i, thread |-> thread, type |-> type,
     parents |-> IF seq = 1 THEN {} ELSE {1}, seq |-> seq, now |-> now,
     signer |-> signer, approver |-> None, target |-> None, of |-> None, deadline |-> None]

\* Opens the thread with a deadline that the clock value 2 has passed.
Open1 == [Move(1, "delegate", 1, 0, opener) EXCEPT !.target = worker, !.deadline = 1]

\* Legal only once the timeout is recorded.
Resume2 == Move(2, "resume", 2, 2, worker)

\* Legal while the thread runs, but its own clock passes the deadline.
Late3 == [Move(3, "handoff", 2, 2, worker) EXCEPT !.target = opener]

\* Another thread of the same journal.
Other2 == [Open1 EXCEPT !.id = 2, !.thread = other, !.deadline = None]

\* An opening without deadline, and a move that no void thread allows; whichever
\* is second has lost the sequence number.
Plain1 == [Open1 EXCEPT !.deadline = None]
Refused2 == [Move(2, "resume", 1, 0, worker) EXCEPT !.deadline = 2]

SettleScript == {Plain1, Refused2}
LostScript == {Open1, Other2}
ResumeScript == {Open1, Resume2}
TimeoutScript == {Open1, Resume2, Late3}

OneToOne == [i \in EnvelopeIds |-> {i}]
Shared == [i \in EnvelopeIds |-> IF i = 2 THEN {1, 2} ELSE {i}]

Symmetry == Permutations(Views)
=============================================================================
