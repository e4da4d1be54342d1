----------------------------- MODULE MCProfile -----------------------------
(***************************************************************************)
(* TLC's instance of ExecutionProfile: a thread whose floor changes hands   *)
(* by a gated handoff, and the same thread overdue.                         *)
(***************************************************************************)
EXTENDS ExecutionProfile, Transcript

CONSTANTS opener, worker, thread

MCPrincipals == {opener, worker}
MCThreads == {thread}
MCClocks == {0, 2}

Open1 ==
    [id |-> 1, thread |-> thread, type |-> "delegate", parents |-> {}, seq |-> 1, now |-> 0,
     signer |-> opener, approver |-> None, target |-> worker, of |-> None, deadline |-> 1]

\* The worker proposes to hand the floor back, and the opener approves.
Gated2 ==
    [id |-> 2, thread |-> thread, type |-> "handoff", parents |-> {1}, seq |-> 2, now |-> 0,
     signer |-> worker, approver |-> opener, target |-> opener, of |-> None, deadline |-> None]

Approve3 ==
    [id |-> 3, thread |-> thread, type |-> "approve", parents |-> {2}, seq |-> 3, now |-> 0,
     signer |-> opener, approver |-> None, target |-> None, of |-> 2, deadline |-> None]

\* The opener stops the thread instead; the identifier is the same.
Cancel2 ==
    [id |-> 2, thread |-> thread, type |-> "cancel", parents |-> {1}, seq |-> 2, now |-> 0,
     signer |-> opener, approver |-> None, target |-> None, of |-> None, deadline |-> None]

MCCandidates == {Open1, Gated2, Cancel2, Approve3}

MCTaskOf == [i \in EnvelopeIds |-> IF i = 1 THEN "task" ELSE None]

OneToOne == [i \in EnvelopeIds |-> {i}]

Symmetry == Permutations(Views)
=============================================================================
