--------------------------- MODULE EnvelopeProofs ---------------------------
(***************************************************************************)
(* Proofs about the answers of submit.  FirstMatch, which all sequences of  *)
(* checks go through, answers the first that fails; and the adapter admits  *)
(* what it should and nothing else.                                         *)
(***************************************************************************)
EXTENDS EnvelopeCheck, CoordinationProofs

-----------------------------------------------------------------------------
(* The first failing check.                                                 *)

\* The first check that fails answers.
LEMMA FirstHit ==
    ASSUME NEW checks, NEW n \in Nat, Len(checks) = n, NEW i \in 1..n, checks[i][1],
           \A j \in 1..n : j < i => ~checks[j][1]
    PROVE  FirstMatch(checks) = checks[i][2]
  <1> DEFINE I == {k \in 1..n : checks[k][1]}
  <1>1. i \in I /\ (\A k \in I : i <= k) /\ \A x \in I : (\A k \in I : x <= k) => x = i
    OBVIOUS
  <1> HIDE DEF I
  <1>2. Min(I) = i
    BY <1>1 DEF Min
  <1>3. SelectInSeq(checks, LAMBDA c : c[1]) = i
    BY <1>1, <1>2 DEF SelectInSeq, I
  <1>4. QED
    BY <1>3 DEF FirstMatch

\* None answers when no check fails.
LEMMA NoHit ==
    ASSUME NEW checks, NEW n \in Nat, Len(checks) = n, \A j \in 1..n : ~checks[j][1]
    PROVE  FirstMatch(checks) = None
  <1>1. {k \in 1..n : checks[k][1]} = {}
    OBVIOUS
  <1>2. SelectInSeq(checks, LAMBDA c : c[1]) = 0
    BY <1>1 DEF SelectInSeq
  <1>3. QED
    BY <1>2 DEF FirstMatch

\* Either some check fails, and the first that does answers, or none does.
LEMMA HitOrNone ==
    ASSUME NEW checks, NEW n \in Nat, Len(checks) = n
    PROVE  \/ \E i \in 1..n : /\ checks[i][1] /\ \A j \in 1..n : j < i => ~checks[j][1]
                             /\ FirstMatch(checks) = checks[i][2]
           \/ (\A i \in 1..n : ~checks[i][1]) /\ FirstMatch(checks) = None
  <1> DEFINE I == {k \in 1..n : checks[k][1]}
  <1>1. CASE I = {}
    <2>1. \A i \in 1..n : ~checks[i][1]
      BY <1>1
    <2>2. QED
      BY <2>1, NoHit
  <1>2. CASE I # {}
    <2>1. I \in SUBSET Nat
      OBVIOUS
    <2>2. \E i \in I : \A k \in I : i <= k
      <3> HIDE DEF I
      <3>1. QED
        BY <1>2, <2>1, LeastNumber
    <2>3. PICK i \in I : \A k \in I : i <= k
      BY <2>2
    <2>4. i \in 1..n /\ checks[i][1] /\ \A j \in 1..n : j < i => ~checks[j][1]
      BY <2>3
    <2>5. QED
      BY <2>4, FirstHit
  <1>3. QED
    BY <1>1, <1>2

\* Seven checks, as both checks against the thread have.
LEMMA FirstOfSeven ==
    ASSUME NEW p1, NEW p2, NEW p3, NEW p4, NEW p5, NEW p6, NEW p7,
           NEW v1, NEW v2, NEW v3, NEW v4, NEW v5, NEW v6, NEW v7
    PROVE  FirstMatch(<<<<p1, v1>>, <<p2, v2>>, <<p3, v3>>, <<p4, v4>>, <<p5, v5>>, <<p6, v6>>, <<p7, v7>>>>)
             = IF p1 THEN v1 ELSE IF p2 THEN v2 ELSE IF p3 THEN v3 ELSE IF p4 THEN v4
               ELSE IF p5 THEN v5 ELSE IF p6 THEN v6 ELSE IF p7 THEN v7 ELSE None
  <1> DEFINE checks == <<<<p1, v1>>, <<p2, v2>>, <<p3, v3>>, <<p4, v4>>, <<p5, v5>>, <<p6, v6>>, <<p7, v7>>>>
  <1>1. /\ Len(checks) = 7 /\ 7 \in Nat
        /\ checks[1] = <<p1, v1>> /\ checks[2] = <<p2, v2>> /\ checks[3] = <<p3, v3>> /\ checks[4] = <<p4, v4>>
        /\ checks[5] = <<p5, v5>> /\ checks[6] = <<p6, v6>> /\ checks[7] = <<p7, v7>>
    OBVIOUS
  <1> HIDE DEF checks
  <1>2. /\ checks[1][1] = p1 /\ checks[2][1] = p2 /\ checks[3][1] = p3 /\ checks[4][1] = p4
        /\ checks[5][1] = p5 /\ checks[6][1] = p6 /\ checks[7][1] = p7
        /\ checks[1][2] = v1 /\ checks[2][2] = v2 /\ checks[3][2] = v3 /\ checks[4][2] = v4
        /\ checks[5][2] = v5 /\ checks[6][2] = v6 /\ checks[7][2] = v7
    BY <1>1
  <1>3. \A j \in 1..7 : j = 1 \/ j = 2 \/ j = 3 \/ j = 4 \/ j = 5 \/ j = 6 \/ j = 7
    OBVIOUS
  <1>4. \/ \E i \in 1..7 : /\ checks[i][1] /\ \A j \in 1..7 : j < i => ~checks[j][1]
                         /\ FirstMatch(checks) = checks[i][2]
        \/ (\A i \in 1..7 : ~checks[i][1]) /\ FirstMatch(checks) = None
    BY <1>1, HitOrNone
  <1>5. QED
    BY <1>2, <1>3, <1>4 DEF checks

-----------------------------------------------------------------------------
(* The checks against the thread.                                           *)

\* _check_causality_and_clock answers with the first documented fault of the
\* parents and the clock.
LEMMA HistoryAnswers ==
    ASSUME NEW s \in Snapshot, NEW e \in Envelope
    PROVE  HistoryFailure(e, s) =
             IF \E p \in e.parents : OtherThread(p, e) THEN "THREAD_MISMATCH"
             ELSE IF s.seq # 0 /\ e.parents = {} THEN "MISSING_PARENT"
             ELSE IF ~CausalityHolds(e, s, envelopes) THEN "CAUSALITY"
             ELSE IF ~ClockHolds(e, s) THEN "CLOCK_SKEW"
             ELSE None
  <1> DEFINE p1 == \E p \in e.parents : OtherThread(p, e)
             p2 == s.seq = 0 /\ e.parents # {}
             p3 == s.seq # 0 /\ e.parents = {}
             p4 == s.seq # 0 /\ \E p \in e.parents : envelopes[p] = None
             p5 == s.seq # 0 /\ s.lastId \notin e.parents
             p6 == e.seq # s.seq + 1 \/ e.now < s.now
             p7 == e.deadline # None /\ e.deadline < e.now
             chain == IF p1 THEN "THREAD_MISMATCH" ELSE IF p2 THEN "CAUSALITY"
                      ELSE IF p3 THEN "MISSING_PARENT" ELSE IF p4 THEN "CAUSALITY"
                      ELSE IF p5 THEN "CAUSALITY" ELSE IF p6 THEN "CLOCK_SKEW"
                      ELSE IF p7 THEN "CLOCK_SKEW" ELSE None
  <1>1. HistoryFailure(e, s) =
          FirstMatch(<<<<p1, "THREAD_MISMATCH">>, <<p2, "CAUSALITY">>, <<p3, "MISSING_PARENT">>,
                       <<p4, "CAUSALITY">>, <<p5, "CAUSALITY">>, <<p6, "CLOCK_SKEW">>, <<p7, "CLOCK_SKEW">>>>)
    BY Zenon DEF HistoryFailure
  <1>2. ~p1 /\ ~p3 => (CausalityHolds(e, s, envelopes) <=> ~p2 /\ ~p4 /\ ~p5)
    BY DEF CausalityHolds, OtherThread
  <1>3. ClockHolds(e, s) <=> ~p6 /\ ~p7
    <2>1. /\ e.seq \in Nat /\ e.now \in Nat /\ e.deadline \in Nat \cup {None}
          /\ s.seq \in Nat /\ s.now \in Nat
      BY EnvelopeFields DEF Snapshot
    <2>2. QED
      BY <2>1, NoneAssumption DEF ClockHolds
  <1>4. p2 => ~p3
    OBVIOUS
  <1> HIDE DEF p1, p2, p3, p4, p5, p6, p7
  <1>5. HistoryFailure(e, s) = chain
    BY <1>1, FirstOfSeven
  <1> HIDE DEF chain
  <1>6. chain = IF p1 THEN "THREAD_MISMATCH" ELSE IF p3 THEN "MISSING_PARENT"
                ELSE IF ~CausalityHolds(e, s, envelopes) THEN "CAUSALITY"
                ELSE IF ~ClockHolds(e, s) THEN "CLOCK_SKEW" ELSE None
    BY <1>2, <1>3, <1>4 DEF chain
  <1>7. QED
    BY <1>5, <1>6 DEF p1, p3

\* _check_signer_and_transition answers with the first documented fault of the
\* signer and the move, and with none exactly when the transition is allowed.
LEMMA TransitionAnswers ==
    ASSUME NEW s \in Snapshot, NEW e \in Envelope
    PROVE  LET open == s.state # "void"
           IN  TransitionFailure(e, s) =
             IF s.state = "cancelled" THEN "ALREADY_TERMINAL"
             ELSE IF open /\ ~Entitled(e, s) /\ e.type = "approve" THEN "NOT_APPROVER"
             ELSE IF open /\ ~Entitled(e, s) /\ e.signer \in s.previousFloors THEN "STALE_FLOOR"
             ELSE IF open /\ ~Entitled(e, s) THEN "NO_FLOOR"
             ELSE IF \/ s.state = "awaiting_approve" /\ e.type \notin {"approve", "fail", "cancel"}
                     \/ s.state = "paused" /\ s.pending # None /\ e.type = "resume" /\ Gated(e)
               THEN "GATE_PENDING"
             ELSE IF ~TransitionAllowed(e, s) THEN "ILLEGAL_TRANSITION"
             ELSE None
  <1> DEFINE p1 == s.state = "cancelled"
             p2 == s.state # "void" /\ e.type = "approve" /\ ~Entitled(e, s)
             p3 == s.state # "void" /\ ~Entitled(e, s) /\ e.signer \in s.previousFloors
             p4 == s.state # "void" /\ ~Entitled(e, s)
             p5 == s.state = "awaiting_approve" /\ e.type \notin LegalMoves[s.state]
             p6 == s.state = "paused" /\ e.type = "resume" /\ s.pending # None /\ Gated(e)
             p7 == MisplacedMove(e, s)
             gate == \/ s.state = "awaiting_approve" /\ e.type \notin {"approve", "fail", "cancel"}
                     \/ s.state = "paused" /\ s.pending # None /\ e.type = "resume" /\ Gated(e)
             chain == IF p1 THEN "ALREADY_TERMINAL" ELSE IF p2 THEN "NOT_APPROVER"
                      ELSE IF p3 THEN "STALE_FLOOR" ELSE IF p4 THEN "NO_FLOOR"
                      ELSE IF p5 THEN "GATE_PENDING" ELSE IF p6 THEN "GATE_PENDING"
                      ELSE IF p7 THEN "ILLEGAL_TRANSITION" ELSE None
  <1>1. TransitionFailure(e, s) =
          FirstMatch(<<<<p1, "ALREADY_TERMINAL">>, <<p2, "NOT_APPROVER">>, <<p3, "STALE_FLOOR">>,
                       <<p4, "NO_FLOOR">>, <<p5, "GATE_PENDING">>, <<p6, "GATE_PENDING">>,
                       <<p7, "ILLEGAL_TRANSITION">>>>)
    BY Zenon DEF TransitionFailure
  <1>2. /\ p2 <=> s.state # "void" /\ ~Entitled(e, s) /\ e.type = "approve"
        /\ gate <=> p5 \/ p6
    BY DEF LegalMoves
  <1>3. ~p1 /\ ~p4 /\ ~p6 => (TransitionAllowed(e, s) <=> ~p7)
    <2>1. s.state \in ThreadStates
      BY DEF Snapshot
    <2>2. e.type = "resume" /\ e.type \in LegalMoves[s.state] => s.state = "paused"
      BY <2>1 DEF LegalMoves, ThreadStates
    <2>3. QED
      BY <2>2 DEF TransitionAllowed, MisplacedMove
  <1> HIDE DEF p1, p2, p3, p4, p5, p6, p7, gate
  <1>4. TransitionFailure(e, s) = chain
    BY <1>1, FirstOfSeven
  <1> HIDE DEF chain
  <1>5. chain = IF p1 THEN "ALREADY_TERMINAL" ELSE IF p2 THEN "NOT_APPROVER"
                ELSE IF p3 THEN "STALE_FLOOR" ELSE IF p4 THEN "NO_FLOOR"
                ELSE IF gate THEN "GATE_PENDING"
                ELSE IF ~TransitionAllowed(e, s) THEN "ILLEGAL_TRANSITION" ELSE None
    BY <1>2, <1>3 DEF chain
  <1>6. QED
    BY <1>2, <1>4, <1>5 DEF p1, p3, p4, gate

-----------------------------------------------------------------------------
(* The order that the documentation gives.                                  *)

\* The table is read from its first row down.
LEMMA FirstDocumented ==
    ASSUME NEW f
    PROVE  FirstMatch([n \in DOMAIN DocumentedOrder |-> <<f[DocumentedOrder[n]], DocumentedOrder[n]>>])
             = IF f["SCHEMA"] THEN "SCHEMA"
               ELSE IF f["UNKNOWN_TYPE"] THEN "UNKNOWN_TYPE"
               ELSE IF f["DUP_ID"] THEN "DUP_ID"
               ELSE IF f["THREAD_MISMATCH"] THEN "THREAD_MISMATCH"
               ELSE IF f["MISSING_PARENT"] THEN "MISSING_PARENT"
               ELSE IF f["CAUSALITY"] THEN "CAUSALITY"
               ELSE IF f["CLOCK_SKEW"] THEN "CLOCK_SKEW"
               ELSE IF f["SIG"] THEN "SIG"
               ELSE IF f["ALREADY_TERMINAL"] THEN "ALREADY_TERMINAL"
               ELSE IF f["NO_FLOOR"] THEN "NO_FLOOR"
               ELSE IF f["STALE_FLOOR"] THEN "STALE_FLOOR"
               ELSE IF f["NOT_APPROVER"] THEN "NOT_APPROVER"
               ELSE IF f["GATE_PENDING"] THEN "GATE_PENDING"
               ELSE IF f["ILLEGAL_TRANSITION"] THEN "ILLEGAL_TRANSITION"
               ELSE None
  <1> DEFINE order == DocumentedOrder
             checks == [n \in DOMAIN order |-> <<f[order[n]], order[n]>>]
  <1>1. DOMAIN order = 1..14
    BY DEF DocumentedOrder
  <1>2. /\ order[1] = "SCHEMA" /\ order[2] = "UNKNOWN_TYPE" /\ order[3] = "DUP_ID"
        /\ order[4] = "THREAD_MISMATCH" /\ order[5] = "MISSING_PARENT" /\ order[6] = "CAUSALITY"
        /\ order[7] = "CLOCK_SKEW" /\ order[8] = "SIG" /\ order[9] = "ALREADY_TERMINAL"
        /\ order[10] = "NO_FLOOR" /\ order[11] = "STALE_FLOOR" /\ order[12] = "NOT_APPROVER"
        /\ order[13] = "GATE_PENDING" /\ order[14] = "ILLEGAL_TRANSITION"
    BY DEF DocumentedOrder
  <1> HIDE DEF order
  <1>3. Len(checks) = 14 /\ \A i \in 1..14 : checks[i][1] = f[order[i]] /\ checks[i][2] = order[i]
    BY <1>1
  <1> HIDE DEF checks
  <1>4. \/ \E i \in 1..14 : /\ checks[i][1] /\ \A j \in 1..14 : j < i => ~checks[j][1]
                          /\ FirstMatch(checks) = checks[i][2]
        \/ (\A i \in 1..14 : ~checks[i][1]) /\ FirstMatch(checks) = None
    BY <1>3, HitOrNone
  <1>5. \/ \E i \in 1..14 : /\ f[order[i]] /\ \A j \in 1..14 : j < i => ~f[order[j]]
                          /\ FirstMatch(checks) = order[i]
        \/ (\A i \in 1..14 : ~f[order[i]]) /\ FirstMatch(checks) = None
    BY <1>3, <1>4
  <1>6. \A j \in 1..14 : j = 1 \/ j = 2 \/ j = 3 \/ j = 4 \/ j = 5 \/ j = 6 \/ j = 7
                         \/ j = 8 \/ j = 9 \/ j = 10 \/ j = 11 \/ j = 12 \/ j = 13 \/ j = 14
    OBVIOUS
  <1>7. QED
    BY <1>2, <1>5, <1>6 DEF checks, order

\* None is not one of the codes.
LEMMA DocumentedCodes ==
    /\ "SCHEMA" # None /\ "UNKNOWN_TYPE" # None
    /\ "DUP_ID" # None /\ "THREAD_MISMATCH" # None /\ "MISSING_PARENT" # None /\ "CAUSALITY" # None
    /\ "CLOCK_SKEW" # None /\ "SIG" # None /\ "ALREADY_TERMINAL" # None /\ "NO_FLOOR" # None
    /\ "STALE_FLOOR" # None /\ "NOT_APPROVER" # None /\ "GATE_PENDING" # None
    /\ "ILLEGAL_TRANSITION" # None
  <1>1. /\ DOMAIN DocumentedOrder = 1..14
        /\ DocumentedOrder[1] = "SCHEMA" /\ DocumentedOrder[2] = "UNKNOWN_TYPE"
        /\ DocumentedOrder[3] = "DUP_ID" /\ DocumentedOrder[4] = "THREAD_MISMATCH"
        /\ DocumentedOrder[5] = "MISSING_PARENT" /\ DocumentedOrder[6] = "CAUSALITY"
        /\ DocumentedOrder[7] = "CLOCK_SKEW" /\ DocumentedOrder[8] = "SIG"
        /\ DocumentedOrder[9] = "ALREADY_TERMINAL" /\ DocumentedOrder[10] = "NO_FLOOR"
        /\ DocumentedOrder[11] = "STALE_FLOOR" /\ DocumentedOrder[12] = "NOT_APPROVER"
        /\ DocumentedOrder[13] = "GATE_PENDING" /\ DocumentedOrder[14] = "ILLEGAL_TRANSITION"
    BY DEF DocumentedOrder
  <1>2. \A n \in 1..14 : DocumentedOrder[n] # None
    BY <1>1, CodesAssumption
  <1>3. QED
    BY <1>1, <1>2

\* A timeout changes neither who may move nor what came before.
LEMMA TimelyFacts ==
    ASSUME NEW s \in Snapshot, NEW now \in Nat \cup {None}
    PROVE  LET n == Timely(s, now) IN
           /\ n \in Snapshot
           /\ n.pending = s.pending /\ n.lastId = s.lastId
           /\ \A e : Entitled(e, n) <=> Entitled(e, s)
           /\ \/ n = s
              \/ n.state = "paused" /\ s.state \in {"running", "awaiting_approve"}
  <1>1. CASE now # None /\ TimeoutDue(s, now)
    <2> DEFINE n == ApplyTimeout(s, now)
    <2>1. /\ n \in Snapshot /\ n.pending = s.pending /\ n.lastId = s.lastId
          /\ n.floor = s.floor /\ n.principal = s.principal /\ n.state = "paused"
      BY <1>1, TimeoutEffect
    <2> HIDE DEF n
    <2>2. \A e : Entitled(e, n) <=> Entitled(e, s)
      BY <2>1 DEF Entitled
    <2>3. Timely(s, now) = n
      BY <1>1 DEF Timely, n
    <2>4. QED
      BY <1>1, <2>1, <2>2, <2>3 DEF TimeoutDue
  <1>2. CASE ~(now # None /\ TimeoutDue(s, now))
    <2> DEFINE n == Timely(s, now)
    <2>1. n = s
      BY <1>2 DEF Timely
    <2> HIDE DEF n
    <2>2. \A e : Entitled(e, n) <=> Entitled(e, s)
      BY <2>1, Zenon
    <2>3. n \in Snapshot /\ n.pending = s.pending /\ n.lastId = s.lastId
      BY <2>1
    <2>4. QED
      BY <2>1, <2>2, <2>3 DEF n
  <1>3. QED
    BY <1>1, <1>2

\* Judged before the candidate's own clock and after it, a transition is answered
\* with its first documented fault: the timeout adds no other fault than that
\* of the move itself.
LEMMA JudgmentAnswers ==
    ASSUME NEW s \in Snapshot, NEW e \in Envelope
    PROVE  LET outsider == s.state # "void" /\ ~Entitled(e, s)
           IN  Judgment(e, s) =
             IF s.state = "cancelled" THEN "ALREADY_TERMINAL"
             ELSE IF outsider /\ e.type = "approve" THEN "NOT_APPROVER"
             ELSE IF outsider /\ e.signer \in s.previousFloors THEN "STALE_FLOOR"
             ELSE IF outsider THEN "NO_FLOOR"
             ELSE IF \/ s.state = "awaiting_approve" /\ e.type \notin {"approve", "fail", "cancel"}
                     \/ s.state = "paused" /\ s.pending # None /\ e.type = "resume" /\ Gated(e)
               THEN "GATE_PENDING"
             ELSE IF ~TransitionAllowed(e, s) \/ ~TransitionAllowed(e, Timely(s, e.now))
               THEN "ILLEGAL_TRANSITION"
             ELSE None
  <1> DEFINE n == Timely(s, e.now)
             outsider == s.state # "void" /\ ~Entitled(e, s)
             gate == \/ s.state = "awaiting_approve" /\ e.type \notin {"approve", "fail", "cancel"}
                     \/ s.state = "paused" /\ s.pending # None /\ e.type = "resume" /\ Gated(e)
             first == TransitionFailure(e, s)
             second == TransitionFailure(e, n)
  <1>1. "ALREADY_TERMINAL" # None /\ "NOT_APPROVER" # None /\ "STALE_FLOOR" # None /\ "NO_FLOOR" # None
        /\ "GATE_PENDING" # None /\ "ILLEGAL_TRANSITION" # None
    BY DocumentedCodes
  <1>2. first = IF s.state = "cancelled" THEN "ALREADY_TERMINAL"
                ELSE IF outsider /\ e.type = "approve" THEN "NOT_APPROVER"
                ELSE IF outsider /\ e.signer \in s.previousFloors THEN "STALE_FLOOR"
                ELSE IF outsider THEN "NO_FLOOR"
                ELSE IF gate THEN "GATE_PENDING"
                ELSE IF ~TransitionAllowed(e, s) THEN "ILLEGAL_TRANSITION" ELSE None
    BY TransitionAnswers
  <1>3. e.now \in Nat \cup {None}
    BY EnvelopeFields
  <1>4. /\ n \in Snapshot /\ n.pending = s.pending /\ (Entitled(e, n) <=> Entitled(e, s))
        /\ \/ n = s
           \/ n.state = "paused" /\ s.state \in {"running", "awaiting_approve"}
    BY <1>3, TimelyFacts
  <1>5. Judgment(e, s) = IF first # None THEN first ELSE second
    BY DEF Judgment
  <1>6. ASSUME first = None
        PROVE  second = IF ~TransitionAllowed(e, n) THEN "ILLEGAL_TRANSITION" ELSE None
    <2>1. s.state # "cancelled" /\ ~outsider /\ ~gate /\ TransitionAllowed(e, s)
      BY <1>1, <1>2, <1>6
    <2>2. CASE n = s
      BY <1>6, <2>1, <2>2
    <2>3. CASE n.state = "paused" /\ s.state \in {"running", "awaiting_approve"}
      <3>1. e.type # "resume"
        BY <2>1, <2>3 DEF TransitionAllowed, LegalMoves
      <3>2. Entitled(e, n)
        BY <1>4, <2>1, <2>3
      <3> HIDE DEF n, second
      <3>3. TransitionFailure(e, n) = IF ~TransitionAllowed(e, n) THEN "ILLEGAL_TRANSITION" ELSE None
        BY <1>4, <2>3, <3>1, <3>2, TransitionAnswers
      <3>4. QED
        BY <3>3 DEF second
    <2>4. QED
      BY <1>4, <2>2, <2>3
  <1> HIDE DEF n, outsider, gate, first, second
  <1>7. Judgment(e, s) =
          IF s.state = "cancelled" THEN "ALREADY_TERMINAL"
          ELSE IF outsider /\ e.type = "approve" THEN "NOT_APPROVER"
          ELSE IF outsider /\ e.signer \in s.previousFloors THEN "STALE_FLOOR"
          ELSE IF outsider THEN "NO_FLOOR"
          ELSE IF gate THEN "GATE_PENDING"
          ELSE IF ~TransitionAllowed(e, s) \/ ~TransitionAllowed(e, n) THEN "ILLEGAL_TRANSITION" ELSE None
    BY <1>1, <1>2, <1>5, <1>6
  <1>8. QED
    BY <1>7 DEF n, outsider, gate

\* The documented faults of a candidate of the right shape, first to last.
LEMMA DocumentedAnswers ==
    ASSUME NEW c, c.faults = {}
    PROVE  LET e == c.envelope
               s == Timely(threads[e.thread], c.now)
               outsider == s.state # "void" /\ ~Entitled(e, s)
           IN  Documented(c) =
             IF envelopes[e.id] \notin {None, e} THEN "DUP_ID"
             ELSE IF \E p \in e.parents : OtherThread(p, e) THEN "THREAD_MISMATCH"
             ELSE IF s.seq # 0 /\ e.parents = {} THEN "MISSING_PARENT"
             ELSE IF ~CausalityHolds(e, s, envelopes) THEN "CAUSALITY"
             ELSE IF ~ClockHolds(e, s) \/ (c.now # None /\ e.deadline # None /\ e.deadline < c.now)
               THEN "CLOCK_SKEW"
             ELSE IF c.answer \in InvalidProofCodes THEN "SIG"
             ELSE IF s.state = "cancelled" THEN "ALREADY_TERMINAL"
             ELSE IF outsider /\ e.type # "approve" /\ e.signer \notin s.previousFloors THEN "NO_FLOOR"
             ELSE IF outsider /\ e.type # "approve" /\ e.signer \in s.previousFloors THEN "STALE_FLOOR"
             ELSE IF outsider /\ e.type = "approve" THEN "NOT_APPROVER"
             ELSE IF \/ s.state = "awaiting_approve" /\ e.type \notin {"approve", "fail", "cancel"}
                     \/ s.state = "paused" /\ s.pending # None /\ e.type = "resume" /\ Gated(e)
               THEN "GATE_PENDING"
             ELSE IF ~TransitionAllowed(e, s) \/ ~TransitionAllowed(e, Timely(s, e.now))
               THEN "ILLEGAL_TRANSITION"
             ELSE None
  <1> DEFINE e == c.envelope
             s == Timely(threads[e.thread], c.now)
             outsider == s.state # "void" /\ ~Entitled(e, s)
             late == c.now # None /\ e.deadline # None /\ e.deadline < c.now
             gate == \/ s.state = "awaiting_approve" /\ e.type \notin {"approve", "fail", "cancel"}
                     \/ s.state = "paused" /\ s.pending # None /\ e.type = "resume" /\ Gated(e)
             illegal == ~TransitionAllowed(e, s) \/ ~TransitionAllowed(e, Timely(s, e.now))
             f == Faulted(c)
  <1>1. /\ f["SCHEMA"] = (c.faults \cap {"fields", "header", "payload"} # {})
        /\ f["UNKNOWN_TYPE"] = ("type" \in c.faults)
        /\ f["DUP_ID"] = (envelopes[e.id] \notin {None, e})
        /\ f["THREAD_MISMATCH"] = (\E p \in e.parents : OtherThread(p, e))
        /\ f["MISSING_PARENT"] = (s.seq # 0 /\ e.parents = {})
        /\ f["CAUSALITY"] = (~CausalityHolds(e, s, envelopes))
        /\ f["CLOCK_SKEW"] = (~ClockHolds(e, s) \/ late)
        /\ f["SIG"] = (c.faults \cap SigFaults # {} \/ c.answer \in InvalidProofCodes)
        /\ f["ALREADY_TERMINAL"] = (s.state = "cancelled")
        /\ f["NO_FLOOR"] = (outsider /\ ~(e.type = "approve") /\ e.signer \notin s.previousFloors)
        /\ f["STALE_FLOOR"] = (outsider /\ ~(e.type = "approve") /\ e.signer \in s.previousFloors)
        /\ f["NOT_APPROVER"] = (outsider /\ e.type = "approve")
        /\ f["GATE_PENDING"] = gate
        /\ f["ILLEGAL_TRANSITION"] = illegal
    BY DEF Faulted
  <1>2. ~f["SCHEMA"] /\ ~f["UNKNOWN_TYPE"] /\ (f["SIG"] <=> c.answer \in InvalidProofCodes)
    BY <1>1
  <1>3. Documented(c) =
          FirstMatch([n \in DOMAIN DocumentedOrder |-> <<f[DocumentedOrder[n]], DocumentedOrder[n]>>])
    BY Zenon DEF Documented
  <1> HIDE DEF e, s, outsider, late, gate, illegal, f
  <1>4. Documented(c) =
          IF f["DUP_ID"] THEN "DUP_ID" ELSE IF f["THREAD_MISMATCH"] THEN "THREAD_MISMATCH"
          ELSE IF f["MISSING_PARENT"] THEN "MISSING_PARENT" ELSE IF f["CAUSALITY"] THEN "CAUSALITY"
          ELSE IF f["CLOCK_SKEW"] THEN "CLOCK_SKEW" ELSE IF f["SIG"] THEN "SIG"
          ELSE IF f["ALREADY_TERMINAL"] THEN "ALREADY_TERMINAL"
          ELSE IF f["NO_FLOOR"] THEN "NO_FLOOR" ELSE IF f["STALE_FLOOR"] THEN "STALE_FLOOR"
          ELSE IF f["NOT_APPROVER"] THEN "NOT_APPROVER" ELSE IF f["GATE_PENDING"] THEN "GATE_PENDING"
          ELSE IF f["ILLEGAL_TRANSITION"] THEN "ILLEGAL_TRANSITION" ELSE None
    BY <1>2, <1>3, FirstDocumented
  <1>5. QED
    BY <1>1, <1>2, <1>4 DEF e, s, outsider, late, gate, illegal

\* Every candidate of the right shape is answered with its first documented fault.
LEMMA FirstFault ==
    ASSUME TypeOK, NEW c \in Presented, InBand(c), c.faults = {}
    PROVE  Verdict(c) = Documented(c)
  <1> DEFINE e == c.envelope
             s == Timely(threads[e.thread], c.now)
             outsider == s.state # "void" /\ ~Entitled(e, s)
             stranger == \E p \in e.parents : OtherThread(p, e)
             orphan == s.seq # 0 /\ e.parents = {}
             late == c.now # None /\ e.deadline # None /\ e.deadline < c.now
             gate == \/ s.state = "awaiting_approve" /\ e.type \notin {"approve", "fail", "cancel"}
                     \/ s.state = "paused" /\ s.pending # None /\ e.type = "resume" /\ Gated(e)
             illegal == ~TransitionAllowed(e, s) \/ ~TransitionAllowed(e, Timely(s, e.now))
             history == IF stranger THEN "THREAD_MISMATCH" ELSE IF orphan THEN "MISSING_PARENT"
                        ELSE IF ~CausalityHolds(e, s, envelopes) THEN "CAUSALITY"
                        ELSE IF ~ClockHolds(e, s) THEN "CLOCK_SKEW" ELSE None
             judgment == IF s.state = "cancelled" THEN "ALREADY_TERMINAL"
                         ELSE IF outsider /\ e.type = "approve" THEN "NOT_APPROVER"
                         ELSE IF outsider /\ e.signer \in s.previousFloors THEN "STALE_FLOOR"
                         ELSE IF outsider THEN "NO_FLOOR"
                         ELSE IF gate THEN "GATE_PENDING"
                         ELSE IF illegal THEN "ILLEGAL_TRANSITION" ELSE None
  <1>1. /\ e \in Envelope /\ e.thread \in Threads /\ c.now \in Nat \cup {None}
        /\ c.answer = "allow" \/ c.answer \in InvalidProofCodes
        /\ envelopes[e.id] # e
    <2>1. c.envelope \in Candidates /\ c.now \in Clocks \cup {None}
      BY PresentedAssumption
    <2>2. e \in Envelope
      BY <2>1, CandidatesAssumption
    <2>3. QED
      BY <2>1, <2>2, ClocksAssumption, EnvelopeFields DEF InBand
  <1>2. threads[e.thread] \in Snapshot
    BY <1>1 DEF TypeOK
  <1>3. s \in Snapshot
    BY <1>1, <1>2, TimelyFacts
  <1>4. ProofFailure(c.answer) = IF c.answer \in InvalidProofCodes THEN "SIG" ELSE None
    BY <1>1 DEF ProofFailure, InvalidProofCodes
  <1>5. Verdict(c) =
          IF envelopes[e.id] # None THEN "DUP_ID"
          ELSE IF HistoryFailure(e, s) # None THEN HistoryFailure(e, s)
          ELSE IF late THEN "CLOCK_SKEW"
          ELSE IF ProofFailure(c.answer) # None THEN ProofFailure(c.answer)
          ELSE Judgment(e, s)
    BY <1>1 DEF Verdict
  <1>6. Documented(c) =
          IF envelopes[e.id] \notin {None, e} THEN "DUP_ID"
          ELSE IF stranger THEN "THREAD_MISMATCH"
          ELSE IF orphan THEN "MISSING_PARENT"
          ELSE IF ~CausalityHolds(e, s, envelopes) THEN "CAUSALITY"
          ELSE IF ~ClockHolds(e, s) \/ late THEN "CLOCK_SKEW"
          ELSE IF c.answer \in InvalidProofCodes THEN "SIG"
          ELSE IF s.state = "cancelled" THEN "ALREADY_TERMINAL"
          ELSE IF outsider /\ e.type # "approve" /\ e.signer \notin s.previousFloors THEN "NO_FLOOR"
          ELSE IF outsider /\ e.type # "approve" /\ e.signer \in s.previousFloors THEN "STALE_FLOOR"
          ELSE IF outsider /\ e.type = "approve" THEN "NOT_APPROVER"
          ELSE IF gate THEN "GATE_PENDING"
          ELSE IF illegal THEN "ILLEGAL_TRANSITION" ELSE None
    BY Zenon, DocumentedAnswers
  <1> HIDE DEF s, outsider, stranger, orphan, late, gate, illegal
  <1>7. HistoryFailure(e, s) = history
    <2> HIDE DEF e
    <2>1. QED
      BY <1>1, <1>3, HistoryAnswers DEF stranger, orphan
  <1>8. Judgment(e, s) = judgment
    <2> HIDE DEF e
    <2>1. QED
      BY <1>1, <1>3, JudgmentAnswers DEF outsider, gate, illegal
  <1> HIDE DEF e
  <1>9. QED
    BY <1>1, <1>4, <1>5, <1>6, <1>7, <1>8, DocumentedCodes

\* The checks of validate_envelope, first to last.
LEMMA ShapeFirst ==
    ASSUME NEW faults
    PROVE  ShapeFailure(faults) =
             IF "not_a_submit" \in faults THEN "NOT_A_SUBMIT"
             ELSE IF "fields" \in faults THEN "SCHEMA"
             ELSE IF "no_sig" \in faults THEN "SIG"
             ELSE IF "header" \in faults THEN "SCHEMA"
             ELSE IF "type" \in faults THEN "UNKNOWN_TYPE"
             ELSE IF "signer" \in faults THEN "SIG"
             ELSE IF "sig" \in faults THEN "SIG"
             ELSE IF "payload" \in faults THEN "SCHEMA"
             ELSE None
  <1> DEFINE checks == <<<<"not_a_submit" \in faults, "NOT_A_SUBMIT">>,
                         <<"fields" \in faults, "SCHEMA">>,
                         <<"no_sig" \in faults, "SIG">>,
                         <<"header" \in faults, "SCHEMA">>,
                         <<"type" \in faults, "UNKNOWN_TYPE">>,
                         <<"signer" \in faults, "SIG">>,
                         <<"sig" \in faults, "SIG">>,
                         <<"payload" \in faults, "SCHEMA">>>>
  <1>1. /\ Len(checks) = 8
        /\ (checks[1][1] <=> "not_a_submit" \in faults) /\ (checks[2][1] <=> "fields" \in faults)
        /\ (checks[3][1] <=> "no_sig" \in faults) /\ (checks[4][1] <=> "header" \in faults)
        /\ (checks[5][1] <=> "type" \in faults) /\ (checks[6][1] <=> "signer" \in faults)
        /\ (checks[7][1] <=> "sig" \in faults) /\ (checks[8][1] <=> "payload" \in faults)
    OBVIOUS
  <1>2. /\ checks[1][2] = "NOT_A_SUBMIT" /\ checks[2][2] = "SCHEMA" /\ checks[3][2] = "SIG"
        /\ checks[4][2] = "SCHEMA" /\ checks[5][2] = "UNKNOWN_TYPE" /\ checks[6][2] = "SIG"
        /\ checks[7][2] = "SIG" /\ checks[8][2] = "SCHEMA"
    OBVIOUS
  <1>3. ShapeFailure(faults) = FirstMatch(checks)
    BY Zenon DEF ShapeFailure
  <1> HIDE DEF checks
  <1>4. \/ \E i \in 1..8 : /\ checks[i][1] /\ \A j \in 1..8 : j < i => ~checks[j][1]
                         /\ FirstMatch(checks) = checks[i][2]
        \/ (\A i \in 1..8 : ~checks[i][1]) /\ FirstMatch(checks) = None
    BY <1>1, HitOrNone
  <1>5. \A j \in 1..8 : j = 1 \/ j = 2 \/ j = 3 \/ j = 4 \/ j = 5 \/ j = 6 \/ j = 7 \/ j = 8
    OBVIOUS
  <1>6. QED
    BY <1>1, <1>2, <1>3, <1>4, <1>5

\* A fault of shape earns a code.
LEMMA ShapeAnswers ==
    ASSUME NEW faults \in SUBSET ShapeFaults, faults # {}
    PROVE  ShapeFailure(faults) # None
  <1>1. "NOT_A_SUBMIT" # None /\ "SCHEMA" # None /\ "SIG" # None /\ "UNKNOWN_TYPE" # None
    BY DocumentedCodes, CodesAssumption
  <1>2. PICK fault \in faults : fault \in ShapeFaults
    OBVIOUS
  <1>3. QED
    BY <1>1, <1>2, ShapeFirst DEF ShapeFaults

\* A candidate of a wrong shape is answered with its first documented fault,
\* unless SIG comes ahead.
LEMMA FirstShapeFault ==
    ASSUME NEW c \in Presented, InBand(c), c.faults # {}
    PROVE  Verdict(c) = Documented(c) \/ (Verdict(c) = "SIG" /\ c.faults \cap SigFaults # {})
  <1> DEFINE schema == c.faults \cap {"fields", "header", "payload"} # {}
             f == Faulted(c)
  <1>1. /\ c.faults \in SUBSET ShapeFaults /\ "not_a_submit" \notin c.faults
        /\ ~("type" \in c.faults /\ "payload" \in c.faults)
    BY PresentedAssumption DEF InBand, Shapes
  <1>2. f["SCHEMA"] = schema /\ f["UNKNOWN_TYPE"] = ("type" \in c.faults)
    BY DEF Faulted
  <1>3. Documented(c) =
          FirstMatch([n \in DOMAIN DocumentedOrder |-> <<f[DocumentedOrder[n]], DocumentedOrder[n]>>])
    BY Zenon DEF Documented
  <1> HIDE DEF f
  <1>4. /\ schema => Documented(c) = "SCHEMA"
        /\ ~schema /\ "type" \in c.faults => Documented(c) = "UNKNOWN_TYPE"
    BY <1>2, <1>3, FirstDocumented
  <1>5. Verdict(c) = ShapeFailure(c.faults)
    BY DEF Verdict
  <1>6. /\ schema <=> "fields" \in c.faults \/ "header" \in c.faults \/ "payload" \in c.faults
        /\ c.faults \cap SigFaults # {} <=> "no_sig" \in c.faults \/ "signer" \in c.faults \/ "sig" \in c.faults
        /\ \E fault \in c.faults : fault \in ShapeFaults
    BY <1>1 DEF SigFaults
  <1> HIDE DEF schema
  <1>7. QED
    BY <1>1, <1>4, <1>5, <1>6, ShapeFirst DEF ShapeFaults

-----------------------------------------------------------------------------
(* The proof adapter.                                                       *)

\* The table of the document against that of the code: each fault it lists is
\* checked for and blamed on the proof, before the authority is asked.
LEMMA ChecksDocumented ==
    /\ Len(AdapterChecks) = 16
    /\ ProofFaults \cup Outages = {AdapterChecks[i][1] : i \in 1..16}
    /\ \A i \in 1..16 : AdapterChecks[i][1] \in ProofFaults <=> AdapterChecks[i][1] \notin Outages
    /\ \A i \in 1..16 : AdapterChecks[i][1] \in ProofFaults => AdapterChecks[i][2] \in InvalidProofCodes
    /\ \A i \in 1..16 : AdapterChecks[i][1] \in Outages => AdapterChecks[i][2] = "unavailable"
    /\ \A i \in 1..16 : AdapterChecks[i][1] = "authority_down" <=> i = 16
  <1>1. Len(AdapterChecks) = 16
    BY DEF AdapterChecks
  <1>2. \A f \in ProofFaults \cup Outages : \E i \in 1..16 : AdapterChecks[i][1] = f
    BY DEF AdapterChecks, ProofFaults, Outages
  <1>3. \A i \in 1..16 : AdapterChecks[i][1] \in ProofFaults \cup Outages
    BY DEF AdapterChecks, ProofFaults, Outages
  <1>4. \A i \in 1..16 : AdapterChecks[i][1] \in ProofFaults <=> AdapterChecks[i][1] \notin Outages
    BY DEF AdapterChecks, ProofFaults, Outages
  <1>5. \A i \in 1..16 : AdapterChecks[i][1] \in ProofFaults => AdapterChecks[i][2] \in InvalidProofCodes
    BY DEF AdapterChecks, ProofFaults, InvalidProofCodes
  <1>6. \A i \in 1..16 : AdapterChecks[i][1] \in Outages => AdapterChecks[i][2] = "unavailable"
    BY DEF AdapterChecks, Outages
  <1>7. \A i \in 1..16 : AdapterChecks[i][1] = "authority_down" <=> i = 16
    BY DEF AdapterChecks
  <1>8. QED
    BY <1>1, <1>2, <1>3, <1>4, <1>5, <1>6, <1>7

\* What the adapter answers to anything that goes wrong: "allow" only to nothing,
\* a proof code for a fault of the proof or when the authority says so,
\* "unavailable" for an outage or when the authority says so.
LEMMA AdapterAnswers ==
    ASSUME NEW mishaps \in SUBSET (ProofFaults \cup Outages), NEW authority \in AuthorityAnswers
    PROVE  LET answer == AdapterAnswer(mishaps, authority)
               faults == mishaps \ Outages
           IN  /\ answer \in AuthorityAnswers
               /\ answer = "allow" <=> mishaps = {} /\ authority = "allow"
               /\ answer \in InvalidProofCodes =>
                    faults # {} \/ (mishaps = {} /\ authority \in InvalidProofCodes)
               /\ faults # {} /\ "resolver_down" \notin mishaps => answer \in InvalidProofCodes
               /\ mishaps # {} /\ faults = {} => answer = "unavailable"
               /\ answer = "unavailable" =>
                    mishaps \cap Outages # {} \/ (mishaps = {} /\ authority = "unavailable")
  <1> DEFINE checks == [n \in DOMAIN AdapterChecks |-> <<AdapterChecks[n][1] \in mishaps, AdapterChecks[n][2]>>]
             answer == AdapterAnswer(mishaps, authority)
             failure == FirstMatch(checks)
             faults == mishaps \ Outages
  <1>1. DOMAIN AdapterChecks = 1..16
    BY DEF AdapterChecks
  <1>2. /\ "allow" \notin AuthorityCodes \cup InvalidProofCodes
        /\ AuthorityCodes \cap InvalidProofCodes = {}
        /\ "unavailable" \in AuthorityCodes
        /\ None \notin AuthorityCodes \cup InvalidProofCodes
    BY CodesAssumption DEF AuthorityCodes, InvalidProofCodes
  <1>3. answer = IF failure = None THEN authority ELSE failure
    BY Zenon DEF AdapterAnswer
  <1>4. Len(checks) = 16 /\ \A i \in 1..16 : /\ checks[i][1] = (AdapterChecks[i][1] \in mishaps)
                                           /\ checks[i][2] = AdapterChecks[i][2]
    BY <1>1
  <1> HIDE DEF checks, answer, failure, faults
  <1>5. CASE mishaps = {}
    <2>1. \A i \in 1..16 : ~checks[i][1]
      BY <1>4, <1>5
    <2>2. failure = None
      BY <1>4, <2>1, NoHit DEF failure
    <2>3. answer = authority /\ faults = {}
      BY <1>3, <1>5, <2>2 DEF faults
    <2>4. QED
      BY <1>2, <1>5, <2>3 DEF answer, faults, AuthorityAnswers
  <1>6. CASE mishaps # {}
    <2>1. \E i \in 1..16 : checks[i][1]
      <3>1. PICK f \in mishaps : f \in ProofFaults \cup Outages
        BY <1>6
      <3>2. PICK i \in 1..16 : AdapterChecks[i][1] = f
        BY <3>1, ChecksDocumented
      <3>3. checks[i][1]
        BY <1>4, <3>1, <3>2
      <3>4. QED
        BY <3>3
    <2>2. PICK i \in 1..16 :
            /\ AdapterChecks[i][1] \in mishaps /\ failure = AdapterChecks[i][2]
            /\ \A m \in 1..16 : m < i => AdapterChecks[m][1] \notin mishaps
      <3>1. \E i \in 1..16 : /\ checks[i][1] /\ \A m \in 1..16 : m < i => ~checks[m][1]
                             /\ failure = checks[i][2]
        BY <1>4, <2>1, HitOrNone DEF failure
      <3>2. QED
        BY <1>4, <3>1
    <2>3. /\ AdapterChecks[i][1] \in Outages => failure = "unavailable"
          /\ AdapterChecks[i][1] \notin Outages => failure \in InvalidProofCodes
      BY <2>2, ChecksDocumented
    <2>4. answer = failure
      BY <1>2, <1>3, <2>3
    <2>5. AdapterChecks[i][1] \notin Outages => faults # {}
      BY <2>2 DEF faults
    <2>6. ASSUME faults # {}, "resolver_down" \notin mishaps PROVE AdapterChecks[i][1] \notin Outages
      <3>1. PICK f \in mishaps : f \notin Outages
        BY <2>6 DEF faults
      <3>2. PICK m \in 1..16 : AdapterChecks[m][1] = f
        BY <3>1, ChecksDocumented
      <3>3. i <= m /\ m # 16
        BY <2>2, <3>1, <3>2, ChecksDocumented DEF Outages
      <3>4. AdapterChecks[i][1] # "authority_down" /\ AdapterChecks[i][1] # "resolver_down"
        BY <2>2, <2>6, <3>3, ChecksDocumented
      <3>5. QED
        BY <3>4 DEF Outages
    <2>7. faults = {} => AdapterChecks[i][1] \in Outages
      BY <2>5
    <2>8. AdapterChecks[i][1] \in Outages => mishaps \cap Outages # {}
      BY <2>2
    <2>9. answer \in InvalidProofCodes => AdapterChecks[i][1] \notin Outages
      BY <1>2, <2>3, <2>4
    <2>10. answer = "unavailable" => AdapterChecks[i][1] \in Outages
      BY <1>2, <2>3, <2>4
    <2>11. answer \in AuthorityCodes \cup InvalidProofCodes
      BY <1>2, <2>3, <2>4
    <2>12. /\ answer \in AuthorityAnswers /\ answer # "allow"
           /\ answer \in InvalidProofCodes => faults # {}
           /\ faults # {} /\ "resolver_down" \notin mishaps => answer \in InvalidProofCodes
           /\ faults = {} => answer = "unavailable"
           /\ answer = "unavailable" => mishaps \cap Outages # {}
      BY <1>2, <2>3, <2>4, <2>5, <2>6, <2>7, <2>8, <2>9, <2>10, <2>11 DEF AuthorityAnswers
    <2>13. QED
      BY <1>6, <2>12 DEF answer, faults
  <1>7. QED
    BY <1>5, <1>6

\* A candidate that would commit is told by another answer of PCP only what that
\* answer says.
LEMMA AnswerDecides ==
    ASSUME NEW c \in Presented, Verdict(c) = None, NEW answer
    PROVE  Verdict([c EXCEPT !.answer = answer]) = ProofFailure(answer)
  <1> DEFINE d == [c EXCEPT !.answer = answer]
             e == c.envelope
             s == Timely(threads[e.thread], c.now)
             late == c.now # None /\ e.deadline # None /\ e.deadline < c.now
  <1>1. /\ d.envelope = c.envelope /\ d.faults = c.faults /\ d.now = c.now /\ d.answer = answer
        /\ c.faults \in SUBSET ShapeFaults
    BY PresentedAssumption DEF Shapes
  <1>2. "duplicate" # None /\ "DUP_ID" # None /\ "CLOCK_SKEW" # None
    BY CodesAssumption, DocumentedCodes
  <1>3. Verdict(c) =
          IF c.faults # {} THEN ShapeFailure(c.faults)
          ELSE IF envelopes[e.id] # None THEN IF envelopes[e.id] = e THEN "duplicate" ELSE "DUP_ID"
          ELSE IF HistoryFailure(e, s) # None THEN HistoryFailure(e, s)
          ELSE IF late THEN "CLOCK_SKEW"
          ELSE IF ProofFailure(c.answer) # None THEN ProofFailure(c.answer)
          ELSE Judgment(e, s)
    BY Zenon DEF Verdict
  <1> HIDE DEF d
  <1>4. Verdict(d) =
          IF c.faults # {} THEN ShapeFailure(c.faults)
          ELSE IF envelopes[e.id] # None THEN IF envelopes[e.id] = e THEN "duplicate" ELSE "DUP_ID"
          ELSE IF HistoryFailure(e, s) # None THEN HistoryFailure(e, s)
          ELSE IF late THEN "CLOCK_SKEW"
          ELSE IF ProofFailure(answer) # None THEN ProofFailure(answer)
          ELSE Judgment(e, s)
    BY <1>1 DEF Verdict
  <1> HIDE DEF e, s, late
  <1>5. c.faults = {}
    BY <1>1, <1>3, ShapeAnswers
  <1>6. Verdict(d) = ProofFailure(answer)
    BY <1>2, <1>3, <1>4, <1>5
  <1>7. QED
    BY <1>6 DEF d

-----------------------------------------------------------------------------
(* The answers of submit.                                                   *)

\* submit answers every candidate with its first documented fault, in every state
\* of every journal, but for a SIG that validate_envelope may give ahead of it.
THEOREM FirstFaultHolds == Spec => []FirstFaultAnswers
  <1>1. TypeOK => FirstFaultAnswers
    BY FirstFault, FirstShapeFault DEF FirstFaultAnswers
  <1>2. QED
    BY <1>1, TypesHold, PTL

\* A proof commits a candidate only without a fault and with PCP's permission, each
\* documented fault is checked for before the authority is asked and answered
\* SIG, and only an outage, PCP's own included, asks for the candidate again; in
\* every state, whatever the candidates are and whatever the authority answers.
THEOREM AdapterIsSound == Spec => []AdapterSound
  <1> DEFINE committing == {c \in Presented : Verdict(c) = None}
             told == [answer \in AuthorityAnswers |-> {Verdict([c EXCEPT !.answer = answer]) : c \in committing}]
  <1>1. ASSUME NEW answer \in AuthorityAnswers, NEW verdict \in told[answer]
        PROVE  verdict = ProofFailure(answer)
    BY <1>1, AnswerDecides
  <1>2. ASSUME NEW answer \in AuthorityAnswers
        PROVE  /\ ProofFailure(answer) = None <=> answer = "allow"
               /\ ProofFailure(answer) = "SIG" <=> answer \in InvalidProofCodes
    BY <1>2, DocumentedCodes, CodesAssumption
       DEF ProofFailure, InvalidProofCodes, AuthorityCodes, AuthorityAnswers
  <1>3. Mishaps \subseteq SUBSET (ProofFaults \cup Outages)
    BY DEF Mishaps, kSubset
  <1> HIDE DEF committing, told
  <1>4. ASSUME NEW mishaps \in Mishaps, NEW authority \in AuthorityAnswers
        PROVE  LET answer == AdapterAnswer(mishaps, authority)
                   faults == mishaps \ Outages
               IN  /\ \A verdict \in told[answer] :
                        /\ verdict = None <=> mishaps = {} /\ authority = "allow"
                        /\ verdict = "SIG" => faults # {} \/ (mishaps = {} /\ authority \in InvalidProofCodes)
                        /\ faults # {} /\ "resolver_down" \notin mishaps => verdict = "SIG"
                   /\ mishaps # {} /\ faults = {} => Retriable(answer)
                   /\ Retriable(answer) =>
                        mishaps \cap Outages # {} \/ (mishaps = {} /\ authority = "unavailable")
    <2> DEFINE answer == AdapterAnswer(mishaps, authority)
               faults == mishaps \ Outages
    <2>1. mishaps \in SUBSET (ProofFaults \cup Outages)
      BY <1>3
    <2>2. /\ answer \in AuthorityAnswers
          /\ answer = "allow" <=> mishaps = {} /\ authority = "allow"
          /\ answer \in InvalidProofCodes =>
               faults # {} \/ (mishaps = {} /\ authority \in InvalidProofCodes)
          /\ faults # {} /\ "resolver_down" \notin mishaps => answer \in InvalidProofCodes
          /\ mishaps # {} /\ faults = {} => answer = "unavailable"
          /\ answer = "unavailable" =>
               mishaps \cap Outages # {} \/ (mishaps = {} /\ authority = "unavailable")
      BY <2>1, AdapterAnswers
    <2> HIDE DEF answer, faults
    <2>3. ASSUME NEW verdict \in told[answer]
          PROVE  /\ verdict = None <=> mishaps = {} /\ authority = "allow"
                 /\ verdict = "SIG" => faults # {} \/ (mishaps = {} /\ authority \in InvalidProofCodes)
                 /\ faults # {} /\ "resolver_down" \notin mishaps => verdict = "SIG"
      <3>1. verdict = ProofFailure(answer)
        BY <1>1, <2>2, <2>3
      <3>2. (verdict = None <=> answer = "allow") /\ (verdict = "SIG" <=> answer \in InvalidProofCodes)
        BY <1>2, <2>2, <3>1
      <3>3. QED
        BY <2>2, <3>2
    <2>4. QED
      BY <2>2, <2>3 DEF Retriable, answer, faults
  <1>5. AdapterSound
    BY <1>4 DEF AdapterSound, committing, told
  <1>6. QED
    BY <1>5, PTL
=============================================================================
