--------------------------- MODULE EnvelopeCheck ---------------------------
(***************************************************************************)
(* What a caller of submit is told: the code of conformance/legatus.py that *)
(* a candidate earns in a given state, and the answers of the proof adapter *)
(* of conformance/pcp_verifier.py.  Coordination says whether a candidate   *)
(* commits; here the checks are sequences of which the first failing one    *)
(* answers, in the order of the code.                                       *)
(*                                                                         *)
(* A candidate is an envelope, the set of shape faults that validate_envelope *)
(* would find in it one at a time, the answer that PCP has for its proof,   *)
(* and the clock the caller passes.  A code is named without its prefix.    *)
(***************************************************************************)
EXTENDS Coordination, Sequences, SequencesExt

CONSTANT Presented      \* the candidates, as described above

\* The second member of the first pair whose first member is TRUE, or None.
FirstMatch(checks) ==
    LET n == SelectInSeq(checks, LAMBDA c : c[1]) IN IF n = 0 THEN None ELSE checks[n][2]

-----------------------------------------------------------------------------
(* validate_envelope.                                                       *)

ShapeFaults ==
    {"not_a_submit",    \* no object, or one without "legatus"
     "fields",          \* a member is missing or unknown
     "no_sig",          \* only the proof is missing
     "header",          \* version, id, thread, type, parents, clock or payload of a wrong shape
     "type",            \* not one of the seven moves
     "signer",          \* not a principal URN
     "sig",             \* a proof of a wrong shape
     "payload"}         \* members of the payload

\* A payload is held against the move that the type names.
Shapes == {faults \in SUBSET ShapeFaults : ~({"type", "payload"} \subseteq faults)}

ShapeFailure(faults) ==
    FirstMatch(<<<<"not_a_submit" \in faults, "NOT_A_SUBMIT">>,
                 <<"fields" \in faults, "SCHEMA">>,
                 <<"no_sig" \in faults, "SIG">>,
                 <<"header" \in faults, "SCHEMA">>,
                 <<"type" \in faults, "UNKNOWN_TYPE">>,
                 <<"signer" \in faults, "SIG">>,
                 <<"sig" \in faults, "SIG">>,
                 <<"payload" \in faults, "SCHEMA">>>>)

-----------------------------------------------------------------------------
(* The checks against the thread.                                           *)

OtherThread(p, e) == envelopes[p] # None /\ envelopes[p].thread # e.thread

\* Faulty: the clock is looked at before the parents.
HistoryFailureClockFirst(e, s) ==
    FirstMatch(<<<<~ClockHolds(e, s), "CLOCK_SKEW">>,
                 <<\E p \in e.parents : OtherThread(p, e), "THREAD_MISMATCH">>,
                 <<s.seq # 0 /\ e.parents = {}, "MISSING_PARENT">>,
                 <<~CausalityHolds(e, s, envelopes), "CAUSALITY">>>>)

\* _check_causality_and_clock.
HistoryFailure(e, s) ==
    FirstMatch(<<<<\E p \in e.parents : OtherThread(p, e), "THREAD_MISMATCH">>,
                 <<s.seq = 0 /\ e.parents # {}, "CAUSALITY">>,
                 <<s.seq # 0 /\ e.parents = {}, "MISSING_PARENT">>,
                 <<s.seq # 0 /\ \E p \in e.parents : envelopes[p] = None, "CAUSALITY">>,
                 <<s.seq # 0 /\ s.lastId \notin e.parents, "CAUSALITY">>,
                 <<e.seq # s.seq + 1 \/ e.now < s.now, "CLOCK_SKEW">>,
                 <<e.deadline # None /\ e.deadline < e.now, "CLOCK_SKEW">>>>)

MisplacedMove(e, s) ==
    \/ e.type \notin LegalMoves[s.state]
    \/ e.type = "approve" /\ e.of # s.pending.id
    \/ e.type = "retry" /\ e.of # s.lastId

\* _check_signer_and_transition.
TransitionFailure(e, s) ==
    LET open == s.state # "void"
    IN  FirstMatch(<<
            <<s.state = "cancelled", "ALREADY_TERMINAL">>,
            <<open /\ e.type = "approve" /\ ~Entitled(e, s), "NOT_APPROVER">>,
            <<open /\ ~Entitled(e, s) /\ e.signer \in s.previousFloors, "STALE_FLOOR">>,
            <<open /\ ~Entitled(e, s), "NO_FLOOR">>,
            <<s.state = "awaiting_approve" /\ e.type \notin LegalMoves[s.state], "GATE_PENDING">>,
            <<s.state = "paused" /\ e.type = "resume" /\ s.pending # None /\ Gated(e), "GATE_PENDING">>,
            <<MisplacedMove(e, s), "ILLEGAL_TRANSITION">>>>)

-----------------------------------------------------------------------------
(* The proof adapter, PCPVerifier.__call__.                                 *)

\* In the order of the code, what can be wrong and the code that says so.  Key
\* resolution and authority are callbacks that may be out of service: they raise
\* or answer something malformed.  "encoding" stands for the compact form and the
\* set of header members, "members" for the values of key, grant and purpose and
\* the canonical form of the header.
AdapterChecks ==
    <<<<"request", "invalid_proof">>,
      <<"copy", "proof_envelope_mismatch">>,
      <<"encoding", "invalid_proof">>,
      <<"context", "invalid_proof">>,
      <<"carrier", "carrier_is_not_authority">>,
      <<"members", "invalid_proof">>,
      <<"sig_encoding", "invalid_proof">>,
      <<"bound_signer", "proof_signer_mismatch">>,
      <<"bound_purpose", "proof_purpose_mismatch">>,
      <<"resolver_down", "unavailable">>,
      <<"no_key", "unknown_key">>,
      <<"key_owner", "proof_signer_mismatch">>,
      <<"key_id", "proof_key_mismatch">>,
      <<"signed_bytes", "invalid_proof">>,
      <<"signature", "bad_signature">>,
      <<"authority_down", "unavailable">>>>

InvalidProofCodes ==
    {"invalid_proof", "unsigned", "unknown_key", "unknown_issuer", "bad_signature",
     "proof_signer_mismatch", "proof_key_mismatch", "proof_purpose_mismatch",
     "proof_envelope_mismatch", "carrier_is_not_authority", "identity_collapse"}

AuthorityCodes ==
    {"grant_not_found", "expired", "revoked", "scope_mismatch", "budget_exhausted", "unavailable"}

\* Faulty: authority is asked before the signature is verified.
AdapterAnswerUnsigned(faults, authority) ==
    LET failure == FirstMatch([n \in DOMAIN AdapterChecks |->
                                 <<AdapterChecks[n][1] \in faults \ {"signature"}, AdapterChecks[n][2]>>])
    IN  IF failure = None THEN authority ELSE failure

\* "allow" or the code of the denial; authority is what the callback answers.
AdapterAnswer(faults, authority) ==
    LET failure == FirstMatch([n \in DOMAIN AdapterChecks |->
                                 <<AdapterChecks[n][1] \in faults, AdapterChecks[n][2]>>])
    IN  IF failure = None THEN authority ELSE failure

\* _verify: a proof code is the envelope's SIG, any other denial is PCP's own.
ProofFailure(answer) ==
    CASE answer = "allow"              -> None
      [] answer \in InvalidProofCodes  -> "SIG"
      [] OTHER                         -> "pcp_result"

Retriable(answer) == answer = "unavailable"

-----------------------------------------------------------------------------
(* submit.                                                                  *)

ASSUME PresentedAssumption ==
    Presented \subseteq
        [envelope : Candidates, faults : Shapes,
         answer : InvalidProofCodes \cup AuthorityCodes \cup {"allow"}, now : Clocks \cup {None}]

Timely(s, now) == IF now # None /\ TimeoutDue(s, now) THEN ApplyTimeout(s, now) ELSE s

\* The transition is judged on the snapshot the checks were made on, and again
\* when the candidate's own clock times the thread out.
Judgment(e, s) ==
    LET first == TransitionFailure(e, s)
    IN  IF first # None THEN first ELSE TransitionFailure(e, Timely(s, e.now))

\* The code that submit answers, None for a commit and "duplicate" for the
\* acknowledgement of an identical envelope.
Verdict(c) ==
    LET e == c.envelope
        s == Timely(threads[e.thread], c.now)
    IN  IF c.faults # {} THEN ShapeFailure(c.faults)
        ELSE IF envelopes[e.id] # None THEN IF envelopes[e.id] = e THEN "duplicate" ELSE "DUP_ID"
        ELSE IF HistoryFailure(e, s) # None THEN HistoryFailure(e, s)
        ELSE IF c.now # None /\ e.deadline # None /\ e.deadline < c.now THEN "CLOCK_SKEW"
        ELSE IF ProofFailure(c.answer) # None THEN ProofFailure(c.answer)
        ELSE Judgment(e, s)

-----------------------------------------------------------------------------
(* Properties.                                                              *)

\* spec/01, section 10, and the order it gives.
DocumentedOrder ==
    <<"SCHEMA", "UNKNOWN_TYPE", "DUP_ID", "THREAD_MISMATCH", "MISSING_PARENT", "CAUSALITY",
      "CLOCK_SKEW", "SIG", "ALREADY_TERMINAL", "NO_FLOOR", "STALE_FLOOR", "NOT_APPROVER",
      "GATE_PENDING", "ILLEGAL_TRANSITION">>

\* No answer is taken for the absence of one.
ASSUME CodesAssumption ==
    /\ None \notin {DocumentedOrder[n] : n \in DOMAIN DocumentedOrder}
    /\ None \notin InvalidProofCodes \cup AuthorityCodes \cup {"NOT_A_SUBMIT", "duplicate", "pcp_result"}

\* The faults of shape that are the signer's or the proof's.
SigFaults == {"no_sig", "signer", "sig"}

\* The fault each code stands for, by the table of that section.
Faulted(c) ==
    LET e == c.envelope
        s == Timely(threads[e.thread], c.now)
        outsider == s.state # "void" /\ ~Entitled(e, s)
        approval == e.type = "approve"
        answers == {"approve", "fail", "cancel"}
    IN  [SCHEMA             |-> c.faults \cap {"fields", "header", "payload"} # {},
         UNKNOWN_TYPE       |-> "type" \in c.faults,
         DUP_ID             |-> envelopes[e.id] \notin {None, e},
         THREAD_MISMATCH    |-> \E p \in e.parents : OtherThread(p, e),
         MISSING_PARENT     |-> s.seq # 0 /\ e.parents = {},
         CAUSALITY          |-> ~CausalityHolds(e, s, envelopes),
         CLOCK_SKEW         |-> \/ ~ClockHolds(e, s)
                                \/ c.now # None /\ e.deadline # None /\ e.deadline < c.now,
         SIG                |-> c.faults \cap SigFaults # {} \/ c.answer \in InvalidProofCodes,
         ALREADY_TERMINAL   |-> s.state = "cancelled",
         NO_FLOOR           |-> outsider /\ ~approval /\ e.signer \notin s.previousFloors,
         STALE_FLOOR        |-> outsider /\ ~approval /\ e.signer \in s.previousFloors,
         NOT_APPROVER       |-> outsider /\ approval,
         GATE_PENDING       |-> \/ s.state = "awaiting_approve" /\ e.type \notin answers
                                \/ s.state = "paused" /\ s.pending # None /\ e.type = "resume" /\ Gated(e),
         ILLEGAL_TRANSITION |-> ~TransitionAllowed(e, s) \/ ~TransitionAllowed(e, Timely(s, e.now))]

Documented(c) ==
    LET faulted == Faulted(c)
    IN  FirstMatch([n \in DOMAIN DocumentedOrder |-> <<faulted[DocumentedOrder[n]], DocumentedOrder[n]>>])

\* Answered in the band of Legatus errors, and not as a duplicate.
InBand(c) ==
    /\ "not_a_submit" \notin c.faults
    /\ c.answer = "allow" \/ c.answer \in InvalidProofCodes
    /\ c.faults = {} => envelopes[c.envelope.id] # c.envelope

\* submit answers with the first documented fault (spec/01, section 5: "First
\* matching failure wins"), and with none exactly when the shape, the parents, the
\* clock and the transition hold, before the candidate's own clock is observed and
\* after it.  There is one exception, which the document does not make: a signer
\* or a proof of a wrong shape may earn SIG ahead of all that validate_envelope
\* has not looked at by then.
FirstFaultAnswers ==
    \A c \in Presented :
        InBand(c) => \/ Verdict(c) = Documented(c)
                     \/ Verdict(c) = "SIG" /\ c.faults \cap SigFaults # {}

\* What the adapter has to turn down, as docs/pcp-verifier-adapter.md lists it:
\* this table is the document's, AdapterChecks the code's.
ProofFaults ==
    {"request",         \* not the strict request
     "copy",            \* the proof is not the one in the envelope
     "encoding",        \* not canonical base64url, or not the exact five fields
     "context",         \* another profile's proof
     "carrier",         \* the signer is no PCP principal
     "members",         \* a field of another form, or not the canonical header
     "sig_encoding",    \* not a canonical signature
     "bound_signer",    \* signed for another principal
     "bound_purpose",   \* signed for another move
     "no_key",          \* an unknown key
     "key_owner",       \* a key of somebody else
     "key_id",          \* another key of the same owner
     "signed_bytes",    \* no canonical bytes of the signing object
     "signature"}       \* not a signature of these bytes

\* The callbacks that may fail meanwhile.
Outages == {"resolver_down", "authority_down"}

\* What goes wrong in one verification, two things at a time.
Mishaps == UNION {kSubset(k, ProofFaults \cup Outages) : k \in 0..2}

\* What PCP's authority may validly answer: it may itself blame the proof.
AuthorityAnswers == AuthorityCodes \cup InvalidProofCodes \cup {"allow"}

\* A candidate that would commit does so only behind a proof without a fault that
\* PCP's authority allows.  SIG is answered for a fault of the proof, or when the
\* authority itself blames the proof; and the authority is never asked about a
\* faulty one: every fault is answered SIG, unless no key can be resolved.  An
\* outage is blamed on nobody's proof, and only an outage, or PCP's own word for
\* one, asks for the same candidate again (spec/02, the disposition table).
AdapterSound ==
    LET committing == {c \in Presented : Verdict(c) = None}
        told == [answer \in AuthorityAnswers |-> {Verdict([c EXCEPT !.answer = answer]) : c \in committing}]
    IN  \A mishaps \in Mishaps, authority \in AuthorityAnswers :
            LET answer == AdapterAnswer(mishaps, authority)
                faults == mishaps \ Outages
            IN  /\ \A verdict \in told[answer] :
                     /\ verdict = None <=> mishaps = {} /\ authority = "allow"
                     /\ verdict = "SIG" => faults # {} \/ (mishaps = {} /\ authority \in InvalidProofCodes)
                     /\ faults # {} /\ "resolver_down" \notin mishaps => verdict = "SIG"
                /\ mishaps # {} /\ faults = {} => Retriable(answer)
                /\ Retriable(answer) =>
                     mishaps \cap Outages # {} \/ (mishaps = {} /\ authority = "unavailable")
=============================================================================
