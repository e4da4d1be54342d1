SPECIFICATION Spec
CONSTANTS
    None = None
    Principals = {a, b, c}
    Opener = a
    Approver = c
    Threads = {t1}
    MaxSeq = 7
    MaxNow = 4
    EnvelopeIds <- MCEnvelopeIds
    Clocks <- MCClocks
    Candidates <- MCCandidates
VIEW MCView
INVARIANTS
    TypeOK
    ThreadsCoherent
    ProposersHold
    NoOverdueThread
    SeqGapless
PROPERTIES
    GateNotDropped
    FloorMovesByGrant
    HistoryGrows
CHECK_DEADLOCK FALSE
