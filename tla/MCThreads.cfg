SPECIFICATION Spec
CONSTANTS
    None = None
    Worker = worker
    Opener = opener
    Principals = {worker, opener}
    Threads = {t1, t2}
    EnvelopeIds = {e1, e2, e3, e4, e5}
    MaxSeq = 4
    Clocks <- MCClocks
    Candidates <- MCCandidates
    Presented <- MCPresented
SYMMETRY Symmetry
INVARIANTS
    ParentsChain
    FirstFaultAnswers
    AdapterSound
CHECK_DEADLOCK FALSE
