SPECIFICATION Spec
CONSTANTS
    None = None
    opener = opener
    worker = worker
    thread = thread
    other = other
    Principals <- MCPrincipals
    Threads <- MCThreads
    EnvelopeIds = {1, 2, 3}
    Clocks <- MCClocks
    Candidates <- TimeoutScript
    Views = {v1, v2}
    Authorizations = {1, 2, 3}
    AuthorizationsFor <- OneToOne
    MaxEpoch = 1
    BindsReservations = TRUE
    ReservesOnlyLive = FALSE
    RebuildIsAtomic = TRUE
    ExclusiveLeases = FALSE
    LeasesPassed = FALSE
    MayCrash = FALSE
    MayLoseAllow = TRUE
SYMMETRY Symmetry
INVARIANTS
    JournalReplays
    ViewsFoldPrefix
PROPERTIES
    ReservationsKept
    JournalIsLegal
    IneligibleForceNoTimeout
