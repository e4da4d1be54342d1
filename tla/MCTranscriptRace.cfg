SPECIFICATION RaceSpec
CONSTANTS
    None = None
    opener = opener
    worker = worker
    thread = thread
    other = other
    Principals <- MCPrincipals
    Threads <- MCThreads
    EnvelopeIds = {1, 2}
    Clocks <- MCClocks
    Candidates <- ResumeScript
    Views = {v1}
    Authorizations = {1, 2}
    AuthorizationsFor <- OneToOne
    MaxEpoch = 1
    BindsReservations = TRUE
    ReservesOnlyLive = TRUE
    RebuildIsAtomic = TRUE
    ExclusiveLeases = FALSE
    LeasesPassed = FALSE
    MayCrash = FALSE
    MayLoseAllow = FALSE
INVARIANTS
    TranscriptsTell
