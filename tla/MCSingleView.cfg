SPECIFICATION FairSpec
CONSTANTS
    None = None
    opener = opener
    worker = worker
    thread = thread
    other = other
    Principals <- MCPrincipals
    Threads <- MCThreads
    EnvelopeIds = {1, 2}
    Clocks <- MCClocks
    Candidates <- ResumeScript
    Views = {v1}
    Authorizations = {1, 2}
    AuthorizationsFor <- Shared
    MaxEpoch = 2
    BindsReservations = FALSE
    ReservesOnlyLive = TRUE
    RebuildIsAtomic = FALSE
    ExclusiveLeases = TRUE
    LeasesPassed = TRUE
    MayCrash = TRUE
    MayLoseAllow = TRUE
INVARIANTS
    TypeOK
    CommittedNeverReleased
    AcksTruthful
    AuthorizationsUnique
PROPERTIES
    CommitsSettle
