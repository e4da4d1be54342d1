SPECIFICATION RetryingSpec
CONSTANTS
    None = None
    opener = opener
    worker = worker
    thread = thread
    other = other
    Principals <- MCPrincipals
    Threads <- MCThreads
    EnvelopeIds = {1, 2}
    Clocks <- MCClocks
    Candidates <- SettleScript
    Views = {v1}
    Authorizations = {1, 2}
    AuthorizationsFor <- OneToOne
    MaxEpoch = 1
    BindsReservations = TRUE
    ReservesOnlyLive = FALSE
    RebuildIsAtomic = TRUE
    ExclusiveLeases = TRUE
    LeasesPassed = FALSE
    MayCrash = FALSE
    MayLoseAllow = TRUE
PROPERTIES
    EveryReservationResolves
