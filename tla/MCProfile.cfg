SPECIFICATION ProfileSpec
CONSTANTS
    None = None
    opener = opener
    worker = worker
    thread = thread
    Principals <- MCPrincipals
    Threads <- MCThreads
    EnvelopeIds = {1, 2, 3}
    Clocks <- MCClocks
    Candidates <- MCCandidates
    Tasks = {"task", "other"}
    TaskOf <- MCTaskOf
    Views = {v1, v2}
    Authorizations = {1, 2, 3}
    AuthorizationsFor <- OneToOne
    MaxEpoch = 2
    BindsReservations = TRUE
    ReservesOnlyLive = TRUE
    RebuildIsAtomic = TRUE
    ExclusiveLeases = TRUE
    LeasesPassed = FALSE
    MayCrash = FALSE
    MayLoseAllow = FALSE
SYMMETRY Symmetry
INVARIANTS
    CommitsAreJournaled
    EffectFenced
    EffectSettled
    EffectInstalled
    RelationTellsForks
    TranscriptFaithful
PROPERTIES
    FencedAppend
CHECK_DEADLOCK FALSE
